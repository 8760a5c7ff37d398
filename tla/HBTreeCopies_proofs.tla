------------------------- MODULE HBTreeCopies_proofs -------------------------
(***************************************************************************)
(* What becomes of the copies of a key: a leaf's array, the log of its     *)
(* inner node and the tree that the worker keeps from the log.             *)
(*                                                                         *)
(* There follows a log: whether a key is in the tree before a given entry  *)
(* is applied.  Stays is the end of that: whether the key is in the tree   *)
(* when the log is empty.  Placed says that the keys which stay in the     *)
(* tree of a leaf's node are the keys the leaf holds, Pending and Batch    *)
(* what is where while the worker moves a range to a new node, HotData     *)
(* that a hot leaf's array has the same keys.                              *)
(*                                                                         *)
(* A range search reads a page from right to left after a removal, and     *)
(* ends at a key above the range.  NoneAbove shows that such a key is one  *)
(* whose copy is not with its leaf: then BeginSplit counts the range among *)
(* the astray, and in every other case the search gives the whole range    *)
(* (RangeIs), however the keys share the pages.                            *)
(*                                                                         *)
(* The hypotheses are those of the run HBTree.  After a two-way split the  *)
(* left leaf has a node that is to be recycled: KeepsACopy fails, and a    *)
(* leaf goes on with a freed node, of which nothing can be said.  Of two   *)
(* values of a key the B+tree and the array may lose different ones:       *)
(* TreesCatchUp and SearchesRight fail.                                    *)
(***************************************************************************)
EXTENDS HBTree_proofs

-----------------------------------------------------------------------------

(* Entry j of log l puts key k in its tree or takes it out.                *)
About(l, k, j) == l[j].type # "split" /\ l[j].key = k

(* Whether key k is in the tree before the entry at place m of its log l   *)
(* is applied, if it is there now or not.                                  *)
There(l, now, k, m) ==
  \/ now /\ \A j \in DOMAIN l : j < m => ~About(l, k, j)
  \/ \E j \in DOMAIN l :
       /\ j < m /\ About(l, k, j) /\ l[j].type = "insert"
       /\ \A i \in DOMAIN l : i < m /\ About(l, k, i) => i <= j

(* A key that is inserted is not in the tree then.                         *)
Sound(l, now, k) ==
  \A j \in DOMAIN l :
    About(l, k, j) /\ l[j].type = "insert" => l[j].value = 1 /\ ~There(l, now, k, j)

(* The worker of n will delete key k from its tree: it is in the batch.    *)
InBatch(n, k, i) == \E j \in DOMAIN worker[n].batch : j < i /\ worker[n].batch[j][1] = k
InTree(n, k) == tree[n][k] # <<>> /\ ~(worker[n].at = "prune" /\ InBatch(n, k, worker[n].i + 1))

(* Whether key k is in the tree when the log is applied.                   *)
Stays(n, k) == There(log[n], InTree(n, k), k, Len(log[n]) + 1)

(* The keys whose place in persistent memory is known: not those of a      *)
(* merged leaf, logged outside their new leaf or left behind in a split.   *)
Tracked == Keys \ astray

(* A tree has a key once, and the log inserts no key that is in it.        *)
OneEach(n, k) == tree[n][k] \in {<<>>, <<1>>} /\ Sound(log[n], InTree(n, k), k)

(* What the batch of a split holds.                                        *)
Batch(n) ==
  LET w == worker[n]
  IN  /\ w.at = "move" => w.i <= Len(w.batch) + 1
      /\ w.at = "prune" => w.i <= Len(w.batch)
      /\ w.at = "move" => \A k \in Tracked :
           /\ InBatch(n, k, Len(w.batch) + 1) <=>
                log[n][1].key <= k /\ k <= log[n][1].value /\ tree[n][k] # <<>>
           /\ \A j \in DOMAIN w.batch : w.batch[j][1] = k => w.batch[j][2] = 1 /\ ~InBatch(n, k, j)

(* Trees, logs and batches are sound, and those not in use empty.          *)
Trees ==
  /\ \A n \in Nodes, k \in Tracked : OneEach(n, k)
  /\ \A n \in Nodes : Batch(n)
  /\ \A n \in Nodes \ created : log[n] = <<>> /\ tree[n] = NoValues /\ worker[n].at = "idle"
  /\ \A n \in cold : log[n] = <<>>

(* The operation under way has been logged.                                *)
Logged == client.at = "leaf" \/ (Splitting /\ client.then = "leaf")
Now(k) == IF Logged /\ client.key = k THEN client.op = "insert" ELSE acked[k] # <<>>

(* The latch is set and the leaf gets the node next.                       *)
Moved == client.at = "wait" /\ split_[client.old]
At(k) == IF Moved /\ LeafOf(k) = Head(client.todo) THEN client.leaf ELSE InnerOf(k)

(* The tree of a leaf will hold the keys of the leaf, and no other.        *)
Owner(m) == (\E x \in DOMAIN leaves : leaves[x].inner = m) \/ (Moved /\ client.leaf = m)
Placed ==
  \A k \in Tracked, m \in Nodes : Owner(m) => (Stays(m, k) <=> At(k) = m /\ Now(k))

Between(S, k) == \E i, j \in S : i <= k /\ k <= j
Copied(k) ==
  LET w == worker[client.old]
  IN  w.at = "move" /\ \E j \in DOMAIN w.batch : j < w.i /\ w.batch[j][1] = k

(* Until the latch is set the split entry is there and the new node has    *)
(* what the worker moved.                                                  *)
Pending ==
  client.at = "wait" /\ ~split_[client.old] =>
    LET l == log[client.old]
        e == l[Len(l)]
    IN  /\ l # <<>> /\ e.type = "split" /\ (worker[client.old].at = "prune" => Len(l) > 1)
        /\ \A k \in Keys : Between(Present(leaves[Head(client.todo)].data), k)
                             <=> e.key <= k /\ k <= e.value
        /\ \A k \in Tracked, m \in Nodes : m = client.leaf => (Stays(m, k) <=> Copied(k))

(* The pieces to be moved hold keys of their range, and that of the insert *)
(* that splits the leaf moves with its piece.                              *)
PieceKeys ==
  Splitting =>
    /\ \A j \in DOMAIN client.todo :
         LET x == client.todo[j]
         IN  \A k \in Present(leaves[x].data) : leaves[x].from <= k
    /\ client.then = "leaf" =>
         \A k \in Tracked : k = client.key /\ InnerOf(k) = client.old
                              => Between(Present(leaves[LeafOf(k)].data), k)

Answers ==
  /\ \A k \in Keys : acked[k] \in {<<>>, <<1>>}
  /\ client.at # "idle" /\ client.op = "insert" => acked[client.key] = <<>>

(* A hot leaf holds its keys.                                              *)
HotData ==
  \A x \in DOMAIN leaves, k \in Tracked :
    leaves[x].inner \notin cold =>
      leaves[x].data[k] = IF LeafOf(k) = x THEN acked[k] ELSE <<>>

HotCall ==
  /\ Splitting => client.old \notin cold
  /\ Logged => \A k \in Keys : k = client.key => InnerOf(k) \notin cold

Copies == Trees /\ Placed /\ Pending /\ PieceKeys /\ Answers /\ HotData /\ HotCall

-----------------------------------------------------------------------------
(* A log gets an entry at its end, or is applied to its first one.         *)

(* What a log leaves of a key depends on its entries up to the place.      *)
LEMMA ThereUpTo ==
  ASSUME NEW T, NEW l \in Seq(T), NEW r \in Seq(T), NEW m \in Int, NEW now, NEW k,
         m <= Len(l) + 1, m <= Len(r) + 1, \A j \in DOMAIN l : j < m => r[j] = l[j]
  PROVE  There(r, now, k, m) <=> There(l, now, k, m)
<1>1. \A j : j < m => (j \in DOMAIN l <=> j \in DOMAIN r)
  <2>1. DOMAIN l = 1 .. Len(l) /\ DOMAIN r = 1 .. Len(r) /\ Len(l) \in Nat /\ Len(r) \in Nat
    OBVIOUS
  <2> QED BY <2>1
<1>2. \A j \in DOMAIN l : j < m => (About(r, k, j) <=> About(l, k, j)) /\ r[j].type = l[j].type
  BY DEF About
<1> QED BY <1>1, <1>2 DEF There

(* After an entry at the end the key is there if it is put in by it, or    *)
(* was there before an entry about another key.                            *)
LEMMA AppendLog ==
  ASSUME NEW T, NEW l \in Seq(T), NEW e \in T, NEW now, NEW k,
         NEW r, r = Append(l, e), NEW new, new <=> e.type # "split" /\ e.key = k
  PROVE  /\ There(r, now, k, Len(r) + 1) <=>
              IF new THEN e.type = "insert" ELSE There(l, now, k, Len(l) + 1)
         /\ Sound(l, now, k)
            /\ (new /\ e.type = "insert" => e.value = 1 /\ ~There(l, now, k, Len(l) + 1))
              => Sound(r, now, k)
<1> DEFINE n == Len(l)
<1>1. /\ r \in Seq(T) /\ n \in Nat /\ Len(r) = n + 1 /\ DOMAIN l = 1 .. n /\ DOMAIN r = 1 .. n + 1
      /\ \A j \in 1 .. n : r[j] = l[j]
      /\ r[n + 1] = e
  OBVIOUS
<1> HIDE DEF n
<1>2. \A j \in 1 .. n : About(r, k, j) <=> About(l, k, j)
  BY <1>1 DEF About
<1>3. About(r, k, n + 1) <=> new
  BY <1>1 DEF About
<1>4. There(r, now, k, n + 2) <=> IF new THEN e.type = "insert" ELSE There(l, now, k, n + 1)
  <2>1. CASE new
    <3>1. About(r, k, n + 1) /\ n + 1 \in DOMAIN r /\ n + 1 < n + 2 /\ r[n + 1].type = e.type
      BY <1>1, <1>3, <2>1
    <3>2. \A j \in DOMAIN r : j <= n + 1 /\ (n + 1 <= j => j = n + 1)
      BY <1>1
    <3> QED BY <2>1, <3>1, <3>2 DEF There
  <2>2. CASE ~new
    <3>1. ~About(r, k, n + 1)
      BY <1>3, <2>2
    <3>2. \A j \in DOMAIN r : About(r, k, j) => j \in DOMAIN l /\ r[j] = l[j] /\ About(l, k, j)
      BY <1>1, <1>2, <3>1
    <3>3. \A j \in DOMAIN l : j \in DOMAIN r /\ j < n + 1 /\ j < n + 2 /\ r[j] = l[j]
      BY <1>1
    <3>4. \A j \in DOMAIN l : About(l, k, j) => About(r, k, j)
      BY <1>1, <1>2
    <3> QED BY <2>2, <3>2, <3>3, <3>4 DEF There
  <2> QED BY <2>1, <2>2
<1>5. ASSUME Sound(l, now, k), new /\ e.type = "insert" => e.value = 1 /\ ~There(l, now, k, n + 1)
      PROVE  Sound(r, now, k)
  <2> SUFFICES ASSUME NEW j \in DOMAIN r, About(r, k, j), r[j].type = "insert"
               PROVE  r[j].value = 1 /\ ~There(r, now, k, j)
    BY DEF Sound
  <2>1. There(r, now, k, j) <=> There(l, now, k, j)
    <3>1. j \in Int /\ j <= n + 1 /\ \A i \in DOMAIN l : r[i] = l[i]
      BY <1>1
    <3>2. j <= Len(l) + 1 /\ j <= Len(r) + 1
      BY <1>1, <3>1 DEF n
    <3> QED BY <1>1, <3>1, <3>2, ThereUpTo
  <2>2. CASE j \in 1 .. n
    BY <2>2, <2>1, <1>1, <1>2, <1>5 DEF Sound
  <2>3. CASE j = n + 1
    <3>1. new /\ r[j] = e
      BY <2>3, <1>1, <1>3
    <3> QED BY <3>1, <2>1, <2>3, <1>5
  <2> QED BY <2>2, <2>3, <1>1
<1>6. n + 2 = Len(r) + 1
  BY <1>1
<1>7. There(r, now, k, Len(r) + 1) <=> IF new THEN e.type = "insert" ELSE There(l, now, k, n + 1)
  BY <1>4, <1>6
<1> QED BY <1>5, <1>7 DEF n

(* The first entry is applied: its key is there or not, the others stay.   *)
LEMMA TailLog ==
  ASSUME NEW T, NEW l \in Seq(T), l # <<>>, NEW now, NEW k,
         NEW now2, now2 <=> IF About(l, k, 1) THEN l[1].type = "insert" ELSE now
  PROVE  /\ There(Tail(l), now2, k, Len(Tail(l)) + 1) <=> There(l, now, k, Len(l) + 1)
         /\ Sound(l, now, k) => Sound(Tail(l), now2, k)
<1> DEFINE r == Tail(l)
           n == Len(l)
<1>1. /\ r \in Seq(T) /\ n \in Nat \ {0} /\ Len(r) = n - 1 /\ DOMAIN l = 1 .. n /\ DOMAIN r = 1 .. n - 1
      /\ \A j \in 1 .. n - 1 : r[j] = l[j + 1]
  <2>1. DOMAIN l = 1 .. n /\ n \in Nat \ {0} /\ r \in Seq(T) /\ Len(r) = n - 1
    OBVIOUS
  <2>2. \A j \in 1 .. n - 1 : r[j] = l[j + 1]
    OBVIOUS
  <2> QED BY <2>1, <2>2
<1> HIDE DEF r, n
<1>2. \A j \in 1 .. n - 1 : (About(r, k, j) <=> About(l, k, j + 1)) /\ r[j].type = l[j + 1].type
                            /\ r[j].value = l[j + 1].value
  BY <1>1 DEF About
<1>3. ASSUME NEW m \in 1 .. n
      PROVE  There(r, now2, k, m) <=> There(l, now, k, m + 1)
  <2>1. \A j \in DOMAIN l : j = 1 \/ (j - 1 \in DOMAIN r /\ (j - 1) + 1 = j /\ (j < m + 1 => j - 1 < m)
                                      /\ (j - 1 < m => j < m + 1))
    BY <1>1
  <2>2. \A j \in DOMAIN r : j + 1 \in DOMAIN l /\ j + 1 # 1 /\ j + 1 > 1 /\ (j < m => j + 1 < m + 1)
                            /\ (j + 1 < m + 1 => j < m)
    BY <1>1
  <2>3. \A i, j \in DOMAIN r : i <= j <=> i + 1 <= j + 1
    BY <1>1
  <2>4. 1 \in DOMAIN l /\ 1 < m + 1 /\ \A j \in DOMAIN l : j <= 1 => j = 1
    BY <1>1
  <2>5. \A j \in DOMAIN r : (About(r, k, j) <=> About(l, k, j + 1)) /\ r[j].type = l[j + 1].type
    BY <1>1, <1>2
  <2> DEFINE Latest(s, x, y) == /\ x < y /\ About(s, k, x) /\ s[x].type = "insert"
                              /\ \A i \in DOMAIN s : i < y /\ About(s, k, i) => i <= x
  <2>6. \A j \in DOMAIN r : Latest(r, j, m) <=> Latest(l, j + 1, m + 1)
    <3> TAKE j \in DOMAIN r
    <3>1. ASSUME Latest(r, j, m), NEW i \in DOMAIN l, i < m + 1, About(l, k, i) PROVE i <= j + 1
      <4>1. CASE i = 1
        BY <4>1, <2>2, <1>1
      <4>2. CASE i # 1
        <5>1. i - 1 \in DOMAIN r /\ i - 1 < m /\ About(r, k, i - 1)
          BY <4>2, <3>1, <2>1, <2>5
        <5>2. i - 1 <= j
          BY <5>1, <3>1
        <5> QED BY <5>2, <1>1
      <4> QED BY <4>1, <4>2
    <3>2. ASSUME Latest(l, j + 1, m + 1), NEW i \in DOMAIN r, i < m, About(r, k, i) PROVE i <= j
      <4>1. i + 1 <= j + 1
        BY <3>2, <2>2, <2>5
      <4> QED BY <4>1, <2>3
    <3> QED BY <3>1, <3>2, <2>2, <2>5
  <2>7. Latest(l, 1, m + 1) <=> /\ About(l, k, 1) /\ l[1].type = "insert"
                              /\ \A j \in DOMAIN r : j < m => ~About(r, k, j)
    <3>1. ASSUME Latest(l, 1, m + 1), NEW j \in DOMAIN r, j < m, About(r, k, j) PROVE FALSE
      <4>1. j + 1 <= 1
        BY <3>1, <2>2, <2>5
      <4> QED BY <4>1, <1>1
    <3>2. ASSUME \A j \in DOMAIN r : j < m => ~About(r, k, j),
                 NEW i \in DOMAIN l, i < m + 1, About(l, k, i) PROVE i <= 1
      <4>1. i = 1 \/ (i - 1 \in DOMAIN r /\ i - 1 < m /\ (i - 1) + 1 = i)
        BY <3>2, <2>1
      <4>2. CASE i - 1 \in DOMAIN r /\ i - 1 < m /\ (i - 1) + 1 = i
        BY <4>2, <3>2, <2>5
      <4> QED BY <4>1, <4>2
    <3> QED BY <3>1, <3>2, <2>4
  <2>8. (\A j \in DOMAIN l : j < m + 1 => ~About(l, k, j)) <=>
          ~About(l, k, 1) /\ \A j \in DOMAIN r : j < m => ~About(r, k, j)
    BY <2>1, <2>2, <2>4, <2>5
  <2>9. There(r, now2, k, m) <=> \/ now2 /\ \A j \in DOMAIN r : j < m => ~About(r, k, j)
                                 \/ \E j \in DOMAIN r : Latest(r, j, m)
    BY DEF There
  <2>10. There(l, now, k, m + 1) <=> \/ now /\ \A j \in DOMAIN l : j < m + 1 => ~About(l, k, j)
                                     \/ \E j \in DOMAIN l : Latest(l, j, m + 1)
    BY DEF There
  <2>11. (\E j \in DOMAIN l : Latest(l, j, m + 1)) <=> Latest(l, 1, m + 1) \/ \E j \in DOMAIN r : Latest(r, j, m)
    <3> HIDE DEF Latest
    <3> QED BY <2>1, <2>2, <2>4, <2>6
  <2> HIDE DEF Latest
  <2> QED BY <2>7, <2>8, <2>9, <2>10, <2>11
<1>4. There(r, now2, k, n) <=> There(l, now, k, n + 1)
  BY <1>1, <1>3
<1>5. ASSUME Sound(l, now, k), NEW j \in DOMAIN r, About(r, k, j), r[j].type = "insert"
      PROVE  r[j].value = 1 /\ ~There(r, now2, k, j)
  <2>1. j \in 1 .. n /\ j \in 1 .. n - 1 /\ j + 1 \in DOMAIN l
    BY <1>1
  <2>2. About(l, k, j + 1) /\ l[j + 1].type = "insert" /\ r[j].value = l[j + 1].value
    BY <1>2, <1>5, <2>1
  <2> QED BY <2>1, <2>2, <1>3, <1>5 DEF Sound
<1>6. (n - 1) + 1 = n
  BY <1>1
<1>7. Sound(l, now, k) => Sound(r, now2, k)
  BY <1>5 DEF Sound
<1>8. There(r, now2, k, Len(r) + 1) <=> There(l, now, k, n + 1)
  BY <1>1, <1>4, <1>6
<1> QED BY <1>7, <1>8 DEF r, n

-----------------------------------------------------------------------------
(* A step of one node's worker, or of the client on one node.              *)

(* A node whose tree, log and worker are left alone.                       *)
LEMMA SameNode ==
  ASSUME NEW n, log'[n] = log[n], tree'[n] = tree[n], worker'[n] = worker[n]
  PROVE  \A k : (Stays(n, k)' <=> Stays(n, k)) /\ (OneEach(n, k)' <=> OneEach(n, k))
<1>1. \A k : InTree(n, k)' <=> InTree(n, k)
  BY DEF InTree, InBatch
<1>2. ASSUME NEW k PROVE (Stays(n, k)' <=> Stays(n, k)) /\ (OneEach(n, k)' <=> OneEach(n, k))
  BY <1>1 DEF Stays, OneEach, Sound, There, About
<1> QED BY <1>2

(* A batch depends on the tree and on the entry at the head of the log.    *)
LEMMA SameBatch ==
  ASSUME NEW n, worker'[n] = worker[n], tree'[n] = tree[n], Tracked' \subseteq Tracked,
         worker[n].at = "move" => log'[n][1] = log[n][1], Batch(n)
  PROVE  Batch(n)'
<1>1. \A k, i : InBatch(n, k, i)' <=> InBatch(n, k, i)
  BY DEF InBatch
<1> QED BY <1>1 DEF Batch

(* The nodes of S change.                                                  *)
LEMMA SomeNodes ==
  ASSUME Trees, astray \subseteq astray', UNCHANGED <<created, cold>>, NEW S \in SUBSET created, cold \subseteq Nodes,
         \A m \in Nodes \ S : log'[m] = log[m] /\ tree'[m] = tree[m] /\ worker'[m] = worker[m],
         \A m \in S : m \in cold => log'[m] = <<>>,
         \A m \in S, k \in Tracked : OneEach(m, k)', \A m \in S : Batch(m)'
  PROVE  Trees' /\ \A m \in Nodes \ S, k \in Tracked : Stays(m, k)' <=> Stays(m, k)
<1>1. Tracked' \subseteq Tracked
  BY DEF Tracked
<1>2. \A m \in Nodes \ S : Batch(m)'
  BY <1>1, SameBatch DEF Trees
<1>3. \A m \in Nodes \ S : \A k : (Stays(m, k)' <=> Stays(m, k)) /\ (OneEach(m, k)' <=> OneEach(m, k))
  BY SameNode
<1>4. \A m \in Nodes, k \in Tracked' : OneEach(m, k)'
  BY <1>1, <1>3 DEF Trees
<1>5. \A m \in Nodes : Batch(m)'
  BY <1>2
<1>6. \A m \in Nodes \ created' : log'[m] = <<>> /\ tree'[m] = NoValues /\ worker'[m].at = "idle"
  BY DEF Trees
<1>7. \A m \in cold' : log'[m] = <<>>
  BY DEF Trees
<1>8. Trees'
  BY <1>4, <1>5, <1>6, <1>7 DEF Trees
<1> QED BY <1>3, <1>8

(* Node n changes.                                                         *)
LEMMA OneNode ==
  ASSUME Trees, astray \subseteq astray', UNCHANGED <<created, cold>>, NEW n \in created,
         \A m \in Nodes : m # n => log'[m] = log[m] /\ tree'[m] = tree[m] /\ worker'[m] = worker[m],
         n \in cold => log'[n] = <<>>, cold \subseteq Nodes,
         \A k \in Tracked : OneEach(n, k)', Batch(n)'
  PROVE  Trees' /\ \A m \in Nodes, k \in Tracked : m # n => (Stays(m, k)' <=> Stays(m, k))
<1> DEFINE S == {n}
<1>1. S \in SUBSET created /\ \A m : m \in S <=> m = n
  OBVIOUS
<1> HIDE DEF S
<1>2. \A m \in Nodes \ S : log'[m] = log[m] /\ tree'[m] = tree[m] /\ worker'[m] = worker[m]
  BY <1>1
<1>3. \A m \in S : (m \in cold => log'[m] = <<>>) /\ Batch(m)' /\ \A k \in Tracked : OneEach(m, k)'
  BY <1>1
<1>4. Trees' /\ \A m \in Nodes \ S, k \in Tracked : Stays(m, k)' <=> Stays(m, k)
  BY <1>1, <1>2, <1>3, SomeNodes
<1> QED BY <1>1, <1>4

(* The worker of a node that is not in a split entry.                      *)
LEMMA Works ==
  ASSUME State, Producers, Trees, NEW n \in Nodes, log[n] # <<>>
  PROVE  /\ n \in created /\ n \notin cold
         /\ log[n] \in Seq(Entries) /\ Head(log[n]) = log[n][1] /\ 1 \in DOMAIN log[n]
         /\ log[n][1] \in Entries /\ cold \subseteq Nodes
         /\ log[n][1].type # "split" => worker[n].at = "idle"
<1>1. n \in created /\ n \notin cold
  BY DEF Trees
<1>2. log[n] \in Seq(Entries) /\ cold \subseteq created /\ created \subseteq Nodes
  BY DEF State, TypeOK
<1>3. Head(log[n]) = log[n][1] /\ 1 \in DOMAIN log[n] /\ log[n][1] \in Entries
  BY <1>2, TailIs
<1> QED BY <1>1, <1>2, <1>3 DEF Producers, InSplit

(* The worker applies an entry.                                            *)
LEMMA ApplyKeepsTrees ==
  ASSUME State, Producers, Trees, NEW n \in Nodes, Apply(n)
  PROVE  Trees' /\ \A m \in Nodes, k \in Tracked : Stays(m, k)' <=> Stays(m, k)
<1> DEFINE l == log[n]
           e == l[1]
<1>1. /\ l # <<>> /\ e.type # "split" /\ log' = [log EXCEPT ![n] = Tail(@)]
      /\ tree' = [tree EXCEPT ![n] = IF e.type = "insert" THEN BtreeInsert(@, e.key, e.value)
                                     ELSE BtreeDelete(@, e.key)]
      /\ UNCHANGED <<split_, worker, shape, client, acked, astray, broken, ops>>
  BY Works DEF Apply
<1>2. /\ n \in created /\ n \notin cold /\ cold \subseteq Nodes /\ l \in Seq(Entries) /\ 1 \in DOMAIN l
      /\ e \in Entries /\ worker[n].at = "idle"
  BY <1>1, Works
<1>3. /\ tree \in [Nodes -> Contents] /\ log \in [Nodes -> Seq(Entries)] /\ tree[n] \in Contents
  BY Typed DEF State
<1>4. /\ e.key \in Keys /\ e.type \in {"insert", "erase"}
  BY <1>1, <1>2 DEF Entries
<1> HIDE DEF e, l
<1>5. /\ log'[n] = Tail(l) /\ worker'[n] = worker[n]
      /\ tree'[n] = IF e.type = "insert" THEN BtreeInsert(tree[n], e.key, e.value)
                    ELSE BtreeDelete(tree[n], e.key)
      /\ \A m \in Nodes : m # n => log'[m] = log[m] /\ tree'[m] = tree[m] /\ worker'[m] = worker[m]
  BY <1>1, <1>3 DEF l
<1>6. ASSUME NEW k \in Tracked
      PROVE  OneEach(n, k)' /\ (Stays(n, k)' <=> Stays(n, k))
  <2>1. /\ tree[n][k] \in {<<>>, <<1>>} /\ Sound(l, InTree(n, k), k) /\ (InTree(n, k) <=> tree[n][k] # <<>>)
        /\ (InTree(n, k)' <=> tree'[n][k] # <<>>) /\ k \in Keys
    BY <1>2, <1>5 DEF Trees, OneEach, InTree, Tracked, l
  <2>2. tree'[n][k] \in {<<>>, <<1>>}
        /\ (tree'[n][k] # <<>> <=> IF About(l, k, 1) THEN e.type = "insert" ELSE tree[n][k] # <<>>)
    <3>1. CASE e.key # k
      <4>1. tree'[n][k] = tree[n][k]
        BY <3>1, <1>5, <1>3, <2>1 DEF BtreeInsert, BtreeDelete, Contents
      <4>2. ~About(l, k, 1)
        BY <3>1 DEF About, e
      <4> QED BY <4>1, <4>2, <2>1
    <3>2. CASE e.key = k /\ e.type = "insert"
      <4>1. About(l, k, 1)
        BY <3>2, <1>1 DEF About, e
      <4>2. e.value = 1 /\ ~There(l, InTree(n, k), k, 1)
        BY <4>1, <3>2, <2>1, <1>2 DEF Sound, e
      <4>3. \A j \in DOMAIN l : ~(j < 1)
        BY <1>2
      <4>4. tree[n][k] = <<>>
        BY <4>2, <4>3, <2>1 DEF There
      <4>5. tree'[n][k] = Append(<<>>, 1)
        BY <3>2, <1>5, <1>3, <2>1, <4>2, <4>4 DEF BtreeInsert, Contents
      <4>6. Append(<<>>, 1) = <<1>>
        OBVIOUS
      <4> QED BY <4>1, <4>5, <4>6, <3>2
    <3>3. CASE e.key = k /\ e.type = "erase"
      <4>1. About(l, k, 1)
        BY <3>3, <1>1 DEF About, e
      <4>2. tree'[n][k] = IF tree[n][k] = <<>> THEN <<>> ELSE Tail(tree[n][k])
        BY <3>3, <1>5, <1>3, <2>1 DEF BtreeDelete, Contents
      <4>3. Tail(<<1>>) = <<>>
        OBVIOUS
      <4> QED BY <4>1, <4>2, <4>3, <2>1, <3>3
    <3> QED BY <3>1, <3>2, <3>3, <1>4
  <2>3. InTree(n, k)' <=> IF About(l, k, 1) THEN l[1].type = "insert" ELSE InTree(n, k)
    BY <2>1, <2>2 DEF e
  <2>4. /\ There(Tail(l), InTree(n, k)', k, Len(Tail(l)) + 1) <=> There(l, InTree(n, k), k, Len(l) + 1)
        /\ Sound(Tail(l), InTree(n, k)', k)
    BY <2>1, <2>3, <1>1, <1>2, TailLog DEF l
  <2>5. Stays(n, k)' <=> There(Tail(l), InTree(n, k)', k, Len(Tail(l)) + 1)
    BY <1>5 DEF Stays, There, About
  <2>6. Stays(n, k) <=> There(l, InTree(n, k), k, Len(l) + 1)
    BY DEF Stays, l
  <2>7. Sound(Tail(l), InTree(n, k)', k) <=> Sound(log[n], InTree(n, k), k)'
    BY <1>5 DEF Sound, There, About
  <2>8. OneEach(n, k)'
    BY <2>2, <2>4, <2>7 DEF OneEach
  <2> QED BY <2>4, <2>5, <2>6, <2>8
<1>7. Batch(n)'
  BY <1>2, <1>5 DEF Batch
<1>8. UNCHANGED <<astray, created, cold>>
  BY <1>1 DEF shape
<1>9. Trees' /\ \A m \in Nodes, k \in Tracked : m # n => (Stays(m, k)' <=> Stays(m, k))
  BY <1>2, <1>5, <1>6, <1>7, <1>8, OneNode
<1> QED BY <1>6, <1>9

(* The worker that moves entries: the client waits for it, and its log is  *)
(* the split entry.                                                        *)
LEMMA Moves ==
  ASSUME State, Producers, Trees, NEW n \in Nodes, worker[n].at = "move"
  PROVE  /\ client.at = "wait" /\ client.old = n /\ client.leaf = log[n][1].to /\ ~split_[n]
         /\ Len(log[n]) = 1 /\ log[n][1].type = "split" /\ DOMAIN log[n] = {1} /\ log[n] # <<>>
         /\ client.leaf \in created \ cold /\ client.leaf # n /\ client.leaf \in Nodes
         /\ n \in created \ cold /\ cold \subseteq Nodes /\ ~Moved
<1>1. log[n] # <<>> /\ log[n][1].type = "split"
  BY DEF Producers, InSplit
<1>2. 1 \in DOMAIN log[n] /\ n \in created \ cold /\ cold \subseteq Nodes /\ log[n] \in Seq(Entries)
  BY <1>1, Works
<1>3. /\ client.at = "wait" /\ client.old = n /\ client.leaf = log[n][1].to
      /\ 1 = Len(log[n]) /\ ~split_[n]
  BY <1>1, <1>2 DEF Producers, SplitEntries
<1>4. client.leaf \in created \ cold /\ client.leaf # n /\ created \subseteq Nodes
  BY <1>3 DEF State, Waiting, TypeOK
<1>5. DOMAIN log[n] = {1}
  BY <1>2, <1>3
<1> QED BY <1>1, <1>2, <1>3, <1>4, <1>5 DEF Moved

(* What a log with a split entry only leaves of a key is what is there.    *)
LEMMA SplitOnly ==
  ASSUME NEW l, DOMAIN l = {1}, l[1].type = "split", NEW now, NEW k, NEW m
  PROVE  (There(l, now, k, m) <=> now) /\ Sound(l, now, k)
BY DEF There, Sound, About

(* The worker writes the entry at place i of the batch to the new node's   *)
(* log.                                                                    *)
LEMMA MoveEntryKeepsTrees ==
  ASSUME State, Producers, Trees, Pending, NEW n \in Nodes, MoveEntry(n),
         NEW i, i = worker[n].i, NEW to, to = client.leaf
  PROVE  /\ Trees' /\ worker'[n].at = "move" /\ worker'[n].i = i + 1 /\ worker[n].at = "move" /\ to # n
         /\ worker'[n].batch = worker[n].batch /\ log'[n] = log[n] /\ client.old = n /\ ~Moved
         /\ \A m \in Nodes, k \in Tracked : m # to => (Stays(m, k)' <=> Stays(m, k))
         /\ \A k \in Tracked : Stays(to, k)' <=> InBatch(n, k, i + 1)
<1> DEFINE b == worker[n].batch
           l == log[to]
           e == Entry("insert", b[i][1], b[i][2], 0)
<1>1. /\ worker[n].at = "move" /\ i <= Len(b)
      /\ UNCHANGED <<tree, split_, shape, client, acked, astray, broken, ops>>
  BY DEF MoveEntry
<1>2. /\ client.at = "wait" /\ client.old = n /\ to = log[n][1].to /\ ~split_[n] /\ log[n] # <<>>
      /\ Len(log[n]) = 1 /\ log[n][1].type = "split"
      /\ to \in created \ cold /\ to # n /\ to \in Nodes /\ n \in created \ cold /\ cold \subseteq Nodes /\ ~Moved
  BY <1>1, Moves
<1>3. Head(log[n]) = log[n][1]
  BY <1>2, Works
<1>4. /\ Len(l) < LogSlots /\ log' = [log EXCEPT ![to] = Append(@, e)]
      /\ worker' = [worker EXCEPT ![n].i = @ + 1]
  <2> HIDE DEF e
  <2>1. Head(log[n]).to = to
    BY <1>2, <1>3
  <2>2. Write(to, e)
    BY <2>1 DEF MoveEntry, e
  <2>3. worker' = [worker EXCEPT ![n].i = @ + 1]
    BY DEF MoveEntry
  <2> QED BY <2>2, <2>3 DEF Write, Accepts
<1>5. /\ log \in [Nodes -> Seq(Entries)] /\ worker \in [Nodes -> WorkerType] /\ b \in Seq(Keys \X Nat)
      /\ i \in Nat \ {0} /\ l \in Seq(Entries) /\ worker[n] \in WorkerType
  <2>1. log \in [Nodes -> Seq(Entries)] /\ worker \in [Nodes -> WorkerType]
    BY Typed DEF State
  <2>2. worker[n] \in WorkerType
    BY <2>1
  <2>3. b \in Seq(Keys \X Nat) /\ i \in Nat
    BY <2>2 DEF WorkerType
  <2>4. i > 0
    BY <1>1 DEF Producers, InSplit
  <2> QED BY <2>1, <2>2, <2>3, <2>4, <1>2
<1>6. i \in DOMAIN b /\ b[i][1] \in Keys /\ b[i][2] \in Nat
  <2>1. i \in DOMAIN b
    BY <1>1, <1>5
  <2>2. b[i] \in Keys \X Nat
    BY <2>1, <1>5
  <2> QED BY <2>1, <2>2
<1>7. e \in Entries /\ e.type = "insert" /\ e.key = b[i][1] /\ e.value = b[i][2]
  BY <1>6 DEF Entry, Entries
<1> HIDE DEF e
<1>8. /\ worker'[n].at = "move" /\ worker'[n].i = i + 1 /\ worker'[n].batch = b
      /\ \A m \in Nodes : m # n => worker'[m] = worker[m]
  <2> HIDE DEF b
  <2> QED BY <1>1, <1>4, <1>5 DEF b, WorkerType
<1>9. log'[to] = Append(l, e) /\ \A m \in Nodes : m # to => log'[m] = log[m]
  BY <1>4, <1>5, <1>2
<1>10. Batch(n)
  BY DEF Trees
<1>11. \A k \in Tracked : Stays(to, k) <=> InBatch(n, k, i)
  BY <1>1, <1>2 DEF Pending, Copied, InBatch
<1> HIDE DEF l
<1>12. ASSUME NEW k \in Tracked
       PROVE  OneEach(to, k)' /\ (Stays(to, k)' <=> InBatch(n, k, i + 1))
  <2>1. Stays(to, k) <=> There(l, InTree(to, k), k, Len(l) + 1)
    BY DEF Stays, l
  <2>2. Stays(to, k)' <=> There(log'[to], InTree(to, k)', k, Len(log'[to]) + 1)
    BY DEF Stays, There, About
  <2>3. InTree(to, k)' <=> InTree(to, k)
    BY <1>1, <1>2, <1>8 DEF InTree, InBatch
  <2>4. OneEach(to, k)
    BY <1>2 DEF Trees
  <2>5. tree'[to][k] \in {<<>>, <<1>>} /\ Sound(l, InTree(to, k), k)
    BY <2>4, <1>1 DEF OneEach, l
  <2>6. b[i][1] = k => b[i][2] = 1 /\ ~InBatch(n, k, i)
    BY <1>1, <1>6, <1>10 DEF Batch
  <2>7. b[i][1] = k => e.value = 1 /\ ~There(l, InTree(to, k), k, Len(l) + 1)
    BY <2>1, <2>6, <1>7, <1>11
  <2>8. /\ There(log'[to], InTree(to, k), k, Len(log'[to]) + 1)
             <=> IF b[i][1] = k THEN e.type = "insert" ELSE There(l, InTree(to, k), k, Len(l) + 1)
        /\ Sound(log'[to], InTree(to, k), k)
    <3> DEFINE new == b[i][1] = k
               now == InTree(to, k)
               r == log'[to]
    <3>1. new <=> e.type # "split" /\ e.key = k
      BY <1>7
    <3>2. new /\ e.type = "insert" => e.value = 1 /\ ~There(l, now, k, Len(l) + 1)
      BY <2>7
    <3>3. Sound(l, now, k) /\ r = Append(l, e)
      BY <2>5, <1>9
    <3> HIDE DEF new, now, r
    <3>4. /\ There(r, now, k, Len(r) + 1) <=> IF new THEN e.type = "insert" ELSE There(l, now, k, Len(l) + 1)
          /\ Sound(r, now, k)
      BY <3>1, <3>2, <3>3, <1>5, <1>7, AppendLog
    <3> QED BY <3>4 DEF new, now, r
  <2>9. InBatch(n, k, i + 1) <=> b[i][1] = k \/ InBatch(n, k, i)
    <3>1. \A j \in DOMAIN b : j < i + 1 <=> j = i \/ j < i
      <4>1. i \in Nat /\ \A j \in DOMAIN b : j \in Nat
        BY <1>5
      <4> HIDE DEF b
      <4> QED BY <4>1
    <3>2. worker[n].batch = b
      OBVIOUS
    <3> HIDE DEF b
    <3> QED BY <3>1, <3>2, <1>6 DEF InBatch
  <2>10. There(log'[to], InTree(to, k), k, Len(log'[to]) + 1) <=> InBatch(n, k, i + 1)
    BY <2>1, <2>8, <2>9, <1>7, <1>11
  <2>11. Stays(to, k)' <=> There(log'[to], InTree(to, k), k, Len(log'[to]) + 1)
    BY <2>2, <2>3 DEF There
  <2>12. Sound(log[to], InTree(to, k), k)' <=> Sound(log'[to], InTree(to, k), k)
    BY <2>3 DEF Sound, There, About
  <2>13. OneEach(to, k)'
    BY <2>5, <2>8, <2>12 DEF OneEach
  <2> QED BY <2>10, <2>11, <2>13
<1>13. Batch(to)'
  <2>1. worker'[to] = worker[to] /\ tree' = tree /\ Tracked' = Tracked
    BY <1>1, <1>2, <1>8 DEF Tracked
  <2>2. worker[to].at # "move"
    BY <1>2, Moves
  <2>3. Batch(to)
    BY <1>2 DEF Trees
  <2> QED BY <2>1, <2>2, <2>3, <1>2, SameBatch
<1>14. Batch(n)'
  <2>1. Tracked' = Tracked /\ tree' = tree /\ log'[n] = log[n]
    BY <1>1, <1>2, <1>9 DEF Tracked
  <2>2. \A k, j : InBatch(n, k, j)' <=> InBatch(n, k, j)
    BY <1>8 DEF InBatch
  <2>3. i + 1 <= Len(b) + 1
    BY <1>1, <1>5
  <2> HIDE DEF b
  <2>4. worker[n].batch = b
    BY DEF b
  <2> QED BY <2>1, <2>2, <2>3, <2>4, <1>1, <1>8, <1>10 DEF Batch
<1>15. ASSUME NEW k \in Tracked PROVE OneEach(n, k)' /\ (Stays(n, k)' <=> Stays(n, k))
  <2>1. OneEach(n, k)
    BY DEF Trees
  <2>2. InTree(n, k)' <=> InTree(n, k)
    BY <1>1, <1>8 DEF InTree
  <2>3. log'[n] = log[n] /\ tree'[n] = tree[n]
    BY <1>1, <1>2, <1>9
  <2> QED BY <2>1, <2>2, <2>3 DEF OneEach, Stays, Sound, There, About
<1>16. Trees' /\ \A m \in Nodes \ {n, to}, k \in Tracked : Stays(m, k)' <=> Stays(m, k)
  <2> DEFINE S == {n, to}
  <2>1. S \in SUBSET created /\ \A m : m \in S <=> m = n \/ m = to
    BY <1>2
  <2>2. UNCHANGED <<astray, created, cold>> /\ tree' = tree
    BY <1>1 DEF shape
  <2> HIDE DEF S
  <2>3. \A m \in Nodes \ S : log'[m] = log[m] /\ tree'[m] = tree[m] /\ worker'[m] = worker[m]
    BY <2>1, <2>2, <1>8, <1>9
  <2>4. \A m \in S : (m \in cold => log'[m] = <<>>) /\ Batch(m)' /\ \A k \in Tracked : OneEach(m, k)'
    BY <2>1, <1>2, <1>12, <1>13, <1>14, <1>15
  <2>5. Trees' /\ \A m \in Nodes \ S, k \in Tracked : Stays(m, k)' <=> Stays(m, k)
    BY <2>1, <2>2, <2>3, <2>4, <1>2, SomeNodes
  <2> QED BY <2>1, <2>5
<1> QED BY <1>1, <1>2, <1>8, <1>9, <1>12, <1>15, <1>16

(* The worker sets the latch: the keys of the batch are to go.             *)
LEMMA SetLatchKeepsTrees ==
  ASSUME State, Producers, Trees, NEW n \in Nodes, SetLatch(n)
  PROVE  /\ Trees' /\ worker[n].at = "move" /\ worker'[n].at = "prune" /\ log' = log /\ tree' = tree
         /\ worker'[n].batch = worker[n].batch /\ split_'[n]
         /\ \A m \in Nodes, k \in Tracked : m # n => (Stays(m, k)' <=> Stays(m, k))
         /\ \A k \in Tracked :
              /\ Stays(n, k) <=> tree[n][k] # <<>>
              /\ InBatch(n, k, worker[n].i)
                   <=> (log[n][1].key <= k /\ k <= log[n][1].value /\ tree[n][k] # <<>>)
              /\ Stays(n, k)' <=> (tree[n][k] # <<>> /\ ~InBatch(n, k, worker[n].i))
<1> DEFINE b == worker[n].batch
           i == worker[n].i
<1>1. /\ worker[n].at = "move" /\ i > Len(b) /\ split_' = [split_ EXCEPT ![n] = TRUE]
      /\ worker' = [worker EXCEPT ![n].at = "prune", ![n].i = @ - 1]
      /\ UNCHANGED <<tree, log, shape, client, acked, astray, broken, ops>>
  BY DEF SetLatch
<1>2. /\ log[n] # <<>> /\ n \in created \ cold /\ cold \subseteq Nodes /\ ~split_[n]
      /\ Len(log[n]) = 1 /\ log[n][1].type = "split" /\ DOMAIN log[n] = {1}
  BY <1>1, Moves
<1>3. /\ worker \in [Nodes -> WorkerType] /\ split_ \in [Nodes -> BOOLEAN]
      /\ b \in Seq(Keys \X Nat) /\ i \in Nat /\ worker[n] \in WorkerType
  <2>1. worker \in [Nodes -> WorkerType] /\ split_ \in [Nodes -> BOOLEAN]
    BY Typed DEF State
  <2>2. worker[n] \in WorkerType
    BY <2>1
  <2>3. b \in Seq(Keys \X Nat) /\ i \in Nat
    BY <2>2 DEF WorkerType
  <2> QED BY <2>1, <2>2, <2>3
<1>4. Batch(n)
  BY DEF Trees
<1>5. i = Len(b) + 1
  BY <1>1, <1>3, <1>4 DEF Batch
<1>6. /\ worker'[n].at = "prune" /\ worker'[n].batch = b /\ worker'[n].i = i - 1 /\ split_'[n]
      /\ \A m \in Nodes : m # n => worker'[m] = worker[m]
  <2> HIDE DEF b, i
  <2> QED BY <1>1, <1>3 DEF b, i, WorkerType
<1>7. UNCHANGED <<astray, created, cold>> /\ Tracked' = Tracked
  BY <1>1 DEF shape, Tracked
<1>8. ASSUME NEW k \in Tracked
      PROVE  /\ OneEach(n, k)' /\ (Stays(n, k) <=> tree[n][k] # <<>>)
             /\ InBatch(n, k, i) <=> (log[n][1].key <= k /\ k <= log[n][1].value /\ tree[n][k] # <<>>)
             /\ Stays(n, k)' <=> (tree[n][k] # <<>> /\ ~InBatch(n, k, i))
  <2>1. Stays(n, k) <=> InTree(n, k)
    BY <1>2, SplitOnly DEF Stays
  <2>2. InTree(n, k) <=> tree[n][k] # <<>>
    BY <1>1 DEF InTree
  <2>3. /\ Stays(n, k)' <=> InTree(n, k)'
        /\ Sound(log[n], InTree(n, k), k)'
    <3>1. log'[n] = log[n]
      BY <1>1
    <3> QED BY <3>1, <1>2 DEF Stays, There, About, Sound
  <2>4. InTree(n, k)' <=> (tree[n][k] # <<>> /\ ~InBatch(n, k, i))
    <3>1. (i - 1) + 1 = i
      BY <1>3
    <3>2. InBatch(n, k, i) <=> \E j \in DOMAIN b : j < i /\ b[j][1] = k
      BY DEF InBatch
    <3>0. tree'[n] = tree[n]
      BY <1>1
    <3> HIDE DEF b, i
    <3>3. InTree(n, k)' <=> (tree'[n][k] # <<>> /\ ~ \E j \in DOMAIN b : j < i /\ b[j][1] = k)
      BY <3>1, <1>6 DEF InTree, InBatch
    <3> QED BY <3>0, <3>2, <3>3
  <2>5. OneEach(n, k)
    BY DEF Trees
  <2>6. OneEach(n, k)'
    BY <2>3, <2>5, <1>1 DEF OneEach
  <2>7. InBatch(n, k, i) <=> (log[n][1].key <= k /\ k <= log[n][1].value /\ tree[n][k] # <<>>)
    BY <1>1, <1>4, <1>5 DEF Batch
  <2> QED BY <2>1, <2>2, <2>3, <2>4, <2>6, <2>7
<1>9. Batch(n)'
  <2>1. i - 1 <= Len(b)
    BY <1>3, <1>5
  <2> HIDE DEF b, i
  <2> QED BY <2>1, <1>6 DEF Batch
<1>10. Trees' /\ \A m \in Nodes, k \in Tracked : m # n => (Stays(m, k)' <=> Stays(m, k))
  <2>1. \A m \in Nodes : m # n => log'[m] = log[m] /\ tree'[m] = tree[m] /\ worker'[m] = worker[m]
    BY <1>1, <1>6
  <2>2. \A k \in Tracked : OneEach(n, k)'
    BY <1>8
  <2> QED BY <2>1, <2>2, <1>2, <1>7, <1>9, OneNode
<1> QED BY <1>1, <1>6, <1>8, <1>10

(* The worker deletes the last entry of the batch that is left.            *)
LEMMA PruneEntryKeepsTrees ==
  ASSUME State, Producers, Trees, NEW n \in Nodes, PruneEntry(n)
  PROVE  /\ Trees' /\ \A m \in Nodes, k \in Tracked : Stays(m, k)' <=> Stays(m, k)
         /\ worker[n].at = "prune" /\ worker'[n].at = "prune"
         /\ \A m \in Nodes : m # n => worker'[m] = worker[m]
<1> DEFINE b == worker[n].batch
           i == worker[n].i
           q == b[i][1]
<1>1. /\ worker[n].at = "prune" /\ i > 0
      /\ tree' = [tree EXCEPT ![n] = BtreeDelete(@, q)]
      /\ worker' = [worker EXCEPT ![n].i = @ - 1]
      /\ UNCHANGED <<log, split_, shape, client, acked, astray, broken, ops>>
  BY DEF PruneEntry
<1>2. log[n] # <<>> /\ n \in created /\ n \notin cold /\ cold \subseteq Nodes
  <2>1. log[n] # <<>>
    BY <1>1 DEF Producers, InSplit
  <2> QED BY <2>1, Works
<1>3. /\ worker \in [Nodes -> WorkerType] /\ tree \in [Nodes -> Contents] /\ tree[n] \in Contents
      /\ b \in Seq(Keys \X Nat) /\ i \in Nat \ {0} /\ worker[n] \in WorkerType
  <2>1. worker \in [Nodes -> WorkerType] /\ tree \in [Nodes -> Contents]
    BY Typed DEF State
  <2>2. worker[n] \in WorkerType /\ tree[n] \in Contents
    BY <2>1
  <2>3. b \in Seq(Keys \X Nat) /\ i \in Nat
    BY <2>2 DEF WorkerType
  <2> QED BY <2>1, <2>2, <2>3, <1>1
<1>4. i <= Len(b)
  BY <1>1 DEF Trees, Batch
<1>5. i \in DOMAIN b /\ q \in Keys
  <2>1. i \in DOMAIN b
    BY <1>3, <1>4
  <2>2. b[i] \in Keys \X Nat
    BY <2>1, <1>3
  <2> QED BY <2>1, <2>2
<1> HIDE DEF q
<1>6. /\ worker'[n].at = "prune" /\ worker'[n].batch = b /\ worker'[n].i = i - 1
      /\ tree'[n] = BtreeDelete(tree[n], q) /\ log' = log
      /\ \A m \in Nodes : m # n => worker'[m] = worker[m] /\ tree'[m] = tree[m]
  <2> HIDE DEF b, i
  <2> QED BY <1>1, <1>3 DEF b, i, WorkerType
<1>7. UNCHANGED <<astray, created, cold>>
  BY <1>1 DEF shape
<1>8. ASSUME NEW k \in Tracked
      PROVE  OneEach(n, k)' /\ (Stays(n, k)' <=> Stays(n, k))
  <2>1. /\ OneEach(n, k) /\ k \in Keys
    BY DEF Trees, Tracked
  <2>2. tree[n][k] \in {<<>>, <<1>>} /\ Tail(<<1>>) = <<>>
    BY <2>1 DEF OneEach
  <2>3. tree'[n][k] = IF k # q \/ tree[n][k] = <<>> THEN tree[n][k] ELSE <<>>
    <3>1. tree'[n] = [tree[n] EXCEPT ![q] = IF @ = <<>> THEN @ ELSE Tail(@)]
      BY <1>6 DEF BtreeDelete
    <3>2. tree[n] \in [Keys -> Seq(Nat)]
      BY <1>3 DEF Contents
    <3>3. k # q => tree'[n][k] = tree[n][k]
      BY <3>1, <3>2, <2>1
    <3>4. k = q => tree'[n][k] = IF tree[n][k] = <<>> THEN <<>> ELSE Tail(tree[n][k])
      BY <3>1, <3>2, <2>1
    <3> QED BY <3>3, <3>4, <2>2
  <2>4. (i - 1) + 1 = i /\ \A j \in DOMAIN b : j < i + 1 <=> j = i \/ j < i
    <3>1. i \in Nat /\ \A j \in DOMAIN b : j \in Int
      BY <1>3
    <3> HIDE DEF b, i
    <3> QED BY <3>1
  <2>5. InTree(n, k) <=> (tree[n][k] # <<>> /\ ~ \E j \in DOMAIN b : j < i + 1 /\ b[j][1] = k)
    <3> HIDE DEF b, i
    <3> QED BY <1>1 DEF InTree, InBatch, b, i
  <2>6. InTree(n, k)' <=> (tree'[n][k] # <<>> /\ ~ \E j \in DOMAIN b : j < i /\ b[j][1] = k)
    <3> HIDE DEF b, i
    <3> QED BY <1>6, <2>4 DEF InTree, InBatch
  <2>7. InTree(n, k)' <=> InTree(n, k)
    <3>1. b[i][1] = q
      BY DEF q
    <3> HIDE DEF b, i
    <3> QED BY <3>1, <2>3, <2>4, <2>5, <2>6, <1>5
  <2>8. OneEach(n, k)' <=> (tree'[n][k] \in {<<>>, <<1>>} /\ Sound(log[n], InTree(n, k), k))
    BY <2>7, <1>6 DEF OneEach, Sound, There, About
  <2>9. Stays(n, k)' <=> Stays(n, k)
    BY <2>7, <1>6 DEF Stays, There, About
  <2> QED BY <2>1, <2>2, <2>3, <2>8, <2>9 DEF OneEach
<1>9. Batch(n)'
  <2>1. i - 1 <= Len(b)
    BY <1>3, <1>4
  <2> HIDE DEF b, i
  <2> QED BY <2>1, <1>6 DEF Batch
<1>10. Trees' /\ \A m \in Nodes, k \in Tracked : m # n => (Stays(m, k)' <=> Stays(m, k))
  <2>1. \A m \in Nodes : m # n => log'[m] = log[m] /\ tree'[m] = tree[m] /\ worker'[m] = worker[m]
    BY <1>6
  <2>2. \A k \in Tracked : OneEach(n, k)'
    BY <1>8
  <2>3. n \in cold => log'[n] = <<>>
    BY <1>2
  <2> QED BY <2>1, <2>2, <2>3, <1>2, <1>7, <1>9, OneNode
<1> QED BY <1>1, <1>6, <1>8, <1>10

(* The worker gives up the split entry.                                    *)
LEMMA EndSplitKeepsTrees ==
  ASSUME State, Producers, Trees, NEW n \in Nodes, EndSplit(n)
  PROVE  /\ Trees' /\ \A m \in Nodes, k \in Tracked : Stays(m, k)' <=> Stays(m, k)
         /\ log'[n] = Tail(log[n]) /\ worker[n].at = "prune" /\ worker'[n].at = "idle"
         /\ log[n] \in Seq(Entries)
         /\ \A m \in Nodes : m # n => log'[m] = log[m] /\ worker'[m] = worker[m]
<1> DEFINE l == log[n]
<1>1. /\ worker[n].at = "prune" /\ worker[n].i = 0 /\ log' = [log EXCEPT ![n] = Tail(@)]
      /\ worker' = [worker EXCEPT ![n] = Resting]
      /\ UNCHANGED <<tree, split_, shape, client, acked, astray, broken, ops>>
  BY DEF EndSplit
<1>2. l # <<>> /\ l[1].type = "split" /\ n \in created /\ n \notin cold /\ cold \subseteq Nodes /\ l \in Seq(Entries)
  <2>1. l # <<>> /\ l[1].type = "split"
    BY <1>1 DEF Producers, InSplit
  <2> QED BY <2>1, Works
<1>3. /\ worker \in [Nodes -> WorkerType] /\ log \in [Nodes -> Seq(Entries)]
      /\ worker[n].batch \in Seq(Keys \X Nat)
  <2>1. worker \in [Nodes -> WorkerType] /\ log \in [Nodes -> Seq(Entries)]
    BY Typed DEF State
  <2> QED BY <2>1 DEF WorkerType
<1>4. /\ log'[n] = Tail(l) /\ worker'[n] = Resting /\ tree' = tree
      /\ \A m \in Nodes : m # n => worker'[m] = worker[m] /\ log'[m] = log[m]
  BY <1>1, <1>3
<1>5. UNCHANGED <<astray, created, cold>>
  BY <1>1 DEF shape
<1>6. ASSUME NEW k \in Tracked
      PROVE  OneEach(n, k)' /\ (Stays(n, k)' <=> Stays(n, k))
  <2> DEFINE now == InTree(n, k)
  <2>1. tree[n][k] \in {<<>>, <<1>>} /\ Sound(l, now, k)
    BY DEF Trees, OneEach
  <2>2. \A j \in DOMAIN worker[n].batch : ~(j < 0 + 1)
    BY <1>3
  <2>3. now <=> tree[n][k] # <<>>
    BY <2>2, <1>1 DEF InTree, InBatch
  <2>4. InTree(n, k)' <=> tree[n][k] # <<>>
    BY <1>4 DEF InTree, Resting
  <2>5. now <=> IF About(l, k, 1) THEN l[1].type = "insert" ELSE now
    BY <1>2 DEF About
  <2>6. Stays(n, k) <=> There(l, now, k, Len(l) + 1)
    BY DEF Stays
  <2>7. Stays(n, k)' <=> There(Tail(l), now, k, Len(Tail(l)) + 1)
    BY <2>3, <2>4, <1>4 DEF Stays, There, About
  <2>8. Sound(log[n], InTree(n, k), k)' <=> Sound(Tail(l), now, k)
    BY <2>3, <2>4, <1>4, SMTT(40) DEF Sound, There, About
  <2> HIDE DEF now, l
  <2>9. /\ There(Tail(l), now, k, Len(Tail(l)) + 1) <=> There(l, now, k, Len(l) + 1)
        /\ Sound(Tail(l), now, k)
    BY <2>1, <2>5, <1>2, TailLog
  <2> QED BY <2>1, <2>6, <2>7, <2>8, <2>9, <1>4 DEF OneEach
<1>7. Batch(n)'
  BY <1>4 DEF Batch, Resting
<1>8. Trees' /\ \A m \in Nodes, k \in Tracked : m # n => (Stays(m, k)' <=> Stays(m, k))
  <2>1. \A m \in Nodes : m # n => log'[m] = log[m] /\ tree'[m] = tree[m] /\ worker'[m] = worker[m]
    BY <1>4
  <2>2. \A k \in Tracked : OneEach(n, k)'
    BY <1>6
  <2>3. n \in cold => log'[n] = <<>>
    BY <1>2
  <2> QED BY <2>1, <2>2, <2>3, <1>2, <1>5, <1>7, OneNode
<1> QED BY <1>1, <1>2, <1>4, <1>6, <1>8 DEF Resting

-----------------------------------------------------------------------------
(* The worker keeps the copies.                                            *)

(* What does not depend on the logs and trees.                             *)
LEMMA SameCalls ==
  ASSUME PieceKeys, Answers, HotData, HotCall, astray \subseteq astray',
         UNCHANGED <<leaves, client, acked, cold>>
  PROVE  /\ PieceKeys' /\ Answers' /\ HotData' /\ HotCall' /\ Tracked' \subseteq Tracked
         /\ \A k : (Now(k)' <=> Now(k)) /\ LeafOf(k)' = LeafOf(k) /\ InnerOf(k)' = InnerOf(k)
         /\ Splitting' <=> Splitting
<1>1. /\ Tracked' \subseteq Tracked /\ (Splitting' <=> Splitting) /\ (Logged' <=> Logged)
      /\ \A k : (Now(k)' <=> Now(k)) /\ LeafOf(k)' = LeafOf(k) /\ InnerOf(k)' = InnerOf(k)
  BY DEF Tracked, Splitting, Logged, Now, LeafOf, InnerOf
<1>2. PieceKeys'
  BY <1>1 DEF PieceKeys, Between, Present
<1>3. Answers'
  BY DEF Answers
<1>4. HotData'
  BY <1>1 DEF HotData
<1>5. HotCall'
  BY <1>1 DEF HotCall
<1> QED BY <1>1, <1>2, <1>3, <1>4, <1>5

(* A node that is the inner node of a leaf, or is about to be, is not the  *)
(* new node of a split whose latch is not set.                             *)
LEMMA OwnerNodes ==
  ASSUME State, Shape
  PROVE  /\ \A m : Owner(m) => m \in Nodes /\ m \in created
         /\ client.at = "wait" /\ ~Moved => ~Owner(client.leaf)
         /\ Splitting => /\ client.todo # <<>> /\ Head(client.todo) = client.todo[1] /\ 1 \in DOMAIN client.todo
                         /\ client.todo[1] \in DOMAIN leaves /\ leaves[client.todo[1]].inner = client.old
         /\ client.at = "wait" => client.leaf \in Nodes /\ client.old \in Nodes /\ client.leaf # client.old
<1>1. created \subseteq Nodes /\ client \in ClientType
  BY DEF State, TypeOK
<1>2. client.at = "wait" => client.leaf \in created
  BY DEF State, Waiting
<1>3. \A x \in DOMAIN leaves : leaves[x].inner \in created
  BY DEF State, Inners
<1>4. \A m : Owner(m) => m \in Nodes /\ m \in created
  BY <1>1, <1>2, <1>3 DEF Owner, Moved
<1>5. client.at = "wait" /\ ~Moved => ~Owner(client.leaf)
  BY DEF Owner, Shape, NextInChain
<1>6. ASSUME Splitting
      PROVE  /\ client.todo # <<>> /\ Head(client.todo) = client.todo[1] /\ 1 \in DOMAIN client.todo
             /\ client.todo[1] \in DOMAIN leaves /\ leaves[client.todo[1]].inner = client.old
  <2> DEFINE s == client.todo
  <2>1. s # <<>> /\ s \in Seq(Nat)
    BY <1>1, <1>6 DEF State, ToSplit, ClientType
  <2>2. Head(s) = s[1] /\ 1 \in DOMAIN s /\ Len(s) \in Nat \ {0} /\ s[1] \in Nat
    BY <2>1, TailIs
  <2>3. s[1] \in DOMAIN leaves
    BY <1>6, <2>2 DEF State, ToSplit
  <2>4. \A x \in DOMAIN leaves : leaves[x].inner = client.old <=>
               x <= s[1] /\ (IF client.then = "leaf" THEN s[1] + 1 - Len(s) ELSE s[1] + 1 - Len(s) - 1) <= x
    BY <1>6, <2>2 DEF Shape, Pieces
  <2>5. s[1] <= s[1] /\ s[1] + 1 - Len(s) <= s[1] /\ s[1] + 1 - Len(s) - 1 <= s[1]
    BY <2>2
  <2> QED BY <2>1, <2>2, <2>3, <2>4, <2>5
<1>7. client.at = "wait" => client.leaf \in Nodes /\ client.old \in Nodes /\ client.leaf # client.old
  BY <1>1, <1>2 DEF State, Waiting, ClientType
<1> QED BY <1>4, <1>5, <1>6, <1>7

(* Of the keys of the old node, those of the piece that is split off are   *)
(* within what the split entry says.                                       *)
LEMMA PieceRange ==
  ASSUME State, Shape, PieceKeys, HotData, HotCall, Splitting, NEW k \in Tracked, InnerOf(k) = client.old, Now(k)
  PROVE  Between(Present(leaves[client.todo[1]].data), k) <=> LeafOf(k) = client.todo[1]
<1> DEFINE t == client.todo[1]
           i == LeafOf(k)
<1>1. k \in Keys /\ k \in Nat
  BY KeysAssumption DEF Tracked
<1>2. /\ i \in DOMAIN leaves /\ \A j \in i + 1 .. Len(leaves) : k < leaves[j].from
      /\ DOMAIN leaves = 1 .. Len(leaves) /\ Len(leaves) \in Nat
      /\ \A x \in DOMAIN leaves : leaves[x].from \in Nat /\ leaves[x].data \in Contents
  <2>1. TypeOK /\ Sorted
    BY DEF State
  <2> QED BY <2>1, <1>1, LeafOfIs, LeafTypes
<1>3. t \in DOMAIN leaves /\ 1 \in DOMAIN client.todo /\ client.todo # <<>> /\ Head(client.todo) = t
  BY OwnerNodes
<1>4. leaves[i].inner = client.old
  BY DEF InnerOf
<1> HIDE DEF t, i
<1>5. i <= t
  <2>1. \A x \in DOMAIN leaves : leaves[x].inner = client.old => x <= Head(client.todo)
    BY DEF Shape, Pieces
  <2> QED BY <2>1, <1>2, <1>3, <1>4
<1>6. ASSUME i = t PROVE Between(Present(leaves[t].data), k)
  <2>1. CASE Logged /\ client.key = k
    <3>1. client.then = "leaf"
      BY <2>1 DEF Logged, Splitting
    <3>2. Between(Present(leaves[LeafOf(k)].data), k)
      BY <3>1, <2>1 DEF PieceKeys
    <3> QED BY <3>2, <1>6 DEF i
  <2>2. CASE ~(Logged /\ client.key = k)
    <3>1. acked[k] # <<>>
      BY <2>2 DEF Now
    <3>2. leaves[t].data[k] = acked[k]
      BY <1>2, <1>3, <1>4, <1>6 DEF HotData, HotCall, i
    <3>3. k \in Present(leaves[t].data)
      BY <3>1, <3>2, <1>1 DEF Present
    <3>4. k <= k
      BY <1>1
    <3> QED BY <3>3, <3>4 DEF Between
  <2> QED BY <2>1, <2>2
<1>7. ASSUME i # t, Between(Present(leaves[t].data), k) PROVE FALSE
  <2>1. PICK x \in Present(leaves[t].data) : x <= k
    BY <1>7 DEF Between
  <2>2. leaves[t].from <= x
    BY <1>3 DEF PieceKeys, t
  <2>3. x \in Nat
    BY KeysAssumption DEF Present
  <2>4. t \in i + 1 .. Len(leaves)
    BY <1>2, <1>3, <1>5, <1>7
  <2>5. k < leaves[t].from
    BY <2>4, <1>2
  <2> QED BY <2>1, <2>2, <2>3, <2>5, <1>1, <1>2, <1>3
<1> QED BY <1>6, <1>7 DEF t, i

(* No key that is not astray is above the range of a split.                *)
LEMMA NoneAbove ==
  ASSUME State, Producers, Shape, Copies, NEW n \in Nodes, BeginSplit(n),
         NEW e, e = Head(log[n]), NEW k \in Keys, e.key <= k, k <= e.value,
         NEW q \in Tracked, tree[n][q] # <<>>
  PROVE  q <= e.value
<1>1. log[n] # <<>> /\ worker[n].at = "idle" /\ e.type = "split"
  BY DEF BeginSplit
<1>2. log[n] \in Seq(Entries) /\ Head(log[n]) = log[n][1] /\ 1 \in DOMAIN log[n] /\ n \in created
      /\ log[n][1] \in Entries
  BY <1>1, Works DEF Copies
<1>3. client.at = "wait" /\ client.old = n /\ 1 = Len(log[n]) /\ ~split_[n]
  BY <1>1, <1>2 DEF Producers, SplitEntries
<1>4. DOMAIN log[n] = {1}
  BY <1>2, <1>3
<1>5. Stays(n, q)
  <2>1. InTree(n, q)
    BY <1>1 DEF InTree
  <2>2. There(log[n], InTree(n, q), q, Len(log[n]) + 1) <=> InTree(n, q)
    <3>1. log[n][1].type = "split"
      BY <1>1, <1>2
    <3> QED BY <3>1, <1>4 DEF There, About
  <2> QED BY <2>1, <2>2 DEF Stays
<1>6. /\ Head(client.todo) = client.todo[1] /\ client.todo[1] \in DOMAIN leaves /\ 1 \in DOMAIN client.todo
      /\ leaves[client.todo[1]].inner = n /\ Splitting
  BY <1>3, OwnerNodes DEF Splitting
<1>7. Owner(n)
  BY <1>6 DEF Owner
<1>8. InnerOf(q) = n /\ Now(q)
  <2>1. At(q) = n /\ Now(q)
    BY <1>5, <1>7 DEF Copies, Placed
  <2> QED BY <2>1, <1>3 DEF At, Moved
<1> DEFINE t == client.todo[1]
           S == Present(leaves[t].data)
           x == LeafOf(q)
<1>9. Between(S, q) <=> x = t
  BY <1>3, <1>6, <1>8, PieceRange DEF Copies
<1>10. \A y \in Keys : Between(S, y) <=> e.key <= y /\ y <= e.value
  BY <1>2, <1>3, <1>6 DEF Copies, Pending
<1>11. q \in Keys /\ q \in Int /\ e.value \in Int /\ k \in Int
  <2>1. q \in Keys
    BY DEF Tracked
  <2>2. e \in Entries /\ e.type = "split"
    BY <1>1, <1>2
  <2>3. e.value \in Nat
    BY <2>2, KeysAssumption DEF Entries
  <2> QED BY <2>1, <2>3, KeysAssumption
<1>12. CASE x = t
  BY <1>9, <1>10, <1>11, <1>12
<1>13. CASE x # t
  <2>1. /\ x \in DOMAIN leaves /\ \A y \in x + 1 .. Len(leaves) : q < leaves[y].from
        /\ DOMAIN leaves = 1 .. Len(leaves) /\ Len(leaves) \in Nat
        /\ \A y \in DOMAIN leaves : leaves[y].from \in Nat
    <3>1. TypeOK /\ Sorted /\ q \in Nat
      BY <1>11, KeysAssumption DEF State
    <3> QED BY <3>1, <1>11, LeafOfIs, LeafTypes
  <2>2. leaves[x].inner = n
    BY <1>8 DEF InnerOf
  <2> HIDE DEF x
  <2>3. x <= t
    <3>1. \A y \in DOMAIN leaves : leaves[y].inner = client.old => y <= Head(client.todo)
      BY <1>6 DEF Shape, Pieces
    <3> QED BY <3>1, <2>1, <2>2, <1>3, <1>6
  <2>4. t \in x + 1 .. Len(leaves)
    BY <1>6, <1>13, <2>1, <2>3
  <2>5. q < leaves[t].from
    BY <2>1, <2>4
  <2>6. PICK y \in S : y <= k
    BY <1>10 DEF Between
  <2>7. leaves[t].from <= y
    BY <1>6 DEF Copies, PieceKeys
  <2>8. y \in Int /\ leaves[t].from \in Int
    BY <1>6, <2>1, KeysAssumption DEF Present
  <2> HIDE DEF t, S
  <2> QED BY <2>5, <2>6, <2>7, <2>8, <1>11
<1> QED BY <1>12, <1>13

(* The worker reads the entries of the range: a page scanned from right to *)
(* left without a key above the range gives them all, and with one the     *)
(* keys of the range are no longer tracked.                                *)
LEMMA BeginSplitKeepsTrees ==
  ASSUME State, Producers, Shape, Copies, NEW n \in Nodes, BeginSplit(n)
  PROVE  Trees' /\ \A m \in Nodes, k \in Tracked : Stays(m, k)' <=> Stays(m, k)
<1> DEFINE e == log[n][1]
           t == tree[n]
           S == {k \in Present(t) : e.key <= k /\ k <= e.value}
<1>0. Trees
  BY DEF Copies
<1>a. log[n] # <<>> /\ worker[n].at = "idle" /\ Head(log[n]) = e
  BY <1>0, Works DEF BeginSplit
<1>b. PICK b \in Seq(Keys \X Nat) :
        /\ worker' = [worker EXCEPT ![n] = [at |-> "move", batch |-> b, i |-> 1]]
        /\ Gives(b, t, e.key, e.value)
        /\ \A k \in Keys : /\ e.key <= k /\ k <= e.value
                           /\ pages[n] = "forward" \/ \A q \in Present(t) : q <= e.value
                           => Meets(b, t, k)
  BY <1>a, BatchOf DEF State
<1>1. /\ log[n] # <<>> /\ worker[n].at = "idle" /\ e.type = "split"
      /\ worker' = [worker EXCEPT ![n] = [at |-> "move", batch |-> b, i |-> 1]]
      /\ UNCHANGED <<tree, log, split_, shape, client, acked, broken, ops>>
      /\ astray' = astray \cup Stranded(n)
  <2>1. UNCHANGED <<tree, log, split_, shape, client, acked, broken, ops>>
        /\ astray' = astray \cup Stranded(n) /\ Head(log[n]).type = "split"
    BY DEF BeginSplit
  <2> HIDE DEF e
  <2> QED BY <2>1, <1>a, <1>b
<1>2. n \in created /\ n \notin cold /\ cold \subseteq Nodes
  BY <1>0, <1>1, Works
<1>3. t \in Contents /\ worker \in [Nodes -> WorkerType] /\ S \in SUBSET Keys
  BY Typed DEF State, Present
<1>4. /\ worker'[n].at = "move" /\ worker'[n].batch = b /\ worker'[n].i = 1
      /\ log'[n] = log[n] /\ tree'[n] = t /\ log'[n][1] = e
      /\ \A m \in Nodes : m # n => log'[m] = log[m] /\ tree'[m] = tree[m] /\ worker'[m] = worker[m]
  <2> HIDE DEF S
  <2> QED BY <1>1, <1>3
<1>5. /\ b \in Seq(Keys \X Nat)
      /\ \A i \in DOMAIN b : \E k \in S : \E j \in DOMAIN t[k] : b[i] = <<k, t[k][j]>>
      /\ \A k \in S : k \in Tracked' => \A j \in DOMAIN t[k] : \E i \in DOMAIN b : b[i] = <<k, t[k][j]>>
      /\ \A k \in Keys : Len(t[k]) <= 1 => \A i, j \in DOMAIN b : b[i][1] = k /\ b[j][1] = k => i = j
  <2>1. ASSUME NEW i \in DOMAIN b PROVE \E k \in S : \E j \in DOMAIN t[k] : b[i] = <<k, t[k][j]>>
    <3>1. PICK k \in Keys : \E j \in DOMAIN t[k] : e.key <= k /\ k <= e.value /\ b[i] = <<k, t[k][j]>>
      BY <1>b, <2>1 DEF Gives
    <3>2. PICK j \in DOMAIN t[k] : e.key <= k /\ k <= e.value /\ b[i] = <<k, t[k][j]>>
      BY <3>1
    <3>3. t[k] # <<>>
      <4>1. t[k] \in Seq(Nat)
        BY <1>3 DEF Contents
      <4> QED BY <4>1, <3>2
    <3>4. k \in S
      BY <3>2, <3>3 DEF Present
    <3> HIDE DEF S, t, e
    <3> QED BY <3>2, <3>4
  <2>2. ASSUME NEW k \in S, k \in Tracked'
        PROVE  \A j \in DOMAIN t[k] : \E i \in DOMAIN b : b[i] = <<k, t[k][j]>>
    <3>1. k \in Keys /\ k \in Present(t) /\ e.key <= k /\ k <= e.value
      BY <1>3
    <3>2. k \notin Stranded(n)
      BY <1>1, <2>2 DEF Tracked
    <3>3. pages[n] = "forward" \/ ~ \E q \in Present(t) : q \in astray /\ q > e.value
      BY <3>1, <3>2, <1>a DEF Stranded
    <3>4. ASSUME NEW q \in Present(t), q \notin astray PROVE q <= e.value
      <4>1. q \in Tracked /\ tree[n][q] # <<>>
        BY <3>4 DEF Tracked, Present
      <4> HIDE DEF e
      <4> QED BY <4>1, <3>1, <1>a, NoneAbove
    <3>5. \A q \in Present(t) : q > e.value \/ q <= e.value
      <4>1. e.value \in Int
        <5>1. log[n] \in Seq(Entries)
          BY DEF State, TypeOK
        <5>2. e \in Entries /\ e.type = "split"
          BY <5>1, <1>1
        <5> QED BY <5>2, KeysAssumption DEF Entries
      <4>2. \A q \in Present(t) : q \in Int
        BY KeysAssumption DEF Present
      <4> HIDE DEF e
      <4> QED BY <4>1, <4>2
    <3>6. pages[n] = "forward" \/ \A q \in Present(t) : q <= e.value
      BY <3>3, <3>4, <3>5
    <3>7. Meets(b, t, k)
      BY <3>1, <3>6, <1>b
    <3> QED BY <3>7 DEF Meets
  <2> QED BY <1>b, <2>1, <2>2 DEF Gives
<1>6. S = {k \in Keys : t[k] # <<>> /\ e.key <= k /\ k <= e.value}
  BY DEF Present
<1> HIDE DEF e, t, S
<1>7. \A k \in Tracked : k \in Keys /\ t[k] \in {<<>>, <<1>>}
  BY <1>0 DEF Trees, OneEach, Tracked, t
<1>8. \A k : InTree(n, k)' <=> InTree(n, k)
  BY <1>1, <1>4 DEF InTree, t
<1>9. \A k \in Tracked : OneEach(n, k)' /\ (Stays(n, k)' <=> Stays(n, k))
  <2> TAKE k \in Tracked
  <2>1. OneEach(n, k)
    BY <1>0 DEF Trees
  <2> QED BY <2>1, <1>4, <1>8 DEF OneEach, Stays, Sound, There, About, t
<1>10. Batch(n)'
  <2>1. DOMAIN b = 1 .. Len(b) /\ Len(b) \in Nat
    BY <1>5
  <2>2. ASSUME NEW k \in Tracked'
        PROVE  /\ (\E j \in DOMAIN b : j < Len(b) + 1 /\ b[j][1] = k)
                    <=> (e.key <= k /\ k <= e.value /\ t[k] # <<>>)
               /\ \A j \in DOMAIN b : b[j][1] = k => b[j][2] = 1 /\ ~ \E i \in DOMAIN b : i < j /\ b[i][1] = k
    <3>1. k \in Tracked /\ k \in Keys /\ t[k] \in {<<>>, <<1>>}
      BY <1>1, <1>7, <2>2 DEF Tracked
    <3>3. Len(t[k]) <= 1 /\ \A j \in DOMAIN t[k] : t[k][j] = 1
      <4>1. Len(<<>>) <= 1 /\ DOMAIN <<>> = {} /\ Len(<<1>>) <= 1 /\ DOMAIN <<1>> = {1} /\ <<1>>[1] = 1
        OBVIOUS
      <4> QED BY <4>1, <3>1
    <3>4. ASSUME NEW j \in DOMAIN b, b[j][1] = k PROVE k \in S /\ b[j][2] = 1
      <4>1. PICK q \in S : \E x \in DOMAIN t[q] : b[j] = <<q, t[q][x]>>
        BY <1>5
      <4>2. q = k
        BY <4>1, <3>4
      <4> QED BY <4>1, <4>2, <3>3
    <3>5. ASSUME k \in S PROVE \E j \in DOMAIN b : b[j][1] = k
      <4>1. t[k] = <<1>>
        BY <3>1, <3>5, <1>6
      <4>2. 1 \in DOMAIN t[k]
        BY <4>1
      <4>3. PICK j \in DOMAIN b : b[j] = <<k, t[k][1]>>
        BY <4>2, <3>5, <2>2, <1>5
      <4> QED BY <4>3
    <3>6. ASSUME NEW j \in DOMAIN b, b[j][1] = k, NEW i \in DOMAIN b, i < j, b[i][1] = k PROVE FALSE
      <4>1. i = j
        BY <3>1, <3>3, <3>6, <1>5
      <4> QED BY <4>1, <3>6, <2>1
    <3>7. \A j \in DOMAIN b : j < Len(b) + 1
      BY <2>1
    <3>8. k \in S <=> (e.key <= k /\ k <= e.value /\ t[k] # <<>>)
      BY <3>1, <1>6
    <3>9. (\E j \in DOMAIN b : j < Len(b) + 1 /\ b[j][1] = k) <=> k \in S
      BY <3>4, <3>5, <3>7
    <3>10. \A j \in DOMAIN b : b[j][1] = k => b[j][2] = 1 /\ ~ \E i \in DOMAIN b : i < j /\ b[i][1] = k
      BY <3>4, <3>6
    <3> QED BY <3>8, <3>9, <3>10
  <2>3. 1 <= Len(b) + 1
    BY <2>1
  <2>4. worker'[n].at = "move" => \A k \in Tracked' :
          /\ (\E j \in DOMAIN worker'[n].batch : j < Len(worker'[n].batch) + 1 /\ worker'[n].batch[j][1] = k)
               <=> (log'[n][1].key <= k /\ k <= log'[n][1].value /\ tree'[n][k] # <<>>)
          /\ \A j \in DOMAIN worker'[n].batch : worker'[n].batch[j][1] = k =>
               /\ worker'[n].batch[j][2] = 1
               /\ ~ \E i \in DOMAIN worker'[n].batch : i < j /\ worker'[n].batch[i][1] = k
    BY <1>4, <2>2
  <2>5. worker'[n].at = "move" => worker'[n].i <= Len(worker'[n].batch) + 1
    BY <1>4, <2>3
  <2>6. worker'[n].at # "prune"
    BY <1>4
  <2> QED BY <2>4, <2>5, <2>6 DEF Batch, InBatch
<1>11. astray \subseteq astray' /\ UNCHANGED <<created, cold>>
  BY <1>1 DEF shape
<1>12. n \in cold => log'[n] = <<>>
  BY <1>2
<1>13. Trees' /\ \A m \in Nodes, k \in Tracked : m # n => (Stays(m, k)' <=> Stays(m, k))
  BY <1>0, <1>2, <1>4, <1>9, <1>10, <1>11, <1>12, OneNode
<1> QED BY <1>9, <1>13

(* A step of a worker that does not set the latch and writes no other log. *)
LEMMA QuietWorkerKeeps ==
  ASSUME State, Shape, Copies, Trees',
         \A m \in Nodes, k \in Tracked : Stays(m, k)' <=> Stays(m, k),
         astray \subseteq astray', UNCHANGED <<leaves, client, acked, cold, split_>>, Pending'
  PROVE  Copies'
<1>1. /\ PieceKeys' /\ Answers' /\ HotData' /\ HotCall' /\ Tracked' \subseteq Tracked
      /\ \A k : (Now(k)' <=> Now(k)) /\ LeafOf(k)' = LeafOf(k) /\ InnerOf(k)' = InnerOf(k)
  BY SameCalls DEF Copies
<1>2. (Moved' <=> Moved) /\ \A m : Owner(m)' <=> Owner(m)
  BY DEF Moved, Owner
<1>3. \A k : At(k)' = At(k)
  BY <1>1, <1>2 DEF At
<1>4. Placed'
  BY <1>1, <1>2, <1>3 DEF Copies, Placed
<1> QED BY <1>1, <1>4 DEF Copies

(* The split entry stays at the end of its log until the latch is set.     *)
LEMMA PendingKept ==
  ASSUME Pending, \A m \in Nodes, k \in Tracked : Stays(m, k)' <=> Stays(m, k),
         astray \subseteq astray', UNCHANGED <<leaves, client, split_>>,
         NEW o, o = client.old,
         client.at = "wait" /\ ~split_[o] =>
           /\ log'[o] # <<>> /\ log'[o][Len(log'[o])] = log[o][Len(log[o])]
           /\ worker'[o].at = "prune" => Len(log'[o]) > 1
           /\ \A k \in Tracked : Copied(k)' <=> Copied(k)
  PROVE  Pending'
<1>1. Tracked' \subseteq Tracked
  BY DEF Tracked
<1> SUFFICES ASSUME client.at = "wait", ~split_[o]
             PROVE  Pending'
  BY DEF Pending
<1>2. log[o][Len(log[o])].type = "split"
  BY DEF Pending
<1>3. \A k \in Keys : Between(Present(leaves[Head(client.todo)].data), k)
                        <=> log[o][Len(log[o])].key <= k /\ k <= log[o][Len(log[o])].value
  BY DEF Pending
<1>4. \A k \in Tracked, m \in Nodes : m = client.leaf => (Stays(m, k) <=> Copied(k))
  BY DEF Pending
<1>5. \A k \in Keys : Between(Present(leaves[Head(client.todo)].data), k)'
                        <=> log'[o][Len(log'[o])].key <= k /\ k <= log'[o][Len(log'[o])].value
  BY <1>3 DEF Between, Present
<1>6. \A k \in Tracked', m \in Nodes : m = client'.leaf => (Stays(m, k)' <=> Copied(k)')
  BY <1>1, <1>4
<1> QED BY <1>2, <1>5, <1>6 DEF Pending

(* The last of the entries after the first.                                *)
LEMMA LastOfTail ==
  ASSUME NEW T, NEW l \in Seq(T), Len(l) > 1
  PROVE  Tail(l) # <<>> /\ Tail(l)[Len(Tail(l))] = l[Len(l)]
<1>1. Len(Tail(l)) = Len(l) - 1 /\ Len(l) - 1 \in 1 .. Len(l) - 1 /\ (Len(l) - 1) + 1 = Len(l)
  OBVIOUS
<1>2. \A j \in 1 .. Len(l) - 1 : Tail(l)[j] = l[j + 1]
  OBVIOUS
<1>3. Tail(l)[Len(Tail(l))] = l[Len(l)]
  BY <1>1, <1>2
<1>4. Tail(l) # <<>>
  <2>1. Len(Tail(l)) # 0 /\ Len(<<>>) = 0
    BY <1>1
  <2> QED BY <2>1
<1> QED BY <1>3, <1>4

(* A worker that applies an entry, or begins, prunes or ends a split keeps *)
(* the copies: no key moves to another node's tree.                        *)
LEMMA QuietWorker ==
  ASSUME State, Producers, Shape, Copies, NEW n \in Nodes,
         Apply(n) \/ BeginSplit(n) \/ PruneEntry(n) \/ EndSplit(n)
  PROVE  Copies'
<1> DEFINE o == client.old
<1>1. astray \subseteq astray' /\ UNCHANGED <<leaves, client, acked, cold, split_>>
  BY DEF Apply, BeginSplit, PruneEntry, EndSplit, shape
<1>2. Trees' /\ \A m \in Nodes, k \in Tracked : Stays(m, k)' <=> Stays(m, k)
  BY ApplyKeepsTrees, BeginSplitKeepsTrees, PruneEntryKeepsTrees, EndSplitKeepsTrees DEF Copies
<1>3. ASSUME client.at = "wait", ~split_[o]
      PROVE  /\ log'[o] # <<>> /\ log'[o][Len(log'[o])] = log[o][Len(log[o])]
             /\ worker'[o].at = "prune" => Len(log'[o]) > 1
             /\ \A k \in Tracked : Copied(k)' <=> Copied(k)
  <2>1. /\ log[o] # <<>> /\ log[o][Len(log[o])].type = "split" /\ (worker[o].at = "prune" => Len(log[o]) > 1)
        /\ o \in Nodes
    BY <1>3, OwnerNodes DEF Copies, Pending
  <2>2. o' = o
    BY <1>1
  <2> HIDE DEF o
  <2>0. o = client.old
    BY DEF o
  <2>3. log[o] \in Seq(Entries) /\ Len(log[o]) \in Nat \ {0}
    <3>1. log[o] \in Seq(Entries)
      BY <2>1 DEF State, TypeOK
    <3> QED BY <3>1, <2>1
  <2>4. \A k : (Copied(k) <=> worker[o].at = "move" /\ \E j \in DOMAIN worker[o].batch :
                                 j < worker[o].i /\ worker[o].batch[j][1] = k)
               /\ (Copied(k)' <=> worker'[o].at = "move" /\ \E j \in DOMAIN worker'[o].batch :
                                 j < worker'[o].i /\ worker'[o].batch[j][1] = k)
    BY <2>0, <2>2, <1>1 DEF Copied
  <2>5. CASE log'[o] = log[o] /\ worker'[o] = worker[o]
    BY <2>1, <2>4, <2>5
  <2>6. CASE Apply(n)
    <3>1. log[n] # <<>> /\ Head(log[n]).type # "split" /\ worker' = worker
      BY <2>6 DEF Apply
    <3>2. log' = [log EXCEPT ![n] = Tail(@)]
      BY <2>6 DEF Apply
    <3>3. CASE n = o
      <4>1. Head(log[o]) = log[o][1]
        BY <2>3, <2>1, TailIs
      <4>2. Len(log[o]) # 1 /\ log[o][1].type # "split"
        BY <4>1, <3>1, <3>3, <2>1
      <4>3. Len(log[o]) > 1
        <5>1. \A c \in Nat \ {0} : c # 1 => c > 1
          OBVIOUS
        <5> QED BY <5>1, <4>2, <2>3
      <4>4. log'[o] = Tail(log[o])
        BY <3>2, <3>3, <2>1 DEF State, TypeOK
      <4>5. log'[o] # <<>> /\ log'[o][Len(log'[o])] = log[o][Len(log[o])]
        BY <4>3, <4>4, <2>3, LastOfTail
      <4>6. worker[o].at = "idle"
        BY <4>2, <2>1 DEF Producers, InSplit, State, TypeOK, WorkerType
      <4> QED BY <4>5, <4>6, <3>1, <2>4
    <3>4. CASE n # o
      <4>1. log'[o] = log[o]
        BY <3>2, <3>4, <2>1 DEF State, TypeOK
      <4> QED BY <4>1, <3>1, <2>5
    <3> QED BY <3>3, <3>4
  <2>7. CASE BeginSplit(n)
    <3>1. log' = log /\ worker[n].at = "idle"
      BY <2>7 DEF BeginSplit
    <3>2. CASE n = o
      <4>1. worker \in [Nodes -> WorkerType]
        BY DEF State, TypeOK
      <4>2. PICK b \in Seq(Keys \X Nat) : worker'[o] = [at |-> "move", batch |-> b, i |-> 1]
        <5>1. PICK b \in Seq(Keys \X Nat) :
                worker' = [worker EXCEPT ![n] = [at |-> "move", batch |-> b, i |-> 1]]
          BY <2>7, BatchOf DEF State
        <5> QED BY <5>1, <3>2, <4>1, <2>1
      <4>3. worker'[o].at = "move" /\ worker'[o].i = 1 /\ \A j \in DOMAIN worker'[o].batch : ~(j < worker'[o].i)
        <5>1. worker'[o] \in WorkerType
          <6>0. WorkerStep(n) /\ InSplit
            BY <2>7 DEF WorkerStep, Producers
          <6>1. TypeOK'
            BY <6>0, WorkerKeepsState DEF State
          <6> QED BY <6>1, <2>1, <2>2 DEF TypeOK
        <5>2. worker'[o].batch \in Seq(Keys \X Nat)
          BY <5>1 DEF WorkerType
        <5>3. worker'[o].at = "move" /\ worker'[o].i = 1
          BY <4>2
        <5> HIDE DEF o
        <5> QED BY <5>2, <5>3
      <4> QED BY <4>3, <3>1, <3>2, <2>1, <2>4
    <3>3. CASE n # o
      <4>1. worker'[o] = worker[o]
        BY <2>7, <3>3, <2>1 DEF BeginSplit, State, TypeOK
      <4> QED BY <4>1, <3>1, <2>5
    <3> QED BY <3>2, <3>3
  <2>8. CASE PruneEntry(n)
    <3>1. log' = log /\ worker[n].at = "prune" /\ worker'[n].at = "prune"
           /\ \A m \in Nodes : m # n => worker'[m] = worker[m]
      BY <2>8, PruneEntryKeepsTrees DEF PruneEntry, Copies
    <3>2. CASE n = o
      BY <3>1, <3>2, <2>1, <2>4
    <3>3. CASE n # o
      BY <3>1, <3>3, <2>1, <2>5
    <3> QED BY <3>2, <3>3
  <2>9. CASE EndSplit(n)
    <3>1. /\ log'[n] = Tail(log[n]) /\ worker[n].at = "prune" /\ worker'[n].at = "idle"
          /\ \A m \in Nodes : m # n => log'[m] = log[m] /\ worker'[m] = worker[m]
      BY <2>9, EndSplitKeepsTrees DEF Copies
    <3>2. CASE n = o
      <4>1. Len(log[o]) > 1
        BY <3>1, <3>2, <2>1
      <4>2. log'[o] # <<>> /\ log'[o][Len(log'[o])] = log[o][Len(log[o])]
        BY <4>1, <3>1, <3>2, <2>3, LastOfTail
      <4> QED BY <4>2, <3>1, <3>2, <2>4
    <3>3. CASE n # o
      BY <3>1, <3>3, <2>1, <2>5
    <3> QED BY <3>2, <3>3
  <2> QED BY <2>6, <2>7, <2>8, <2>9
<1>4. Pending'
  BY <1>1, <1>2, <1>3, PendingKept DEF Copies
<1> QED BY <1>1, <1>2, <1>4, QuietWorkerKeeps

(* A worker that moves an entry of its batch puts it into the new node's   *)
(* tree, which no leaf has yet.                                            *)
LEMMA MoveEntryKeepsCopies ==
  ASSUME State, Producers, Shape, Copies, NEW n \in Nodes, MoveEntry(n)
  PROVE  Copies'
<1>1. UNCHANGED <<leaves, client, acked, astray, cold, split_>>
  BY DEF MoveEntry, shape
<1>2. PICK i : i = worker[n].i
  OBVIOUS
<1>3. PICK to : to = client.leaf
  OBVIOUS
<1>4. /\ Trees' /\ worker'[n].at = "move" /\ worker'[n].i = i + 1 /\ worker[n].at = "move" /\ to # n
      /\ worker'[n].batch = worker[n].batch /\ log'[n] = log[n] /\ client.old = n /\ ~Moved
      /\ \A m \in Nodes, k \in Tracked : m # to => (Stays(m, k)' <=> Stays(m, k))
      /\ \A k \in Tracked : Stays(to, k)' <=> InBatch(n, k, i + 1)
  BY <1>2, <1>3, MoveEntryKeepsTrees DEF Copies
<1>5. client.at = "wait" /\ ~split_[n] /\ to \in Nodes
  BY <1>3, <1>4, Moves DEF Copies
<1>6. /\ PieceKeys' /\ Answers' /\ HotData' /\ HotCall' /\ Tracked' = Tracked
      /\ \A k : (Now(k)' <=> Now(k)) /\ LeafOf(k)' = LeafOf(k) /\ InnerOf(k)' = InnerOf(k)
  <2>1. astray \subseteq astray' /\ Tracked' = Tracked
    BY <1>1 DEF Tracked
  <2> QED BY <1>1, <2>1, SameCalls DEF Copies
<1>7. ~Moved' /\ \A m : Owner(m)' <=> Owner(m)
  BY <1>1, <1>4 DEF Moved, Owner
<1>8. \A k : At(k)' = At(k)
  BY <1>4, <1>6, <1>7 DEF At
<1>9. Placed'
  <2>1. \A m : Owner(m) => m \in Nodes /\ m # to
    BY <1>3, <1>4, <1>5, OwnerNodes
  <2>2. \A k \in Tracked, m \in Nodes : Owner(m) => (Stays(m, k) <=> At(k) = m /\ Now(k))
    BY DEF Copies, Placed
  <2>3. \A k \in Tracked', m \in Nodes : Owner(m)' => (Stays(m, k)' <=> At(k)' = m /\ Now(k)')
    BY <2>1, <2>2, <1>4, <1>6, <1>7, <1>8
  <2> QED BY <2>3 DEF Placed
<1>10. Pending'
  <2>1. \A k : Copied(k)' <=> \E j \in DOMAIN worker[n].batch : j < i + 1 /\ worker[n].batch[j][1] = k
    BY <1>1, <1>4 DEF Copied
  <2>2. \A k \in Tracked : Stays(to, k)' <=> Copied(k)'
    BY <2>1, <1>4 DEF InBatch
  <2>3. /\ log[n] # <<>> /\ log[n][Len(log[n])].type = "split"
        /\ \A k \in Keys : Between(Present(leaves[Head(client.todo)].data), k)
                        <=> log[n][Len(log[n])].key <= k /\ k <= log[n][Len(log[n])].value
    BY <1>4, <1>5 DEF Copies, Pending
  <2>4. \A k \in Keys : Between(Present(leaves[Head(client.todo)].data), k)'
                        <=> log'[n][Len(log'[n])].key <= k /\ k <= log'[n][Len(log'[n])].value
    BY <2>3, <1>1, <1>4 DEF Between, Present
  <2>5. \A k \in Tracked', m \in Nodes : m = client'.leaf => (Stays(m, k)' <=> Copied(k)')
    BY <2>2, <1>1, <1>3, <1>6
  <2> QED BY <2>3, <2>4, <2>5, <1>1, <1>4 DEF Pending
<1> QED BY <1>4, <1>6, <1>9, <1>10 DEF Copies

(* The latch is set: the keys of the piece are the new node's.             *)
LEMMA SetLatchKeepsCopies ==
  ASSUME State, Producers, Shape, Copies, NEW n \in Nodes, SetLatch(n)
  PROVE  Copies'
<1>1. UNCHANGED <<leaves, client, acked, astray, cold>>
  BY DEF SetLatch, shape
<1>2. PICK i : i = worker[n].i
  OBVIOUS
<1>3. PICK to : to = client.leaf
  OBVIOUS
<1>4. PICK t : t = client.todo[1]
  OBVIOUS
<1>5. /\ Trees' /\ worker[n].at = "move" /\ log' = log /\ tree' = tree /\ split_'[n]
      /\ \A m \in Nodes, k \in Tracked : m # n => (Stays(m, k)' <=> Stays(m, k))
      /\ \A k \in Tracked :
           /\ Stays(n, k) <=> tree[n][k] # <<>>
           /\ InBatch(n, k, i) <=> (log[n][1].key <= k /\ k <= log[n][1].value /\ tree[n][k] # <<>>)
           /\ Stays(n, k)' <=> (tree[n][k] # <<>> /\ ~InBatch(n, k, i))
  BY <1>2, SetLatchKeepsTrees DEF Copies
<1>6. /\ client.at = "wait" /\ client.old = n /\ ~split_[n] /\ Len(log[n]) = 1 /\ ~Moved
      /\ to \in Nodes /\ to # n /\ Splitting
  BY <1>3, <1>5, Moves DEF Copies, Splitting
<1>7. /\ PieceKeys' /\ Answers' /\ HotData' /\ HotCall' /\ Tracked' = Tracked
      /\ \A k : (Now(k)' <=> Now(k)) /\ LeafOf(k)' = LeafOf(k) /\ InnerOf(k)' = InnerOf(k)
  <2>1. astray \subseteq astray' /\ Tracked' = Tracked
    BY <1>1 DEF Tracked
  <2> QED BY <1>1, <2>1, SameCalls DEF Copies
<1>8. /\ Moved' /\ t \in DOMAIN leaves /\ Head(client.todo) = t /\ leaves[t].inner = n
      /\ ~Owner(to) /\ \A m : Owner(m) => m \in Nodes
      /\ \A m : Owner(m)' => m = to \/ Owner(m)
  <2>1. Moved'
    BY <1>1, <1>5, <1>6 DEF Moved
  <2>2. t \in DOMAIN leaves /\ Head(client.todo) = t /\ leaves[t].inner = n
         /\ ~Owner(to) /\ \A m : Owner(m) => m \in Nodes
    BY <1>3, <1>4, <1>6, OwnerNodes
  <2>3. \A m : Owner(m)' => m = to \/ Owner(m)
    BY <1>1, <1>3 DEF Owner
  <2> QED BY <2>1, <2>2, <2>3
<1>9. \A k : At(k)' = IF LeafOf(k) = t THEN to ELSE InnerOf(k)
  BY <1>1, <1>3, <1>7, <1>8 DEF At
<1>10. \A k : At(k) = InnerOf(k)
  BY <1>6 DEF At
<1>11. Owner(n)
  BY <1>8 DEF Owner
<1>12. ASSUME NEW k \in Tracked
       PROVE  /\ tree[n][k] # <<>> <=> InnerOf(k) = n /\ Now(k)
              /\ InBatch(n, k, i) <=> LeafOf(k) = t /\ Now(k)
              /\ LeafOf(k) = t => InnerOf(k) = n
              /\ InnerOf(k) # to
              /\ Stays(to, k) <=> InBatch(n, k, i)
  <2>1. tree[n][k] # <<>> <=> InnerOf(k) = n /\ Now(k)
    BY <1>5, <1>10, <1>11 DEF Copies, Placed
  <2>2. LeafOf(k) = t => InnerOf(k) = n
    BY <1>8 DEF InnerOf
  <2>3. k \in Keys /\ k \in Nat
    BY KeysAssumption DEF Tracked
  <2>4. Between(Present(leaves[t].data), k) <=> log[n][1].key <= k /\ k <= log[n][1].value
    BY <1>6, <1>8, <2>3 DEF Copies, Pending
  <2>5. InnerOf(k) = n /\ Now(k) => (Between(Present(leaves[t].data), k) <=> LeafOf(k) = t)
    BY <1>4, <1>6, PieceRange DEF Copies
  <2>6. InBatch(n, k, i) <=> LeafOf(k) = t /\ Now(k)
    <3>1. InBatch(n, k, i) <=> ((log[n][1].key <= k /\ k <= log[n][1].value) /\ tree[n][k] # <<>>)
      BY <1>5
    <3> QED BY <3>1, <2>1, <2>2, <2>4, <2>5
  <2>7. InnerOf(k) # to
    <3>1. Sorted /\ TypeOK
      BY DEF State
    <3>2. LeafOf(k) \in DOMAIN leaves
      BY <3>1, <2>3, LeafOfIs
    <3> QED BY <3>2, <1>8 DEF InnerOf, Owner
  <2>8. Stays(to, k) <=> InBatch(n, k, i)
    BY <1>2, <1>3, <1>5, <1>6 DEF Copies, Pending, Copied, InBatch
  <2> QED BY <2>1, <2>2, <2>6, <2>7, <2>8
<1>13. Placed'
  <2> SUFFICES ASSUME NEW k \in Tracked', NEW m \in Nodes, Owner(m)'
               PROVE  Stays(m, k)' <=> At(k)' = m /\ Now(k)'
    BY DEF Placed
  <2>0. k \in Tracked /\ (Now(k)' <=> Now(k)) /\ At(k)' = IF LeafOf(k) = t THEN to ELSE InnerOf(k)
    BY <1>7, <1>9
  <2>1. CASE m = to
    BY <2>0, <2>1, <1>5, <1>6, <1>12
  <2>2. CASE m = n
    BY <2>0, <2>2, <1>5, <1>6, <1>12
  <2>3. CASE m # n /\ m # to
    <3>1. Stays(m, k)' <=> InnerOf(k) = m /\ Now(k)
      BY <2>0, <2>3, <1>5, <1>8, <1>10 DEF Copies, Placed
    <3> QED BY <3>1, <2>0, <2>3, <1>12
  <2> QED BY <2>1, <2>2, <2>3
<1>14. Pending'
  BY <1>1, <1>5, <1>6 DEF Pending
<1> QED BY <1>5, <1>7, <1>13, <1>14 DEF Copies

(* Every step of a worker keeps the copies.                                *)
LEMMA WorkerKeepsCopies ==
  ASSUME State, Producers, Shape, Copies, NEW n \in Nodes, WorkerStep(n)
  PROVE  Copies'
BY QuietWorker, MoveEntryKeepsCopies, SetLatchKeepsCopies DEF WorkerStep

-----------------------------------------------------------------------------
(* The client keeps the copies.                                            *)

(* The leaf of a key in a list of leaves.                                  *)
HomeOf(l, k) == CHOOSE i \in DOMAIN l : l[i].from <= k /\ \A j \in i + 1 .. Len(l) : k < l[j].from

(* The leaf of a key is the last one that starts at the key or before.     *)
LEMMA HomeIs ==
  ASSUME NEW l, NEW n \in Nat, DOMAIN l = 1 .. n, Len(l) = n, \A x \in 1 .. n : l[x].from \in Nat,
         NEW k \in Nat, NEW i \in 1 .. n, l[i].from <= k, \A j \in 1 .. n : i < j => k < l[j].from
  PROVE  HomeOf(l, k) = i
<1> DEFINE P(x) == l[x].from <= k /\ \A j \in x + 1 .. Len(l) : k < l[j].from
<1>1. i \in DOMAIN l /\ P(i)
  <2>1. \A j \in i + 1 .. n : j \in 1 .. n /\ i < j
    OBVIOUS
  <2> QED BY <2>1
<1>2. HomeOf(l, k) \in DOMAIN l /\ P(HomeOf(l, k))
  <2>1. HomeOf(l, k) = CHOOSE x \in DOMAIN l : P(x)
    BY DEF HomeOf
  <2> HIDE DEF P
  <2> QED BY <2>1, <1>1
<1>3. ASSUME NEW x \in 1 .. n, P(x) PROVE x = i
  <2>1. CASE x < i
    <3>1. i \in x + 1 .. Len(l)
      BY <2>1
    <3>2. k < l[i].from
      BY <3>1, <1>3
    <3> QED BY <3>2
  <2>2. CASE i < x
    <3>1. k < l[x].from
      BY <2>2
    <3> QED BY <3>1, <1>3
  <2> QED BY <2>1, <2>2
<1> QED BY <1>2, <1>3

(* The leaf of a key after a step.                                         *)
LEMMA NextHome ==
  ASSUME State', NEW k \in Keys, NEW i \in DOMAIN leaves', leaves'[i].from <= k,
         \A j \in DOMAIN leaves' : i < j => k < leaves'[j].from
  PROVE  LeafOf(k)' = i /\ InnerOf(k)' = leaves'[i].inner
<1>1. leaves' \in Seq(LeafType)
  BY DEF State, TypeOK
<1>2. Len(leaves') \in Nat /\ DOMAIN leaves' = 1 .. Len(leaves')
  BY <1>1
<1>3. \A x \in DOMAIN leaves' : leaves'[x].from \in Nat
  <2>1. \A x \in DOMAIN leaves' : leaves'[x] \in LeafType
    BY <1>1
  <2> QED BY <2>1 DEF LeafType
<1>4. k \in Nat
  BY KeysAssumption
<1>5. HomeOf(leaves', k) = i
  BY <1>2, <1>3, <1>4, HomeIs
<1>6. LeafOf(k)' = HomeOf(leaves', k)
  BY DEF LeafOf, HomeOf
<1> QED BY <1>5, <1>6 DEF InnerOf

(* The leaf of a key before a step.                                        *)
LEMMA Home ==
  ASSUME State, NEW k \in Keys
  PROVE  /\ LeafOf(k) \in DOMAIN leaves /\ leaves[LeafOf(k)].from <= k /\ InnerOf(k) = leaves[LeafOf(k)].inner
         /\ \A j \in DOMAIN leaves : LeafOf(k) < j => k < leaves[j].from
         /\ DOMAIN leaves = 1 .. Len(leaves) /\ Len(leaves) \in Nat \ {0}
         /\ \A x \in DOMAIN leaves :
              leaves[x].inner \in Nodes /\ leaves[x].from \in Nat /\ leaves[x].data \in Contents
         /\ k \in Nat
<1>1. TypeOK /\ Sorted /\ k \in Nat
  BY KeysAssumption DEF State
<1>2. /\ LeafOf(k) \in DOMAIN leaves /\ leaves[LeafOf(k)].from <= k
      /\ \A j \in LeafOf(k) + 1 .. Len(leaves) : k < leaves[j].from
  BY <1>1, LeafOfIs
<1>3. /\ DOMAIN leaves = 1 .. Len(leaves) /\ Len(leaves) \in Nat \ {0}
      /\ \A x \in DOMAIN leaves :
           leaves[x].inner \in Nodes /\ leaves[x].from \in Nat /\ leaves[x].data \in Contents
  BY <1>1, LeafTypes
<1>4. \A j \in DOMAIN leaves : LeafOf(k) < j => j \in LeafOf(k) + 1 .. Len(leaves)
  BY <1>2, <1>3
<1> QED BY <1>1, <1>2, <1>3, <1>4 DEF InnerOf

(* Leaves that keep their ranges keep their keys.                          *)
LEMMA SameHomes ==
  ASSUME State, State', SameLeaves, DOMAIN leaves' = DOMAIN leaves, NEW k \in Keys
  PROVE  LeafOf(k)' = LeafOf(k) /\ InnerOf(k)' = InnerOf(k)
<1> DEFINE i == LeafOf(k)
<1>1. /\ i \in DOMAIN leaves /\ leaves[i].from <= k /\ InnerOf(k) = leaves[i].inner
      /\ \A j \in DOMAIN leaves : i < j => k < leaves[j].from
  BY Home
<1> HIDE DEF i
<1>2. i \in DOMAIN leaves' /\ leaves'[i].from <= k /\ leaves'[i].inner = leaves[i].inner
      /\ \A j \in DOMAIN leaves' : i < j => k < leaves'[j].from
  BY <1>1 DEF SameLeaves
<1>3. LeafOf(k)' = i /\ InnerOf(k)' = leaves'[i].inner
  BY <1>2, NextHome
<1> QED BY <1>1, <1>2, <1>3 DEF i

(* The logs, the trees and the workers are left alone.                     *)
LEMMA SameNVM ==
  ASSUME Trees, UNCHANGED <<tree, log, worker>>, Tracked' \subseteq Tracked, created \subseteq created',
         \A n \in cold' : log[n] = <<>>
  PROVE  Trees' /\ \A m, k : Stays(m, k)' <=> Stays(m, k)
<1>1. \A m, k : (Stays(m, k)' <=> Stays(m, k)) /\ (OneEach(m, k)' <=> OneEach(m, k))
  <2> TAKE m
  <2>1. \A k : (Stays(m, k)' <=> Stays(m, k)) /\ (OneEach(m, k)' <=> OneEach(m, k))
    BY SameNode
  <2> QED BY <2>1
<1>2. \A m \in Nodes : Batch(m)'
  BY SameBatch DEF Trees
<1> QED BY <1>1, <1>2 DEF Trees

(* Between two steps of a call that splits no leaf the keys stay placed.   *)
LEMMA QuietPlaced ==
  ASSUME State, Placed, ~Splitting, ~Splitting', Tracked' \subseteq Tracked,
         \A m \in Nodes, k \in Tracked' : Owner(m) => (Stays(m, k)' <=> Stays(m, k)),
         \A m \in Nodes : Owner(m)' => Owner(m),
         \A k \in Tracked' : (Now(k)' <=> Now(k)) /\ InnerOf(k)' = InnerOf(k)
  PROVE  Placed' /\ Pending' /\ PieceKeys'
<1>1. \A k : At(k) = InnerOf(k) /\ At(k)' = InnerOf(k)'
  BY DEF At, Moved, Splitting
<1>2. Placed'
  BY <1>1 DEF Placed
<1>3. Pending' /\ PieceKeys'
  BY DEF Pending, PieceKeys, Splitting
<1> QED BY <1>2, <1>3

(* The client inserts no key that is there.                                *)
LEMMA NoDuplicate ==
  ASSUME Duplicates = FALSE, NEW k, NEW op, Call(op, k)
  PROVE  op = "insert" => acked[k] = <<>>
BY Zenon DEF Call

(* A call begins.                                                          *)
LEMMA CallIs ==
  ASSUME NEW k, NEW op, Call(op, k)
  PROVE  /\ UNCHANGED <<tree, log, worker, leaves, created, cold, acked, astray>> /\ client.at = "idle"
         /\ client'.at = "write" /\ client'.key = k /\ client'.op = op
<1>1. client' = [Idle EXCEPT !.at = "write", !.key = k, !.op = op]
  BY DEF Call
<1>2. client'.at = "write" /\ client'.key = k /\ client'.op = op
  BY <1>1 DEF Idle
<1>3. client.at = "idle" /\ UNCHANGED <<tree, log, worker, leaves, created, cold, acked, astray>>
  BY DEF Call, nvm, shape
<1> QED BY <1>2, <1>3

(* The call under way changes, and nothing else.                           *)
LEMMA CallKeepsCopies ==
  ASSUME State, Copies, UNCHANGED <<tree, log, worker, leaves, created, cold, acked, astray>>,
         client.at \in {"idle", "merge"}, client'.at \in {"idle", "write"},
         client'.at = "write" /\ client'.op = "insert" => acked[client'.key] = <<>>
  PROVE  Copies'
<1>1. UNCHANGED <<tree, log, worker, leaves, created, cold, acked, astray>>
  OBVIOUS
<1>2. /\ client.at \in {"idle", "merge"} /\ client'.at \in {"idle", "write"}
      /\ client'.at = "write" /\ client'.op = "insert" => acked[client'.key] = <<>>
  OBVIOUS
<1>3. Trees' /\ Tracked' = Tracked /\ \A m, k : Stays(m, k)' <=> Stays(m, k)
  <2>1. Tracked' = Tracked
    BY <1>1 DEF Tracked
  <2>2. \A n \in cold' : log[n] = <<>>
    BY <1>1 DEF Copies, Trees
  <2> QED BY <2>1, <2>2, <1>1, SameNVM DEF Copies
<1>4. ~Splitting /\ ~Splitting' /\ ~Logged /\ ~Logged'
  BY <1>2 DEF Splitting, Logged
<1>5. \A k : (Now(k)' <=> Now(k)) /\ LeafOf(k)' = LeafOf(k) /\ InnerOf(k)' = InnerOf(k)
  BY <1>1, <1>4 DEF Now, LeafOf, InnerOf
<1>6. \A m : Owner(m)' => Owner(m)
  BY <1>1, <1>4 DEF Owner, Moved, Splitting
<1>7. Placed' /\ Pending' /\ PieceKeys'
  BY <1>3, <1>4, <1>5, <1>6, QuietPlaced DEF Copies
<1>8. Answers'
  BY <1>1, <1>2 DEF Copies, Answers
<1>9. HotData' /\ HotCall'
  BY <1>1, <1>3, <1>4, <1>5 DEF Copies, HotData, HotCall
<1> QED BY <1>3, <1>7, <1>8, <1>9 DEF Copies

(* The insert or erase of a call that was logged changes the leaf.         *)
LEMMA LeafData ==
  ASSUME State, InsertLeaf \/ EraseLeaf
  PROVE  \A x \in DOMAIN leaves, k \in Keys :
           leaves'[x].data[k] = IF k = client.key /\ x = LeafOf(k)
                                THEN IF client.op = "insert" THEN Append(leaves[x].data[k], Value(k)) ELSE <<>>
                                ELSE leaves[x].data[k]
<1> DEFINE q == client.key
           i == LeafOf(q)
<1>1. q \in Keys
  BY DEF InsertLeaf, EraseLeaf, State, Begun
<1>2. i \in DOMAIN leaves /\ \A x \in DOMAIN leaves : leaves[x].data \in Contents
  BY <1>1, Home
<1>3. leaves \in Seq(LeafType) /\ \A x \in DOMAIN leaves : leaves[x] \in LeafType
  <2>1. leaves \in Seq(LeafType)
    BY DEF State, TypeOK
  <2> QED BY <2>1
<1>4. PICK d : /\ leaves' = [leaves EXCEPT ![i].data = d]
               /\ \A k \in Keys :
                    d[k] = IF k = q
                           THEN IF client.op = "insert" THEN Append(leaves[i].data[k], Value(k)) ELSE <<>>
                           ELSE leaves[i].data[k]
  <2>1. CASE InsertLeaf
    <3> DEFINE d == [leaves[i].data EXCEPT ![q] = Append(@, Value(q))]
    <3>1. leaves' = [leaves EXCEPT ![i].data = d] /\ client.op = "insert"
      BY <2>1 DEF InsertLeaf
    <3>2. \A k \in Keys : d[k] = IF k = q THEN Append(leaves[i].data[k], Value(k)) ELSE leaves[i].data[k]
      BY <1>1, <1>2 DEF Contents
    <3> HIDE DEF d, i, q
    <3> QED BY <3>1, <3>2
  <2>2. CASE EraseLeaf
    <3> DEFINE d == [leaves[i].data EXCEPT ![q] = <<>>]
    <3>1. leaves' = [leaves EXCEPT ![i].data = d] /\ client.op # "insert"
      BY <2>2 DEF EraseLeaf
    <3>2. \A k \in Keys : d[k] = IF k = q THEN <<>> ELSE leaves[i].data[k]
      BY <1>1, <1>2 DEF Contents
    <3> HIDE DEF d, i, q
    <3> QED BY <3>1, <3>2
  <2> QED BY <2>1, <2>2
<1>5. /\ leaves'[i].data = d
      /\ \A x \in DOMAIN leaves : x # i => leaves'[x] = leaves[x]
  <2> HIDE DEF i
  <2> QED BY <1>2, <1>3, <1>4 DEF LeafType
<1>6. ASSUME NEW x \in DOMAIN leaves, NEW k \in Keys
      PROVE  leaves'[x].data[k] = IF k = q /\ x = i
                                  THEN IF client.op = "insert" THEN Append(leaves[x].data[k], Value(k)) ELSE <<>>
                                  ELSE leaves[x].data[k]
  <2> HIDE DEF i, q
  <2>1. CASE x = i
    BY <2>1, <1>4, <1>5
  <2>2. CASE x # i
    BY <2>2, <1>5
  <2> QED BY <2>1, <2>2
<1> QED BY <1>6

(* The change of the leaf's array makes acked what was logged.             *)
LEMMA LeafKeepsCopies ==
  ASSUME State, State', Copies, InsertLeaf \/ EraseLeaf
  PROVE  Copies'
<1> DEFINE q == client.key
<1>1. /\ UNCHANGED <<tree, log, worker, created, cold, astray>> /\ client.at = "leaf" /\ q \in Keys
      /\ client'.at \in {"idle", "merge"}
      /\ client'.at = "merge" => client'.op # "insert"
  <2>1. client' = Idle \/ client' = [client EXCEPT !.at = "merge", !.leaf = LeafOf(q)]
    BY DEF InsertLeaf, EraseLeaf
  <2>2. client' # Idle => client.op = "erase"
    BY DEF InsertLeaf, EraseLeaf
  <2>3. client \in ClientType
    BY DEF State, TypeOK
  <2>4. client'.at \in {"idle", "merge"} /\ (client'.at = "merge" => client'.op # "insert")
    <3>1. CASE client' = Idle
      BY <3>1 DEF Idle
    <3>2. CASE client' # Idle
      <4>1. client' = [client EXCEPT !.at = "merge", !.leaf = LeafOf(q)]
        BY <2>1, <3>2
      <4>2. client'.at = "merge" /\ client'.op = client.op
        BY <4>1, <2>3 DEF ClientType
      <4> QED BY <4>2, <3>2, <2>2
    <3> QED BY <3>1, <3>2
  <2> QED BY <2>4 DEF InsertLeaf, EraseLeaf, nvm, State, Begun
<1>2. /\ SameLeaves /\ DOMAIN leaves' = DOMAIN leaves
      /\ \A k \in Keys : LeafOf(k)' = LeafOf(k) /\ InnerOf(k)' = InnerOf(k)
  BY LeafKeepsLeaves, SameHomes
<1>3. /\ \A k \in Keys : acked[k] \in {<<>>, <<1>>}
      /\ client.op = "insert" => acked[q] = <<>>
  BY <1>1 DEF Copies, Answers
<1>4. /\ \A k \in Keys : acked'[k] = IF k = q THEN IF client.op = "insert" THEN <<1>> ELSE <<>> ELSE acked[k]
      /\ client.op = "insert" => Value(q) = 1
  <2>1. client.op = "insert" => Value(q) = 1
    BY <1>3 DEF Value
  <2>2. acked' = [acked EXCEPT ![q] = IF client.op = "insert" THEN Append(@, Value(q)) ELSE <<>>]
    BY DEF InsertLeaf, EraseLeaf, Acknowledge
  <2>3. acked \in [Keys -> Seq(Nat)]
    BY DEF State, TypeOK, Contents
  <2>4. Append(<<>>, 1) = <<1>>
    OBVIOUS
  <2> HIDE DEF q
  <2> QED BY <2>1, <2>2, <2>3, <2>4, <1>1, <1>3
<1>5. Trees' /\ Tracked' = Tracked /\ \A m, k : Stays(m, k)' <=> Stays(m, k)
  <2>1. Tracked' = Tracked
    BY <1>1 DEF Tracked
  <2>2. \A n \in cold' : log[n] = <<>>
    BY <1>1 DEF Copies, Trees
  <2> QED BY <2>1, <2>2, <1>1, SameNVM DEF Copies
<1>6. ~Splitting /\ ~Splitting' /\ Logged /\ ~Logged'
  BY <1>1 DEF Splitting, Logged
<1>7. \A k \in Keys : Now(k)' <=> Now(k)
  <2>1. \A k \in Keys : Now(k)' <=> acked'[k] # <<>>
    BY <1>6 DEF Now
  <2>2. \A k \in Keys : Now(k) <=> IF k = q THEN client.op = "insert" ELSE acked[k] # <<>>
    BY <1>6 DEF Now
  <2>3. <<1>> # <<>>
    OBVIOUS
  <2> QED BY <2>1, <2>2, <2>3, <1>4
<1>8. \A m : Owner(m)' => Owner(m)
  <2>1. \A x \in DOMAIN leaves' : x \in DOMAIN leaves /\ leaves'[x].inner = leaves[x].inner
    BY <1>2 DEF SameLeaves
  <2> QED BY <2>1, <1>6 DEF Owner, Moved, Splitting
<1>9. Placed' /\ Pending' /\ PieceKeys'
  <2>1. \A k \in Tracked' : (Now(k)' <=> Now(k)) /\ InnerOf(k)' = InnerOf(k)
    BY <1>2, <1>7 DEF Tracked
  <2>2. \A m \in Nodes, k \in Tracked' : Owner(m) => (Stays(m, k)' <=> Stays(m, k))
    BY <1>5
  <2> QED BY <2>1, <2>2, <1>5, <1>6, <1>8, QuietPlaced DEF Copies
<1>10. Answers'
  BY <1>1, <1>3, <1>4 DEF Answers
<1>11. HotData'
  <2> SUFFICES ASSUME NEW x \in DOMAIN leaves', NEW k \in Tracked', leaves'[x].inner \notin cold'
               PROVE  leaves'[x].data[k] = IF LeafOf(k)' = x THEN acked'[k] ELSE <<>>
    BY DEF HotData
  <2>1. x \in DOMAIN leaves /\ k \in Tracked /\ k \in Keys /\ leaves[x].inner \notin cold /\ LeafOf(k)' = LeafOf(k)
    BY <1>1, <1>2, <1>5 DEF SameLeaves, Tracked
  <2>2. leaves[x].data[k] = IF LeafOf(k) = x THEN acked[k] ELSE <<>>
    BY <2>1 DEF Copies, HotData
  <2>3. leaves'[x].data[k] = IF k = q /\ x = LeafOf(k)
                             THEN IF client.op = "insert" THEN Append(leaves[x].data[k], Value(k)) ELSE <<>>
                             ELSE leaves[x].data[k]
    BY <2>1, LeafData
  <2>4. Append(<<>>, 1) = <<1>>
    OBVIOUS
  <2> HIDE DEF q
  <2>5. CASE k = q /\ x = LeafOf(k)
    BY <2>1, <2>2, <2>3, <2>4, <2>5, <1>3, <1>4
  <2>6. CASE ~(k = q /\ x = LeafOf(k))
    BY <2>1, <2>2, <2>3, <2>6, <1>4
  <2> QED BY <2>5, <2>6
<1>12. HotCall'
  BY <1>6 DEF HotCall
<1> QED BY <1>5, <1>9, <1>10, <1>11, <1>12 DEF Copies

(* The call's leaf, when the call has not been logged.                     *)
LEMMA BeforeWrite ==
  ASSUME State, Copies, client.at = "write", NEW n, n = InnerOf(client.key)
  PROVE  /\ client.key \in Keys /\ client.op \in {"insert", "erase"} /\ n \in created /\ n \in Nodes
         /\ created \subseteq Nodes
         /\ Owner(n) /\ ~Splitting /\ ~Logged /\ ~Moved
         /\ \A k : At(k) = InnerOf(k) /\ (Now(k) <=> acked[k] # <<>>)
         /\ acked[client.key] \in {<<>>, <<1>>}
         /\ client.op = "insert" => acked[client.key] = <<>> /\ Value(client.key) = 1
         /\ \A k \in Tracked, m \in Nodes : Owner(m) => (Stays(m, k) <=> InnerOf(k) = m /\ acked[k] # <<>>)
<1>1. client.key \in Keys /\ client.op \in {"insert", "erase"}
  BY DEF State, Begun
<1>2. LeafOf(client.key) \in DOMAIN leaves /\ n = leaves[LeafOf(client.key)].inner
  BY <1>1, Home
<1>3. n \in created /\ n \in Nodes /\ created \subseteq Nodes /\ Owner(n)
  BY <1>2 DEF State, Inners, TypeOK, Owner
<1>4. ~Splitting /\ ~Logged /\ ~Moved
  BY DEF Splitting, Logged, Moved
<1>5. \A k : At(k) = InnerOf(k) /\ (Now(k) <=> acked[k] # <<>>)
  BY <1>4 DEF At, Now
<1>6. acked[client.key] \in {<<>>, <<1>>} /\ (client.op = "insert" => acked[client.key] = <<>>)
  BY <1>1 DEF Copies, Answers
<1>7. client.op = "insert" => Value(client.key) = 1
  BY <1>6 DEF Value
<1>8. \A k \in Tracked, m \in Nodes : Owner(m) => (Stays(m, k) <=> InnerOf(k) = m /\ acked[k] # <<>>)
  BY <1>5 DEF Copies, Placed
<1> QED BY <1>1, <1>3, <1>4, <1>5, <1>6, <1>7, <1>8

(* The call is written to the log of its hot leaf.                         *)
LEMMA WriteLogKeepsCopies ==
  ASSUME State, Producers, Copies, WriteLog
  PROVE  Copies'
<1>1. PICK q : q = client.key
  OBVIOUS
<1>2. PICK n : n = InnerOf(q)
  OBVIOUS
<1>3. client.at = "write" /\ n \notin cold /\ UNCHANGED <<tree, worker, leaves, created, cold, acked, astray>>
  BY <1>1, <1>2 DEF WriteLog, shape
<1>4. /\ q \in Keys /\ client.op \in {"insert", "erase"} /\ n \in created /\ n \in Nodes /\ created \subseteq Nodes
      /\ Owner(n) /\ ~Splitting /\ ~Logged /\ ~Moved
      /\ client.op = "insert" => acked[q] = <<>> /\ Value(q) = 1
      /\ \A k \in Tracked, m \in Nodes : Owner(m) => (Stays(m, k) <=> InnerOf(k) = m /\ acked[k] # <<>>)
  BY <1>1, <1>2, <1>3, BeforeWrite
<1>5. PICK e : e = Entry(client.op, q, Value(q), 0)
  OBVIOUS
<1>6. e \in Entries /\ e.type = client.op /\ e.key = q /\ (e.type = "insert" => e.value = 1)
  <2>1. Value(q) \in Nat
    <3>1. acked[q] \in Seq(Nat)
      BY <1>4 DEF State, TypeOK, Contents
    <3> QED BY <3>1 DEF Value
  <2> QED BY <2>1, <1>4, <1>5 DEF Entry, Entries
<1>7. log[n] \in Seq(Entries) /\ log'[n] = Append(log[n], e) /\ \A m \in Nodes : m # n => log'[m] = log[m]
  <2>1. log' = [log EXCEPT ![n] = Append(@, e)]
    BY <1>1, <1>2, <1>5 DEF WriteLog, Write
  <2>2. log \in [Nodes -> Seq(Entries)]
    BY DEF State, TypeOK
  <2> QED BY <2>1, <2>2, <1>4
<1>8. client'.at = "leaf" /\ client'.key = q /\ client'.op = client.op
  <2>1. client' = [client EXCEPT !.at = "leaf"] /\ client \in ClientType
    BY DEF WriteLog, State, TypeOK
  <2> QED BY <2>1, <1>1 DEF ClientType
<1>9. ASSUME NEW k \in Tracked
      PROVE  OneEach(n, k)' /\ (Stays(n, k)' <=> IF k = q THEN client.op = "insert" ELSE Stays(n, k))
  <2>1. PICK now : now = InTree(n, k)
    OBVIOUS
  <2>2. PICK l : l = log[n]
    OBVIOUS
  <2>3. PICK r : r = log'[n]
    OBVIOUS
  <2>4. Stays(n, k) <=> There(l, now, k, Len(l) + 1)
    BY <2>1, <2>2 DEF Stays
  <2>5. tree[n][k] \in {<<>>, <<1>>} /\ Sound(l, now, k)
    BY <2>1, <2>2, <1>4 DEF Copies, Trees, OneEach
  <2>6. e.type # "split" /\ (k = q /\ e.type = "insert" => e.value = 1 /\ ~There(l, now, k, Len(l) + 1))
    BY <2>4, <1>4, <1>6
  <2>7. r = Append(l, e) /\ l \in Seq(Entries)
    BY <2>2, <2>3, <1>7
  <2>8. k = q <=> e.type # "split" /\ e.key = k
    BY <2>6, <1>6
  <2>9. PICK new : new = (k = q)
    OBVIOUS
  <2>10. /\ new <=> e.type # "split" /\ e.key = k
         /\ new /\ e.type = "insert" => e.value = 1 /\ ~There(l, now, k, Len(l) + 1)
    BY <2>6, <2>8, <2>9
  <2>11. /\ There(r, now, k, Len(r) + 1) <=> IF new THEN e.type = "insert" ELSE There(l, now, k, Len(l) + 1)
         /\ Sound(r, now, k)
    BY <2>5, <2>7, <2>10, <1>6, AppendLog
  <2>12. InTree(n, k)' <=> now
    BY <2>1, <1>3 DEF InTree, InBatch
  <2>13. Stays(n, k)' <=> There(r, now, k, Len(r) + 1)
    BY <2>3, <2>12 DEF Stays, There, About
  <2>14. Sound(log[n], InTree(n, k), k)' <=> Sound(r, now, k)
    BY <2>3, <2>12 DEF Sound, There, About
  <2>15. OneEach(n, k)'
    BY <2>5, <2>11, <2>14, <1>3 DEF OneEach
  <2> QED BY <2>4, <2>9, <2>11, <2>13, <2>15, <1>6
<1>10. Batch(n)'
  <2>1. worker[n].at # "move"
    BY <1>3, <1>4, Moves DEF Copies
  <2>2. Batch(n) /\ Tracked' = Tracked
    BY <1>3, <1>4 DEF Copies, Trees, Tracked
  <2> QED BY <2>1, <2>2, <1>3, SameBatch
<1>11. Trees' /\ \A m \in Nodes, k \in Tracked : m # n => (Stays(m, k)' <=> Stays(m, k))
  <2>1. cold \subseteq Nodes
    BY DEF State, TypeOK
  <2>2. \A m \in Nodes : m # n => log'[m] = log[m] /\ tree'[m] = tree[m] /\ worker'[m] = worker[m]
    BY <1>3, <1>7
  <2>3. \A k \in Tracked : OneEach(n, k)'
    BY <1>9
  <2>4. n \in cold => log'[n] = <<>>
    BY <1>3
  <2> QED BY <2>1, <2>2, <2>3, <2>4, <1>3, <1>4, <1>10, OneNode DEF Copies
<1>12. /\ Tracked' = Tracked /\ ~Splitting' /\ ~Moved' /\ Logged'
       /\ \A k : InnerOf(k)' = InnerOf(k) /\ LeafOf(k)' = LeafOf(k)
       /\ \A m : Owner(m)' => Owner(m)
  BY <1>3, <1>4, <1>8 DEF Tracked, Splitting, Moved, Logged, InnerOf, LeafOf, Owner
<1>13. Placed'
  <2> SUFFICES ASSUME NEW k \in Tracked', NEW m \in Nodes, Owner(m)'
               PROVE  Stays(m, k)' <=> At(k)' = m /\ Now(k)'
    BY DEF Placed
  <2>1. At(k)' = InnerOf(k)
    BY <1>12 DEF At
  <2>2. Now(k)' <=> IF k = q THEN client.op = "insert" ELSE acked[k] # <<>>
    BY <1>3, <1>8, <1>12 DEF Now
  <2>3. k \in Tracked /\ Owner(m)
    BY <1>12
  <2>4. Stays(m, k) <=> InnerOf(k) = m /\ acked[k] # <<>>
    BY <2>3, <1>4
  <2>5. CASE m = n
    BY <2>1, <2>2, <2>3, <2>4, <2>5, <1>2, <1>9
  <2>6. CASE m # n
    BY <2>1, <2>2, <2>3, <2>4, <2>6, <1>2, <1>11
  <2> QED BY <2>5, <2>6
<1>14. Pending' /\ PieceKeys'
  BY <1>12 DEF Pending, PieceKeys, Splitting
<1>15. Answers' /\ HotData'
  <2>1. Answers /\ HotData
    BY DEF Copies
  <2>2. Answers'
    BY <2>1, <1>1, <1>3, <1>8 DEF Answers
  <2>3. HotData'
    BY <2>1, <1>3, <1>12 DEF HotData
  <2> QED BY <2>2, <2>3
<1>16. HotCall'
  BY <1>2, <1>3, <1>8, <1>12 DEF HotCall
<1> QED BY <1>11, <1>13, <1>14, <1>15, <1>16 DEF Copies

(* The call is written to the tree of its cold leaf.                       *)
LEMMA WriteColdKeepsCopies ==
  ASSUME State, Producers, Copies, WriteCold
  PROVE  Copies'
<1>1. PICK q : q = client.key
  OBVIOUS
<1>2. PICK n : n = InnerOf(q)
  OBVIOUS
<1>3. client.at = "write" /\ n \in cold /\ UNCHANGED <<log, worker, leaves, created, cold, astray>>
  BY <1>1, <1>2 DEF WriteCold, shape
<1>4. /\ q \in Keys /\ client.op \in {"insert", "erase"} /\ n \in created /\ n \in Nodes /\ created \subseteq Nodes
      /\ Owner(n) /\ ~Splitting /\ ~Logged /\ ~Moved /\ acked[q] \in {<<>>, <<1>>}
      /\ client.op = "insert" => acked[q] = <<>> /\ Value(q) = 1
      /\ \A k \in Tracked, m \in Nodes : Owner(m) => (Stays(m, k) <=> InnerOf(k) = m /\ acked[k] # <<>>)
  BY <1>1, <1>2, <1>3, BeforeWrite
<1>5. /\ log[n] = <<>> /\ DOMAIN log[n] = {} /\ worker[n].at # "move" /\ worker[n].at # "prune"
  <2>1. log[n] = <<>>
    BY <1>3 DEF Copies, Trees
  <2>2. worker[n].at # "move" /\ worker[n].at # "prune"
    BY <2>1, <1>4 DEF Producers, InSplit
  <2> QED BY <2>1, <2>2
<1>6. \A k \in Keys : acked'[k] = IF k = q THEN IF client.op = "insert" THEN <<1>> ELSE <<>> ELSE acked[k]
  <2>1. acked' = [acked EXCEPT ![q] = IF client.op = "insert" THEN Append(@, Value(q)) ELSE <<>>]
    BY <1>1 DEF WriteCold, Acknowledge
  <2>2. acked \in [Keys -> Seq(Nat)]
    BY DEF State, TypeOK, Contents
  <2>3. Append(<<>>, 1) = <<1>>
    OBVIOUS
  <2> QED BY <2>1, <2>2, <2>3, <1>4
<1>7. tree \in [Nodes -> Contents] /\ tree[n] \in [Keys -> Seq(Nat)]
  <2>1. tree \in [Nodes -> Contents]
    BY DEF State, TypeOK
  <2> QED BY <2>1, <1>4 DEF Contents
<1>8. /\ tree'[n] = IF client.op = "insert" THEN BtreeInsert(tree[n], q, Value(q)) ELSE BtreeDelete(tree[n], q)
      /\ \A m \in Nodes : m # n => tree'[m] = tree[m]
  <2>1. tree' = [tree EXCEPT ![n] = IF client.op = "insert" THEN BtreeInsert(@, q, Value(q)) ELSE BtreeDelete(@, q)]
    BY <1>1, <1>2 DEF WriteCold
  <2> QED BY <2>1, <1>4, <1>7
<1>9. ASSUME NEW k \in Tracked
      PROVE  /\ tree[n][k] \in {<<>>, <<1>>} /\ (Stays(n, k) <=> tree[n][k] # <<>>)
             /\ tree'[n][k] = IF k = q THEN IF client.op = "insert" THEN <<1>> ELSE <<>> ELSE tree[n][k]
  <2>1. k \in Keys /\ tree[n][k] \in {<<>>, <<1>>}
    BY <1>4 DEF Copies, Trees, OneEach, Tracked
  <2>2. Stays(n, k) <=> tree[n][k] # <<>>
    BY <1>5 DEF Stays, There, InTree
  <2>3. CASE k # q
    BY <2>1, <2>2, <2>3, <1>7, <1>8 DEF BtreeInsert, BtreeDelete
  <2>4. CASE k = q /\ client.op = "insert"
    <3>1. tree[n][k] = <<>>
      BY <2>2, <2>4, <1>4
    <3>2. tree'[n][k] = Append(tree[n][k], 1)
      BY <2>1, <2>4, <1>4, <1>7, <1>8 DEF BtreeInsert
    <3>3. Append(<<>>, 1) = <<1>>
      OBVIOUS
    <3> QED BY <3>1, <3>2, <3>3, <2>1, <2>2, <2>4
  <2>5. CASE k = q /\ client.op # "insert"
    <3>1. tree'[n][k] = IF tree[n][k] = <<>> THEN tree[n][k] ELSE Tail(tree[n][k])
      BY <2>1, <2>5, <1>4, <1>7, <1>8 DEF BtreeDelete
    <3>2. Tail(<<1>>) = <<>>
      OBVIOUS
    <3> QED BY <3>1, <3>2, <2>1, <2>2, <2>5
  <2> QED BY <2>3, <2>4, <2>5
<1>10. ASSUME NEW k \in Tracked
       PROVE  OneEach(n, k)' /\ (Stays(n, k)' <=> tree'[n][k] # <<>>)
  <2>1. log'[n] = <<>> /\ worker'[n] = worker[n] /\ tree'[n][k] \in {<<>>, <<1>>} /\ DOMAIN log'[n] = {}
    BY <1>3, <1>5, <1>9
  <2>2. InTree(n, k)' <=> tree'[n][k] # <<>>
    BY <2>1, <1>5 DEF InTree
  <2> QED BY <2>1, <2>2 DEF OneEach, Stays, There, Sound
<1>11. Batch(n)'
  BY <1>3, <1>5 DEF Batch
<1>12. Trees' /\ \A m \in Nodes, k \in Tracked : m # n => (Stays(m, k)' <=> Stays(m, k))
  <2>1. cold \subseteq Nodes
    BY DEF State, TypeOK
  <2>2. \A m \in Nodes : m # n => log'[m] = log[m] /\ tree'[m] = tree[m] /\ worker'[m] = worker[m]
    BY <1>3, <1>8
  <2>3. \A k \in Tracked : OneEach(n, k)'
    BY <1>10
  <2>4. n \in cold => log'[n] = <<>>
    BY <1>3, <1>5
  <2> QED BY <2>1, <2>2, <2>3, <2>4, <1>3, <1>4, <1>11, OneNode DEF Copies
<1>13. /\ Tracked' = Tracked /\ ~Splitting' /\ ~Moved' /\ ~Logged' /\ client'.at = "idle"
       /\ \A k : InnerOf(k)' = InnerOf(k) /\ LeafOf(k)' = LeafOf(k)
       /\ \A m : Owner(m)' => Owner(m)
  <2>1. client'.at = "idle"
    BY DEF WriteCold, Idle
  <2> QED BY <2>1, <1>3 DEF Tracked, Splitting, Moved, Logged, InnerOf, LeafOf, Owner
<1>14. Placed'
  <2> SUFFICES ASSUME NEW k \in Tracked', NEW m \in Nodes, Owner(m)'
               PROVE  Stays(m, k)' <=> At(k)' = m /\ Now(k)'
    BY DEF Placed
  <2>1. At(k)' = InnerOf(k) /\ k \in Tracked /\ k \in Keys /\ Owner(m) /\ <<1>> # <<>>
    BY <1>13 DEF At, Tracked
  <2>2. Now(k)' <=> IF k = q THEN client.op = "insert" ELSE acked[k] # <<>>
    BY <2>1, <1>6, <1>13 DEF Now
  <2>4. Stays(m, k) <=> InnerOf(k) = m /\ acked[k] # <<>>
    BY <2>1, <1>4
  <2>5. CASE m = n
    BY <2>1, <2>2, <2>4, <2>5, <1>2, <1>9, <1>10
  <2>6. CASE m # n
    BY <2>1, <2>2, <2>4, <2>6, <1>2, <1>12
  <2> QED BY <2>5, <2>6
<1>15. Pending' /\ PieceKeys' /\ HotCall'
  BY <1>13 DEF Pending, PieceKeys, HotCall, Splitting
<1>16. Answers'
  BY <1>6, <1>13 DEF Copies, Answers
<1>17. HotData'
  <2> SUFFICES ASSUME NEW x \in DOMAIN leaves, NEW k \in Tracked, leaves[x].inner \notin cold
               PROVE  leaves[x].data[k] = IF LeafOf(k) = x THEN acked'[k] ELSE <<>>
    BY <1>3, <1>13 DEF HotData
  <2>1. leaves[x].data[k] = IF LeafOf(k) = x THEN acked[k] ELSE <<>>
    BY DEF Copies, HotData
  <2>2. k = q => LeafOf(k) # x
    BY <1>2, <1>3 DEF InnerOf
  <2> QED BY <2>1, <2>2, <1>6 DEF Tracked
<1> QED BY <1>12, <1>14, <1>15, <1>16, <1>17 DEF Copies

-----------------------------------------------------------------------------
(* A leaf is divided.                                                      *)

(* Every key has a leaf after a step.                                      *)
LEMMA NextLeaf ==
  ASSUME State', NEW k \in Keys
  PROVE  /\ LeafOf(k)' \in DOMAIN leaves' /\ leaves'[LeafOf(k)'].from <= k
         /\ InnerOf(k)' = leaves'[LeafOf(k)'].inner
         /\ \A j \in DOMAIN leaves' : LeafOf(k)' < j => k < leaves'[j].from
<1> DEFINE S == {x \in DOMAIN leaves' : leaves'[x].from <= k}
<1>1. /\ leaves' \in Seq(LeafType) /\ leaves' # <<>> /\ leaves'[1].from = 0 /\ k \in Nat
  BY KeysAssumption DEF State, TypeOK, Sorted
<1>2. DOMAIN leaves' = 1 .. Len(leaves') /\ Len(leaves') \in Nat \ {0}
  BY <1>1
<1>3. \A x \in DOMAIN leaves' : leaves'[x].from \in Nat
  <2>1. \A x \in DOMAIN leaves' : leaves'[x] \in LeafType
    BY <1>1
  <2> QED BY <2>1 DEF LeafType
<1>4. S \in SUBSET (1 .. Len(leaves')) /\ IsFiniteSet(1 .. Len(leaves')) /\ 1 \in S
  <2>1. IsFiniteSet(1 .. Len(leaves'))
    BY <1>2, FS_Interval
  <2>2. 1 \in DOMAIN leaves' /\ 0 <= k
    BY <1>1, <1>2
  <2> QED BY <2>1, <2>2, <1>1, <1>2
<1>5. S \in SUBSET Int /\ IsFiniteSet(S) /\ S # {}
  <2>1. IsFiniteSet(S)
    <3> HIDE DEF S
    <3> QED BY <1>4, FS_Subset
  <2> QED BY <1>4, <2>1
<1>6. PICK i \in S : \A x \in S : x <= i
  <2> HIDE DEF S
  <2> QED BY <1>5, EndsOf
<1>7. i \in DOMAIN leaves' /\ leaves'[i].from <= k
  BY <1>6
<1>8. \A j \in DOMAIN leaves' : i < j => k < leaves'[j].from
  <2> TAKE j \in DOMAIN leaves'
  <2> HAVE i < j
  <2>1. j \notin S
    BY <1>2, <1>6, <1>7
  <2> QED BY <2>1, <1>1, <1>3
<1> QED BY <1>7, <1>8, NextHome

(* A piece begins where the leaf did or at a key of B, and has the leaf's  *)
(* data of the keys up to the next piece.                                  *)
LEMMA DivideData ==
  ASSUME TypeOK, Sorted, NEW i \in DOMAIN leaves, NEW B \in SUBSET Keys, Inside(i, B),
         NEW n, n = Cardinality(B), NEW d, d = Divide(i, B)
  PROVE  \A j \in 1 .. n + 1 :
           /\ d[j].from \in {leaves[i].from} \cup B
           /\ \A k \in Keys : d[j].data[k] = IF d[j].from <= k /\ (j < n + 1 => k < d[j + 1].from)
                                             THEN leaves[i].data[k] ELSE <<>>
<1> DEFINE f == leaves[i].from
           S == {f} \cup B
           starts == Ordered(S)
           in(j, k) == starts[j] <= k /\ (j < Len(starts) => k < starts[j + 1])
<1>1. IsFiniteSet(B) /\ B \in SUBSET Nat /\ f \in Nat /\ f \notin B /\ n \in Nat
  <2>1. IsFiniteSet(B) /\ B \in SUBSET Nat
    BY KeysAssumption, FS_Subset
  <2>2. f \in Nat
    BY LeafTypes
  <2>3. \A b \in B : f < b
    BY DEF Inside
  <2>4. f \notin B
    <3> HIDE DEF f
    <3> QED BY <2>2, <2>3
  <2>5. n \in Nat
    BY <2>1, FS_CardinalityType
  <2> QED BY <2>1, <2>2, <2>4, <2>5
<1>2. S \in SUBSET Int /\ IsFiniteSet(S) /\ Cardinality(S) = n + 1
  <2>1. S = B \cup {f}
    OBVIOUS
  <2> HIDE DEF f, S
  <2>2. IsFiniteSet(B \cup {f}) /\ Cardinality(B \cup {f}) = n + 1
    BY <1>1, FS_AddElement
  <2> QED BY <2>1, <2>2, <1>1
<1>3. starts \in [1 .. n + 1 -> S]
  <2> HIDE DEF S
  <2> QED BY <1>2, OrderedIs
<1>4. Len(starts) = n + 1 /\ DOMAIN starts = 1 .. n + 1
  <2> HIDE DEF starts, S
  <2> QED BY <1>1, <1>3
<1>5. d = [j \in 1 .. n + 1 |-> Leaf(leaves[i].inner, starts[j],
             [k \in Keys |-> IF in(j, k) THEN leaves[i].data[k] ELSE <<>>])]
  BY <1>4 DEF Divide
<1>6. \A j \in 1 .. n + 1 :
        /\ d[j].from = starts[j]
        /\ \A k \in Keys : d[j].data[k] = IF starts[j] <= k /\ (j < n + 1 => k < starts[j + 1])
                                          THEN leaves[i].data[k] ELSE <<>>
  <2> TAKE j \in 1 .. n + 1
  <2> DEFINE data == [k \in Keys |-> IF in(j, k) THEN leaves[i].data[k] ELSE <<>>]
  <2>1. d[j] = [inner |-> leaves[i].inner, from |-> starts[j], data |-> data]
    BY <1>5 DEF Leaf
  <2>2. \A k \in Keys : data[k] = IF starts[j] <= k /\ (j < n + 1 => k < starts[j + 1])
                                  THEN leaves[i].data[k] ELSE <<>>
    <3> HIDE DEF starts
    <3> QED BY <1>4
  <2> HIDE DEF data, starts
  <2>3. d[j].from = starts[j] /\ d[j].data = data
    BY <2>1
  <2> QED BY <2>2, <2>3
<1> HIDE DEF starts, S
<1>7. ASSUME NEW j \in 1 .. n + 1 PROVE d[j].from \in S
  BY <1>3, <1>6
<1>8. ASSUME NEW j \in 1 .. n + 1, NEW k \in Keys
      PROVE  d[j].data[k] = IF d[j].from <= k /\ (j < n + 1 => k < d[j + 1].from) THEN leaves[i].data[k] ELSE <<>>
  <2>1. j < n + 1 => j + 1 \in 1 .. n + 1
    BY <1>1
  <2>2. d[j].from = starts[j] /\ (j < n + 1 => d[j + 1].from = starts[j + 1])
    BY <2>1, <1>6
  <2>3. d[j].data[k] = IF starts[j] <= k /\ (j < n + 1 => k < starts[j + 1]) THEN leaves[i].data[k] ELSE <<>>
    BY <1>6
  <2> QED BY <2>2, <2>3
<1> QED BY <1>7, <1>8 DEF S

(* What the leaves are after leaf i is divided.                            *)
Divided(i, n, B) ==
  /\ i \in DOMAIN leaves /\ n \in Nat /\ DOMAIN leaves' = 1 .. Len(leaves) + n
  /\ \A x \in 1 .. i - 1 : leaves'[x] = leaves[x]
  /\ \A x \in i + n + 1 .. Len(leaves) + n : leaves'[x] = leaves[x - n]
  /\ \A x, y \in DOMAIN leaves' : x < y => leaves'[x].from < leaves'[y].from
  /\ \A x \in DOMAIN leaves' : leaves'[x].from \in Nat
  /\ leaves'[i].from = leaves[i].from
  /\ \A x \in i .. i + n :
       /\ leaves'[x].inner = leaves[i].inner /\ leaves'[x].from \in {leaves[i].from} \cup B
       /\ \A k \in Keys : leaves'[x].data[k] = IF leaves'[x].from <= k /\ (x < i + n => k < leaves'[x + 1].from)
                                               THEN leaves[i].data[k] ELSE <<>>

(* Divide gives the pieces of leaf i: they start at the keys of B.         *)
LEMMA DividedIs ==
  ASSUME State, NEW i \in DOMAIN leaves, NEW B \in SUBSET Keys, Inside(i, B),
         leaves' = Replace(i, Divide(i, B)), NEW n, n = Cardinality(B)
  PROVE  Divided(i, n, B) /\ \A j \in 1 .. n + 1 : leaves'[i - 1 + j] = Divide(i, B)[j]
<1>0. TypeOK /\ Sorted
  BY DEF State
<1>1. PICK d : d = Divide(i, B)
  OBVIOUS
<1>2. PICK m : m = Len(leaves)
  OBVIOUS
<1>3. /\ n \in Nat /\ leaves' \in Seq(LeafType) /\ Len(leaves') = m + n
      /\ \A x \in 1 .. i - 1 : leaves'[x] = leaves[x]
      /\ \A x \in i .. i + n : leaves'[x].inner = leaves[i].inner
      /\ \A x \in i + n + 1 .. m + n : leaves'[x] = leaves[x - n]
      /\ \A x, y \in DOMAIN leaves' : x < y => leaves'[x].from < leaves'[y].from
  BY <1>0, <1>2, DividedLeaves
<1>4. /\ d \in Seq(LeafType) /\ Len(d) = n + 1 /\ d[1].from = leaves[i].from
  BY <1>0, <1>1, DivideIs
<1>5. \A j \in 1 .. n + 1 :
           /\ d[j].from \in {leaves[i].from} \cup B
           /\ \A k \in Keys : d[j].data[k] = IF d[j].from <= k /\ (j < n + 1 => k < d[j + 1].from)
                                             THEN leaves[i].data[k] ELSE <<>>
  BY <1>0, <1>1, DivideData
<1>6. m \in Nat /\ i \in 1 .. m /\ DOMAIN leaves = 1 .. m /\ leaves \in Seq(LeafType)
  BY <1>0, <1>2, LeafTypes
<1>7. \A j \in 1 .. n + 1 : leaves'[i - 1 + j] = d[j]
  <2>1. PICK a \in Nat : a = i - 1
    BY <1>6
  <2>2. PICK b \in Nat : b = i + 1
    BY <1>6
  <2>3. leaves' = SubSeq(leaves, 1, a) \o d \o SubSeq(leaves, b, Len(leaves))
    BY <2>1, <2>2, <1>1 DEF Replace
  <2>4. a < b /\ b <= Len(leaves) + 1
    BY <2>1, <2>2, <1>2, <1>6
  <2>5. Spliced(leaves', leaves, a, d, b)
    BY <2>3, <2>4, <1>4, <1>6, SpliceIs
  <2>6. \A j \in 1 .. n + 1 : leaves'[a + j] = d[j]
    BY <2>5, <1>4 DEF Spliced
  <2> QED BY <2>1, <2>6
<1>8. ASSUME NEW x \in i .. i + n
      PROVE  /\ leaves'[x].from \in {leaves[i].from} \cup B
             /\ \A k \in Keys : leaves'[x].data[k] = IF leaves'[x].from <= k /\ (x < i + n => k < leaves'[x + 1].from)
                                                     THEN leaves[i].data[k] ELSE <<>>
  <2>1. PICK j \in 1 .. n + 1 : j = x - i + 1
    BY <1>3, <1>6
  <2>2. leaves'[x] = d[j]
    <3>1. i - 1 + j = x
      BY <2>1, <1>3, <1>6
    <3> QED BY <3>1, <1>7
  <2>3. (x < i + n <=> j < n + 1) /\ (j < n + 1 => leaves'[x + 1] = d[j + 1])
    <3>1. i \in Int /\ n \in Nat
      BY <1>3, <1>6
    <3>2. i - 1 + (j + 1) = x + 1 /\ (j < n + 1 => j + 1 \in 1 .. n + 1) /\ (x < i + n <=> j < n + 1)
      BY <3>1, <2>1
    <3> QED BY <3>2, <1>7
  <2> QED BY <2>2, <2>3, <1>5
<1>9. leaves'[i].from = leaves[i].from
  <2>1. 1 \in 1 .. n + 1 /\ i - 1 + 1 = i
    BY <1>3, <1>6
  <2> QED BY <2>1, <1>4, <1>7
<1>10. DOMAIN leaves' = 1 .. m + n
  BY <1>3
<1>11. \A x \in DOMAIN leaves' : leaves'[x].from \in Nat
  <2>1. \A x \in DOMAIN leaves' : leaves'[x] \in LeafType
    BY <1>3
  <2> QED BY <2>1 DEF LeafType
<1>12. Divided(i, n, B)
  BY <1>2, <1>3, <1>8, <1>9, <1>10, <1>11 DEF Divided
<1> QED BY <1>1, <1>7, <1>12

(* The keys of a leaf that is divided are those of its pieces.             *)
LEMMA DividedHomes ==
  ASSUME State, State', NEW i, NEW n, NEW B, Divided(i, n, B), NEW k \in Keys
  PROVE  /\ LeafOf(k) < i => LeafOf(k)' = LeafOf(k)
         /\ LeafOf(k) > i => LeafOf(k)' = LeafOf(k) + n
         /\ LeafOf(k) = i => LeafOf(k)' \in i .. i + n
         /\ InnerOf(k)' = InnerOf(k)
<1> DEFINE h == LeafOf(k)
           m == Len(leaves)
<1>1. /\ h \in DOMAIN leaves /\ leaves[h].from <= k /\ InnerOf(k) = leaves[h].inner
      /\ \A j \in DOMAIN leaves : h < j => k < leaves[j].from
      /\ DOMAIN leaves = 1 .. m /\ m \in Nat /\ k \in Nat
      /\ \A x \in DOMAIN leaves : leaves[x].from \in Nat
  BY Home
<1>2. /\ i \in 1 .. m /\ n \in Nat /\ DOMAIN leaves' = 1 .. m + n
      /\ \A x \in 1 .. i - 1 : leaves'[x] = leaves[x]
      /\ \A x \in i + n + 1 .. m + n : leaves'[x] = leaves[x - n]
      /\ \A x, y \in DOMAIN leaves' : x < y => leaves'[x].from < leaves'[y].from
      /\ \A x \in DOMAIN leaves' : leaves'[x].from \in Nat
      /\ leaves'[i].from = leaves[i].from
      /\ \A x \in i .. i + n : leaves'[x].inner = leaves[i].inner
  BY <1>1 DEF Divided
<1>3. /\ LeafOf(k)' \in DOMAIN leaves' /\ leaves'[LeafOf(k)'].from <= k
      /\ InnerOf(k)' = leaves'[LeafOf(k)'].inner
      /\ \A j \in DOMAIN leaves' : LeafOf(k)' < j => k < leaves'[j].from
  BY NextLeaf
<1>4. PICK g : g = LeafOf(k)'
  OBVIOUS
<1> HIDE DEF h, m
<1>5. h \in Int /\ g \in Int /\ i \in Int /\ n \in Int /\ n >= 0 /\ m \in Int /\ 1 <= i /\ i <= m
      /\ 1 <= h /\ h <= m /\ 1 <= g /\ g <= m + n
  BY <1>1, <1>2, <1>3, <1>4
<1>6. ASSUME NEW x \in DOMAIN leaves', leaves'[x].from <= k,
             \A j \in DOMAIN leaves' : x < j => k < leaves'[j].from
      PROVE  LeafOf(k)' = x /\ InnerOf(k)' = leaves'[x].inner
  BY <1>6, NextHome
<1>7. CASE h < i
  <2>1. h \in 1 .. i - 1 /\ h \in DOMAIN leaves'
    BY <1>2, <1>5, <1>7
  <2>2. leaves'[h] = leaves[h]
    BY <2>1, <1>2
  <2>3. ASSUME NEW j \in DOMAIN leaves', h < j PROVE k < leaves'[j].from
    <3>1. CASE j <= i
      <4>1. j \in DOMAIN leaves /\ leaves'[j].from = leaves[j].from
        BY <3>1, <1>1, <1>2, <1>5
      <4> QED BY <4>1, <2>3, <1>1
    <3>2. CASE i < j
      <4>1. i \in DOMAIN leaves /\ i \in DOMAIN leaves'
        BY <1>1, <1>2, <1>5
      <4>2. k < leaves[i].from /\ leaves'[i].from < leaves'[j].from
        BY <4>1, <3>2, <1>1, <1>2, <1>7
      <4> QED BY <4>1, <4>2, <1>1, <1>2
    <3> QED BY <3>1, <3>2, <1>2, <1>5
  <2>4. LeafOf(k)' = h /\ InnerOf(k)' = leaves'[h].inner
    BY <2>1, <2>2, <2>3, <1>1, <1>6
  <2> QED BY <2>2, <2>4, <1>1, <1>5, <1>7 DEF h
<1>8. CASE h > i
  <2>1. h + n \in i + n + 1 .. m + n /\ h + n \in DOMAIN leaves' /\ (h + n) - n = h
    BY <1>2, <1>5, <1>8
  <2>2. leaves'[h + n] = leaves[h]
    BY <2>1, <1>2
  <2>3. ASSUME NEW j \in DOMAIN leaves', h + n < j PROVE k < leaves'[j].from
    <3>1. j \in i + n + 1 .. m + n /\ j - n \in DOMAIN leaves /\ h < j - n
      BY <2>3, <1>1, <1>2, <1>5, <1>8
    <3> QED BY <3>1, <1>1, <1>2
  <2>4. LeafOf(k)' = h + n /\ InnerOf(k)' = leaves'[h + n].inner
    BY <2>1, <2>2, <2>3, <1>1, <1>6
  <2> QED BY <2>2, <2>4, <1>1, <1>5, <1>8 DEF h
<1>9. CASE h = i
  <2>1. i <= g
    <3>1. i \in DOMAIN leaves' /\ leaves'[i].from <= k
      BY <1>1, <1>2, <1>5, <1>9
    <3>2. ~(g < i)
      BY <3>1, <1>1, <1>2, <1>3, <1>4
    <3> QED BY <3>2, <1>5
  <2>2. g <= i + n
    <3> SUFFICES ASSUME g > i + n PROVE FALSE
      BY <1>5
    <3>0. DOMAIN leaves = 1 .. m
      BY <1>1
    <3>1. g \in i + n + 1 .. m + n /\ g - n \in DOMAIN leaves /\ h < g - n
      BY <3>0, <1>5, <1>9
    <3>2. k < leaves[g - n].from /\ leaves'[g] = leaves[g - n]
      BY <3>1, <1>1, <1>2
    <3>3. leaves[g - n].from \in Nat /\ leaves'[g].from <= k
      BY <3>1, <1>1, <1>3, <1>4
    <3> QED BY <3>2, <3>3, <1>1
  <2>3. g \in i .. i + n
    BY <2>1, <2>2, <1>5
  <2>4. InnerOf(k)' = leaves[i].inner
    BY <2>3, <1>2, <1>3, <1>4
  <2> QED BY <2>3, <2>4, <1>1, <1>4, <1>5, <1>9 DEF h
<1> QED BY <1>5, <1>7, <1>8, <1>9

(* A hot leaf that is divided and the other leaves hold their keys.        *)
LEMMA DividedData ==
  ASSUME State, State', HotData, NEW i, NEW n, NEW B, Divided(i, n, B), UNCHANGED <<acked, cold>>,
         Tracked' \subseteq Tracked
  PROVE  HotData'
<1> SUFFICES ASSUME NEW x \in DOMAIN leaves', NEW k \in Tracked', leaves'[x].inner \notin cold'
             PROVE  leaves'[x].data[k] = IF LeafOf(k)' = x THEN acked'[k] ELSE <<>>
  BY DEF HotData
<1> DEFINE h == LeafOf(k)
           m == Len(leaves)
<1>1. k \in Tracked /\ k \in Keys /\ acked' = acked /\ cold' = cold
  BY DEF Tracked
<1>2. /\ h \in DOMAIN leaves /\ DOMAIN leaves = 1 .. m /\ m \in Nat /\ k \in Nat
  BY <1>1, Home
<1>3. /\ i \in 1 .. m /\ n \in Nat /\ DOMAIN leaves' = 1 .. m + n
      /\ \A y \in 1 .. i - 1 : leaves'[y] = leaves[y]
      /\ \A y \in i + n + 1 .. m + n : leaves'[y] = leaves[y - n]
      /\ \A y, z \in DOMAIN leaves' : y < z => leaves'[y].from < leaves'[z].from
      /\ \A y \in DOMAIN leaves' : leaves'[y].from \in Nat
      /\ \A y \in i .. i + n :
           /\ leaves'[y].inner = leaves[i].inner
           /\ leaves'[y].data[k] = IF leaves'[y].from <= k /\ (y < i + n => k < leaves'[y + 1].from)
                                   THEN leaves[i].data[k] ELSE <<>>
  BY <1>1, <1>2 DEF Divided
<1>4. PICK g : g = LeafOf(k)'
  OBVIOUS
<1>5. /\ g \in DOMAIN leaves' /\ leaves'[g].from <= k
      /\ \A j \in DOMAIN leaves' : g < j => k < leaves'[j].from
  BY <1>1, <1>4, NextLeaf
<1>6. /\ h < i => g = h
      /\ h > i => g = h + n
      /\ h = i => g \in i .. i + n
  BY <1>1, <1>4, DividedHomes
<1>7. \A y \in DOMAIN leaves : leaves[y].inner \notin cold => leaves[y].data[k] = IF h = y THEN acked[k] ELSE <<>>
  BY <1>1 DEF HotData
<1> HIDE DEF h, m
<1>8. h \in Int /\ g \in Int /\ i \in Int /\ n \in Int /\ n >= 0 /\ m \in Int /\ 1 <= i /\ i <= m
      /\ 1 <= h /\ h <= m /\ x \in Int
      /\ 1 <= x /\ x <= m + n
  BY <1>2, <1>3, <1>5
<1>9. CASE x < i
  <2>1. x \in 1 .. i - 1 /\ x \in DOMAIN leaves /\ (h = x <=> g = x)
    BY <1>2, <1>6, <1>8, <1>9
  <2> QED BY <2>1, <1>1, <1>3, <1>4, <1>7
<1>10. CASE x > i + n
  <2>0. DOMAIN leaves = 1 .. m
    BY <1>2
  <2>1. x \in i + n + 1 .. m + n /\ x - n \in DOMAIN leaves
    BY <2>0, <1>8, <1>10
  <2>2. h = x - n <=> g = x
    <3>1. h < i => g < i
      BY <1>6
    <3>2. h = i => i <= g /\ g <= i + n
      BY <1>6, <1>8
    <3>3. h > i => g = h + n
      BY <1>6
    <3> QED BY <3>1, <3>2, <3>3, <1>8, <1>10
  <2>3. leaves'[x] = leaves[x - n]
    BY <2>1, <1>3
  <2> QED BY <2>1, <2>2, <2>3, <1>1, <1>4, <1>7
<1>11. CASE i <= x /\ x <= i + n
  <2>1. x \in i .. i + n /\ i \in DOMAIN leaves
    BY <1>2, <1>8, <1>11
  <2>2. leaves[i].data[k] = IF h = i THEN acked[k] ELSE <<>>
    BY <2>1, <1>1, <1>3, <1>7
  <2>3. leaves'[x].data[k] = IF leaves'[x].from <= k /\ (x < i + n => k < leaves'[x + 1].from)
                             THEN leaves[i].data[k] ELSE <<>>
    BY <2>1, <1>3
  <2>4. CASE h # i
    <3>1. g # x
      BY <2>4, <1>6, <1>8, <1>11
    <3> QED BY <3>1, <2>2, <2>3, <2>4, <1>1, <1>4
  <2>5. CASE h = i /\ g = x
    <3>1. x < i + n => x + 1 \in DOMAIN leaves' /\ x < x + 1
      BY <1>3, <1>8, <1>11
    <3>2. leaves'[x].from <= k /\ (x < i + n => k < leaves'[x + 1].from)
      BY <3>1, <2>5, <1>5
    <3> QED BY <3>2, <2>2, <2>3, <2>5, <1>1, <1>4
  <2>6. CASE h = i /\ g < x
    <3>1. k < leaves'[x].from /\ leaves'[x].from \in Nat
      BY <2>6, <1>3, <1>5
    <3>2. ~(leaves'[x].from <= k)
      BY <3>1, <1>2
    <3> QED BY <3>2, <2>3, <2>6, <1>4, <1>8
  <2>7. CASE h = i /\ x < g
    <3>1. x < i + n /\ x + 1 \in DOMAIN leaves' /\ (x + 1 = g \/ x + 1 < g)
      BY <2>7, <1>3, <1>6, <1>8, <1>11
    <3>2. leaves'[x + 1].from <= leaves'[g].from /\ leaves'[x + 1].from \in Nat /\ leaves'[g].from \in Nat
      BY <3>1, <1>3, <1>5
    <3>3. ~(k < leaves'[x + 1].from)
      BY <3>2, <1>2, <1>5
    <3> QED BY <3>1, <3>3, <2>3, <2>7, <1>4, <1>8
  <2> QED BY <2>4, <2>5, <2>6, <2>7, <1>8
<1> QED BY <1>8, <1>9, <1>10, <1>11

(* Steps before the latch of a split is set, or after the leaf has its     *)
(* node.                                                                   *)
LEMMA UnmovedPlaced ==
  ASSUME Placed, ~Moved, ~Moved', Tracked' \subseteq Tracked,
         \A m \in Nodes, k \in Tracked' : Stays(m, k)' <=> Stays(m, k),
         \A m \in Nodes : Owner(m)' => Owner(m),
         \A k \in Tracked' : (Now(k)' <=> Now(k)) /\ InnerOf(k)' = InnerOf(k)
  PROVE  Placed'
<1>1. \A k : At(k) = InnerOf(k) /\ At(k)' = InnerOf(k)'
  BY DEF At
<1> QED BY <1>1 DEF Placed

(* A leaf is divided; its pieces still have its inner node.                *)
LEMMA DividedKeeps ==
  ASSUME State, State', Copies, NEW i, NEW n, NEW B, Divided(i, n, B), ~Moved,
         UNCHANGED <<tree, log, worker, created, cold, acked>>, Tracked' \subseteq Tracked,
         client.at \in {"leaf", "write"}, client'.at = "split", client'.key = client.key, client'.op = client.op,
         \A k \in Keys : Now(k)' <=> Now(k),
         \A j \in DOMAIN client'.todo : client'.todo[j] \in i .. i + n
  PROVE  /\ Trees' /\ Placed' /\ Pending' /\ Answers' /\ HotData'
         /\ \A k \in Keys : InnerOf(k)' = InnerOf(k)
         /\ \A j \in DOMAIN client'.todo :
              \A q \in Present(leaves'[client'.todo[j]].data) : leaves'[client'.todo[j]].from <= q
<1>1. Trees' /\ \A m, k : Stays(m, k)' <=> Stays(m, k)
  <2>1. created \subseteq created' /\ \A m \in cold' : log[m] = <<>>
    BY DEF Copies, Trees
  <2> QED BY <2>1, SameNVM DEF Copies
<1>2. \A k \in Keys : InnerOf(k)' = InnerOf(k)
  BY DividedHomes
<1>3. \A m : Owner(m)' => Owner(m)
  <2>1. ASSUME NEW x \in DOMAIN leaves' PROVE \E y \in DOMAIN leaves : leaves[y].inner = leaves'[x].inner
    <3>1. DOMAIN leaves = 1 .. Len(leaves) /\ Len(leaves) \in Nat
      BY LeafTypes DEF State
    <3>2. /\ i \in DOMAIN leaves /\ n \in Nat /\ DOMAIN leaves' = 1 .. Len(leaves) + n
          /\ \A y \in 1 .. i - 1 : leaves'[y] = leaves[y]
          /\ \A y \in i + n + 1 .. Len(leaves) + n : leaves'[y] = leaves[y - n]
          /\ \A y \in i .. i + n : leaves'[y].inner = leaves[i].inner
      BY DEF Divided
    <3>3. PICK m : m = Len(leaves)
      OBVIOUS
    <3>4. m \in Nat /\ i \in 1 .. m /\ n \in Nat /\ x \in 1 .. m + n /\ DOMAIN leaves = 1 .. m
      BY <3>1, <3>2, <3>3
    <3>5. CASE x \in 1 .. i - 1
      <4>1. x \in DOMAIN leaves
        BY <3>4, <3>5
      <4> QED BY <4>1, <3>2, <3>5
    <3>6. CASE x \in i .. i + n
      BY <3>2, <3>6
    <3>7. CASE x \in i + n + 1 .. m + n
      <4>1. x - n \in DOMAIN leaves
        BY <3>4, <3>7
      <4> QED BY <4>1, <3>2, <3>3, <3>7
    <3>8. x \in 1 .. i - 1 \/ x \in i .. i + n \/ x \in i + n + 1 .. m + n
      BY <3>4
    <3> QED BY <3>5, <3>6, <3>7, <3>8
  <2> QED BY <2>1 DEF Owner, Moved
<1>4. ~Moved'
  BY DEF Moved
<1>5. Placed'
  <2>1. \A k \in Tracked' : (Now(k)' <=> Now(k)) /\ InnerOf(k)' = InnerOf(k)
    BY <1>2 DEF Tracked
  <2> QED BY <2>1, <1>1, <1>3, <1>4, UnmovedPlaced DEF Copies
<1>6. Pending'
  BY DEF Pending
<1>7. Answers'
  BY DEF Copies, Answers
<1>8. HotData'
  BY DividedData DEF Copies
<1>9. \A x \in i .. i + n : \A q \in Present(leaves'[x].data) : leaves'[x].from <= q
  BY DEF Divided, Present
<1> QED BY <1>1, <1>2, <1>5, <1>6, <1>7, <1>8, <1>9

(* A leaf is split and its pieces get new nodes: the insert that splits it *)
(* moves with its piece, unless it is astray from now on.                  *)
LEMMA SplitLeafKeepsCopies ==
  ASSUME State, State', Copies, NEW b \in Keys, SplitLeaf("fanout", b)
  PROVE  Copies'
<1>0. PICK q : q = client.key
  OBVIOUS
<1>1. PICK i : i = LeafOf(q)
  OBVIOUS
<1>2. PICK d : d = Divide(i, {b})
  OBVIOUS
<1>3. PICK home : home = Present(d[IF q < b THEN 1 ELSE 2].data)
  OBVIOUS
<1>4. /\ client.at = "leaf" /\ Inside(i, {b}) /\ leaves' = Replace(i, d)
      /\ client' = [client EXCEPT !.at = "split", !.old = leaves[i].inner, !.then = "leaf", !.todo = <<i + 1, i>>]
      /\ UNCHANGED <<tree, log, worker, created, cold, acked>>
      /\ astray' = IF Between(home, q) THEN astray ELSE astray \cup {q}
  BY <1>0, <1>1, <1>2, <1>3 DEF SplitLeaf, nvm, Between
<1>5. q \in Keys /\ i \in DOMAIN leaves /\ i \in Nat
  <2>1. q \in Keys
    BY <1>0, <1>4 DEF State, Begun
  <2>2. i \in DOMAIN leaves /\ DOMAIN leaves = 1 .. Len(leaves)
    BY <2>1, <1>1, Home
  <2> QED BY <2>1, <2>2
<1>6. Divided(i, 1, {b}) /\ \A j \in 1 .. 2 : leaves'[i - 1 + j] = d[j]
  <2>1. Cardinality({b}) = 1 /\ {b} \in SUBSET Keys
    BY FS_Singleton
  <2>2. 1 + 1 = 2
    OBVIOUS
  <2>3. Divided(i, 1, {b}) /\ \A j \in 1 .. 1 + 1 : leaves'[i - 1 + j] = d[j]
    BY <2>1, <1>2, <1>4, <1>5, DividedIs
  <2> QED BY <2>2, <2>3
<1>7. /\ client'.at = "split" /\ client'.old = leaves[i].inner /\ client'.todo = <<i + 1, i>> /\ client'.then = "leaf"
      /\ client'.key = q /\ client'.op = client.op
  <2>1. client \in ClientType
    BY DEF State, TypeOK
  <2> QED BY <2>1, <1>0, <1>4 DEF ClientType
<1>8. Tracked' \subseteq Tracked
  BY <1>4 DEF Tracked
<1>9. ~Moved /\ Logged /\ Logged' /\ Splitting'
  BY <1>4, <1>7 DEF Moved, Logged, Splitting
<1>10. \A k \in Keys : Now(k)' <=> Now(k)
  BY <1>0, <1>4, <1>7, <1>9 DEF Now
<1>11. \A j \in DOMAIN client'.todo : client'.todo[j] \in i .. i + 1
  <2>1. i + 1 \in i .. i + 1 /\ i \in i .. i + 1
    BY <1>5
  <2>2. DOMAIN <<i + 1, i>> = {1, 2} /\ <<i + 1, i>>[1] = i + 1 /\ <<i + 1, i>>[2] = i
    OBVIOUS
  <2> QED BY <2>1, <2>2, <1>7
<1>12. /\ Trees' /\ Placed' /\ Pending' /\ Answers' /\ HotData'
       /\ \A k \in Keys : InnerOf(k)' = InnerOf(k)
       /\ \A j \in DOMAIN client'.todo :
            \A k \in Present(leaves'[client'.todo[j]].data) : leaves'[client'.todo[j]].from <= k
  BY <1>0, <1>4, <1>6, <1>7, <1>8, <1>9, <1>10, <1>11, DividedKeeps
<1>13. HotCall'
  <2>1. InnerOf(q) \notin cold /\ InnerOf(q) = leaves[i].inner
    BY <1>0, <1>1, <1>5, <1>9 DEF Copies, HotCall, InnerOf
  <2>2. InnerOf(q)' = InnerOf(q)
    BY <1>5, <1>12
  <2>3. Splitting' => client'.old \notin cold'
    BY <2>1, <1>4, <1>7
  <2>4. \A k \in Keys : k = client'.key => InnerOf(k)' \notin cold'
    <3> TAKE k \in Keys
    <3>1. InnerOf(k)' = InnerOf(k)
      BY <1>12
    <3> QED BY <3>1, <2>1, <1>4, <1>7
  <2> QED BY <2>3, <2>4 DEF HotCall
<1>14. q \in Tracked' => Between(home, q)
  BY <1>4 DEF Tracked
<1>15. PICK g : g = LeafOf(q)'
  OBVIOUS
<1>16. g = IF q < b THEN i ELSE i + 1
  <2>1. g \in i .. i + 1
    BY <1>1, <1>5, <1>6, <1>15, DividedHomes
  <2>2. g = i \/ g = i + 1
    BY <2>1, <1>5
  <2>3. /\ i \in DOMAIN leaves' /\ i + 1 \in DOMAIN leaves' /\ leaves'[i].from = leaves[i].from
        /\ leaves'[i + 1].from \in {leaves[i].from} \cup {b} /\ leaves'[i].from < leaves'[i + 1].from
        /\ leaves'[i].from \in Nat
    <3>1. DOMAIN leaves' = 1 .. Len(leaves) + 1 /\ i \in 1 .. Len(leaves) /\ Len(leaves) \in Nat
      BY <1>5, <1>6, LeafTypes DEF Divided, State
    <3>2. i \in DOMAIN leaves' /\ i + 1 \in DOMAIN leaves' /\ i < i + 1 /\ i + 1 \in i .. i + 1
      BY <3>1, <1>5
    <3> QED BY <3>2, <1>6 DEF Divided
  <2>4. leaves'[i + 1].from = b /\ b \in Nat /\ q \in Nat
    <3>1. leaves'[i + 1].from # leaves[i].from
      BY <2>3
    <3> QED BY <3>1, <2>3, <1>5, KeysAssumption
  <2>5. /\ g \in DOMAIN leaves' /\ leaves'[g].from <= q
        /\ \A j \in DOMAIN leaves' : g < j => q < leaves'[j].from
    BY <1>5, <1>15, NextLeaf
  <2>6. CASE q < b
    BY <2>2, <2>4, <2>5, <2>6
  <2>7. CASE ~(q < b)
    <3>1. g # i
      BY <2>3, <2>4, <2>5, <2>7, <1>5
    <3> QED BY <3>1, <2>2, <2>7
  <2> QED BY <2>6, <2>7
<1>17. leaves'[g].data = d[IF q < b THEN 1 ELSE 2].data
  <2>1. i - 1 + 1 = i /\ i - 1 + 2 = i + 1 /\ 1 \in 1 .. 2 /\ 2 \in 1 .. 2
    BY <1>5
  <2>2. leaves'[i] = d[1] /\ leaves'[i + 1] = d[2]
    BY <2>1, <1>6
  <2> QED BY <2>2, <1>16
<1>18. PieceKeys'
  <2>1. \A k \in Tracked' : k = client'.key => Between(Present(leaves'[LeafOf(k)'].data), k)
    <3> SUFFICES ASSUME q \in Tracked' PROVE Between(Present(leaves'[g].data), q)
      BY <1>7, <1>15
    <3> QED BY <1>3, <1>14, <1>17
  <2> QED BY <2>1, <1>12 DEF PieceKeys, Between, Present
<1> QED BY <1>12, <1>13, <1>18 DEF Copies

(* An outer leaf gives keys to new leaves before the call is logged.       *)
LEMMA ExpandRootKeepsCopies ==
  ASSUME State, State', Copies, NEW B \in SUBSET Keys, ExpandRoot(B)
  PROVE  Copies'
<1>0. PICK q : q = client.key
  OBVIOUS
<1>1. PICK i : i = LeafOf(q)
  OBVIOUS
<1>2. PICK n : n = Cardinality(B)
  OBVIOUS
<1>3. PICK todo : todo = [j \in 1 .. n |-> i + n + 1 - j]
  OBVIOUS
<1>4. /\ client.at = "write" /\ leaves[i].inner \notin cold /\ Inside(i, B) /\ leaves' = Replace(i, Divide(i, B))
      /\ client' = [client EXCEPT !.at = "split", !.old = leaves[i].inner, !.then = "write", !.todo = todo]
      /\ UNCHANGED <<tree, log, worker, created, cold, acked, astray>>
  BY <1>0, <1>1, <1>2, <1>3 DEF ExpandRoot, nvm
<1>5. q \in Keys /\ i \in DOMAIN leaves /\ i \in Nat /\ n \in Nat
  <2>1. q \in Keys
    BY <1>0, <1>4 DEF State, Begun
  <2>2. i \in DOMAIN leaves /\ DOMAIN leaves = 1 .. Len(leaves)
    BY <2>1, <1>1, Home
  <2>3. IsFiniteSet(B)
    BY KeysAssumption, FS_Subset
  <2> QED BY <2>1, <2>2, <2>3, <1>2, FS_CardinalityType
<1>6. Divided(i, n, B)
  BY <1>2, <1>4, <1>5, DividedIs
<1>7. /\ client'.at = "split" /\ client'.old = leaves[i].inner /\ client'.todo = todo /\ client'.then = "write"
      /\ client'.key = q /\ client'.op = client.op
  <2>1. client \in ClientType
    BY DEF State, TypeOK
  <2> QED BY <2>1, <1>0, <1>4 DEF ClientType
<1>8. Tracked' = Tracked
  BY <1>4 DEF Tracked
<1>9. ~Moved /\ ~Logged /\ ~Logged' /\ Splitting'
  BY <1>4, <1>7 DEF Moved, Logged, Splitting
<1>10. \A k \in Keys : Now(k)' <=> Now(k)
  BY <1>4, <1>9 DEF Now
<1>11. \A j \in DOMAIN client'.todo : client'.todo[j] \in i .. i + n
  <2>1. \A j \in 1 .. n : i + n + 1 - j \in i .. i + n
    BY <1>5
  <2> QED BY <2>1, <1>3, <1>7
<1>12. /\ Trees' /\ Placed' /\ Pending' /\ Answers' /\ HotData'
       /\ \A j \in DOMAIN client'.todo :
            \A k \in Present(leaves'[client'.todo[j]].data) : leaves'[client'.todo[j]].from <= k
  BY <1>0, <1>4, <1>6, <1>7, <1>8, <1>9, <1>10, <1>11, DividedKeeps
<1>13. HotCall'
  BY <1>4, <1>7, <1>9 DEF HotCall
<1>14. PieceKeys'
  BY <1>7, <1>12 DEF PieceKeys, Present
<1> QED BY <1>12, <1>13, <1>14 DEF Copies

-----------------------------------------------------------------------------
(* A node is split.                                                        *)

(* The split entry says from which to which key the piece has keys.        *)
LEMMA RangeOfKeys ==
  ASSUME NEW S \in SUBSET Keys, NEW n, NEW e,
         e = IF S = {} THEN Entry("split", 1, 0, n) ELSE Entry("split", Least(S), Greatest(S), n)
  PROVE  /\ e.type = "split" /\ e.to = n /\ e.key \in Nat /\ e.value \in Nat
         /\ \A k \in Keys : Between(S, k) <=> e.key <= k /\ k <= e.value
<1>1. S \in SUBSET Nat /\ IsFiniteSet(S) /\ Keys \subseteq Nat
  BY KeysAssumption, FS_Subset
<1>2. CASE S = {}
  <2>1. e = [type |-> "split", key |-> 1, value |-> 0, to |-> n]
    BY <1>2 DEF Entry
  <2>2. \A k \in Keys : ~(1 <= k /\ k <= 0)
    BY <1>1
  <2>3. \A k : ~Between(S, k)
    BY <1>2 DEF Between
  <2> QED BY <2>1, <2>2, <2>3
<1>3. CASE S # {}
  <2>1. (\E x \in S : \A y \in S : x <= y) /\ \E x \in S : \A y \in S : x >= y
    <3>1. S \in SUBSET Int
      BY <1>1
    <3>2. (\E x \in S : \A y \in S : x <= y) /\ \E x \in S : \A y \in S : y <= x
      BY <1>1, <1>3, <3>1, EndsOf
    <3> QED BY <3>2, <1>1
  <2>2. /\ Least(S) \in S /\ \A y \in S : Least(S) <= y
        /\ Greatest(S) \in S /\ \A y \in S : Greatest(S) >= y
    BY <2>1 DEF Least, Greatest
  <2>3. PICK a, b \in S : a = Least(S) /\ b = Greatest(S)
    BY <2>2
  <2>4. e = [type |-> "split", key |-> a, value |-> b, to |-> n]
    BY <1>3, <2>3 DEF Entry
  <2>5. \A k \in Keys : Between(S, k) <=> a <= k /\ k <= b
    <3> TAKE k \in Keys
    <3>1. ASSUME NEW i \in S, NEW j \in S, i <= k, k <= j PROVE a <= k /\ k <= b
      <4>1. a <= i /\ b >= j /\ a \in Nat /\ b \in Nat /\ i \in Nat /\ j \in Nat /\ k \in Nat
        BY <1>1, <2>2, <2>3
      <4> QED BY <3>1, <4>1
    <3> QED BY <3>1 DEF Between
  <2>6. a \in Nat /\ b \in Nat
    BY <1>1
  <2> QED BY <2>4, <2>5, <2>6
<1> QED BY <1>2, <1>3

(* The node that waits for its leaf has nothing yet.                       *)
LEMMA NothingStays ==
  ASSUME NEW n, NEW k, log[n] = <<>>, tree[n][k] = <<>>
  PROVE  ~Stays(n, k)
<1>1. ~InTree(n, k)
  BY DEF InTree
<1>2. DOMAIN log[n] = {}
  OBVIOUS
<1> QED BY <1>1, <1>2 DEF Stays, There

(* The split entry is written to the old node's log.                       *)
LEMMA SplitNodeKeepsCopies ==
  ASSUME State, State', Producers, Shape, Copies, SplitNode
  PROVE  Copies'
<1>1. PICK old : old = client.old
  OBVIOUS
<1>2. PICK new : new = Cardinality(created)
  OBVIOUS
<1>3. PICK keys : keys = Present(leaves[Head(client.todo)].data)
  OBVIOUS
<1>4. PICK e : e = IF keys = {} THEN Entry("split", 1, 0, new) ELSE Entry("split", Least(keys), Greatest(keys), new)
  OBVIOUS
<1>5. /\ client.at = "split" /\ log' = [log EXCEPT ![old] = Append(@, e)]
      /\ split_' = [split_ EXCEPT ![old] = FALSE]
      /\ client' = [client EXCEPT !.at = "wait", !.leaf = new]
      /\ UNCHANGED <<tree, worker, leaves, cold, acked, astray>>
  BY <1>1, <1>2, <1>3, <1>4 DEF SplitNode, Write
<1>6. /\ new \in Nodes \ created /\ created' = created \cup {new}
      /\ old \in created /\ old \in Nodes /\ old \notin cold /\ old # new
      /\ created \subseteq Nodes /\ cold \subseteq Nodes
  <2>1. new \in Nodes \ created /\ created' = created \cup {new}
    BY <1>2, NewNode
  <2>2. Splitting
    BY <1>5 DEF Splitting
  <2>3. old \in created /\ old \notin cold
    BY <2>2, <1>1 DEF State, ToSplit, Copies, HotCall
  <2>4. created \subseteq Nodes /\ cold \subseteq created
    BY DEF State, TypeOK
  <2> QED BY <2>1, <2>3, <2>4
<1>7. /\ client'.at = "wait" /\ client'.leaf = new /\ client'.old = old /\ client'.todo = client.todo
      /\ client'.then = client.then /\ client'.key = client.key /\ client'.op = client.op
  <2>1. client \in ClientType
    BY DEF State, TypeOK
  <2> QED BY <2>1, <1>1, <1>5 DEF ClientType
<1>8. /\ log[old] \in Seq(Entries) /\ log' \in [Nodes -> Seq(Entries)] /\ ~split_'[old]
      /\ log'[old] = Append(log[old], e)
      /\ \A m \in Nodes : m # old => log'[m] = log[m]
  <2>1. log \in [Nodes -> Seq(Entries)] /\ split_ \in [Nodes -> BOOLEAN] /\ log' \in [Nodes -> Seq(Entries)]
    BY DEF State, TypeOK
  <2> QED BY <2>1, <1>5, <1>6
<1>9. /\ e.type = "split" /\ e \in Entries
      /\ \A k \in Keys : Between(keys, k) <=> e.key <= k /\ k <= e.value
  <2>1. keys \in SUBSET Keys
    BY <1>3 DEF Present
  <2>2. e.type = "split" /\ e.to = new /\ e.key \in Nat /\ e.value \in Nat
        /\ \A k \in Keys : Between(keys, k) <=> e.key <= k /\ k <= e.value
    BY <2>1, <1>4, RangeOfKeys
  <2>3. e = [type |-> e.type, key |-> e.key, value |-> e.value, to |-> e.to]
    BY <1>4 DEF Entry
  <2> QED BY <2>2, <2>3, <1>6 DEF Entries
<1>10. /\ log[new] = <<>> /\ tree[new] = NoValues /\ \A n \in Nodes : worker[n].at # "move"
  <2>1. \A n \in Nodes : worker[n].at = "move" => client.at = "wait"
    BY Moves DEF Copies
  <2> QED BY <2>1, <1>5, <1>6 DEF Copies, Trees
<1>11. Tracked' = Tracked
  BY <1>5 DEF Tracked
<1>12. \A k \in Tracked : (Stays(old, k)' <=> Stays(old, k)) /\ OneEach(old, k)'
  <2> TAKE k \in Tracked
  <2>1. OneEach(old, k)
    BY <1>6 DEF Copies, Trees
  <2>2. InTree(old, k)' <=> InTree(old, k)
    BY <1>5 DEF InTree, InBatch
  <2>3. PICK r : r = Append(log[old], e)
    OBVIOUS
  <2>4. PICK now : now <=> InTree(old, k)
    OBVIOUS
  <2>5. /\ There(r, now, k, Len(r) + 1) <=> There(log[old], now, k, Len(log[old]) + 1)
        /\ Sound(log[old], now, k) => Sound(r, now, k)
    <3>1. PICK other : other = FALSE
      OBVIOUS
    <3>2. PICK l : l = log[old]
      OBVIOUS
    <3>3. other <=> e.type # "split" /\ e.key = k
      BY <3>1, <1>9
    <3>4. l \in Seq(Entries) /\ e \in Entries /\ r = Append(l, e)
      BY <2>3, <3>2, <1>8, <1>9
    <3>5. /\ There(r, now, k, Len(r) + 1) <=> IF other THEN e.type = "insert" ELSE There(l, now, k, Len(l) + 1)
          /\ Sound(l, now, k)
             /\ (other /\ e.type = "insert" => e.value = 1 /\ ~There(l, now, k, Len(l) + 1))
               => Sound(r, now, k)
      BY <3>3, <3>4, AppendLog
    <3> QED BY <3>1, <3>2, <3>5
  <2>6. Stays(old, k)' <=> There(r, now, k, Len(r) + 1)
    BY <2>2, <2>3, <2>4, <1>8 DEF Stays, There, About
  <2>7. Stays(old, k) <=> There(log[old], now, k, Len(log[old]) + 1)
    BY <2>4 DEF Stays, There, About
  <2>8. Sound(log[old], now, k)
    BY <2>1, <2>4 DEF OneEach, Sound, There, About
  <2>9. Sound(log[old], InTree(old, k), k)' <=> Sound(r, now, k)
    BY <2>2, <2>3, <2>4, <1>8, SMTT(40) DEF Sound, There, About
  <2> QED BY <2>1, <2>5, <2>6, <2>7, <2>8, <2>9, <1>5 DEF OneEach
<1>13. \A m \in Nodes, k \in Tracked : (Stays(m, k)' <=> Stays(m, k)) /\ OneEach(m, k)'
  <2> SUFFICES ASSUME NEW m \in Nodes, NEW k \in Tracked, m # old
               PROVE  (Stays(m, k)' <=> Stays(m, k)) /\ OneEach(m, k)'
    BY <1>12
  <2>1. log'[m] = log[m] /\ tree'[m] = tree[m] /\ worker'[m] = worker[m]
    BY <1>5, <1>8
  <2> QED BY <2>1, SameNode DEF Copies, Trees
<1>14. Trees'
  <2>1. \A m \in Nodes : Batch(m)'
    BY <1>5, <1>10, <1>11, SameBatch DEF Copies, Trees
  <2>2. \A m \in Nodes \ created' : log'[m] = <<>> /\ tree'[m] = NoValues /\ worker'[m].at = "idle"
    BY <1>5, <1>6, <1>8 DEF Copies, Trees
  <2>3. \A m \in cold' : log'[m] = <<>>
    BY <1>5, <1>6, <1>8 DEF Copies, Trees
  <2> QED BY <2>1, <2>2, <2>3, <1>11, <1>13 DEF Trees
<1>15. ~Moved /\ ~Moved' /\ Splitting /\ Splitting' /\ (Logged' <=> Logged)
  BY <1>5, <1>7, <1>8 DEF Moved, Splitting, Logged
<1>16. \A k : (Now(k)' <=> Now(k)) /\ LeafOf(k)' = LeafOf(k) /\ InnerOf(k)' = InnerOf(k)
  BY <1>5, <1>7, <1>15 DEF Now, LeafOf, InnerOf
<1>17. Placed'
  <2>1. \A m : Owner(m)' => Owner(m)
    BY <1>5, <1>15 DEF Owner
  <2> QED BY <2>1, <1>11, <1>13, <1>15, <1>16, UnmovedPlaced DEF Copies
<1>18. Pending'
  <2>1. PICK r : r = log'[old]
    OBVIOUS
  <2>2. r # <<>> /\ r[Len(r)] = e /\ Len(r) = Len(log[old]) + 1 /\ Len(log[old]) \in Nat
    <3>1. PICK l : l = log[old]
      OBVIOUS
    <3>2. l \in Seq(Entries) /\ r = Append(l, e)
      BY <2>1, <3>1, <1>8
    <3>3. Len(r) = Len(l) + 1 /\ Len(l) \in Nat /\ r[Len(l) + 1] = e
      BY <3>2, <1>9
    <3>4. r # <<>>
      BY <3>2, <1>9
    <3> QED BY <3>1, <3>3, <3>4
  <2>3. worker'[old].at = "prune" => Len(r) > 1
    <3> SUFFICES ASSUME worker[old].at = "prune" PROVE Len(r) > 1
      BY <1>5
    <3>1. log[old] # <<>>
      BY <1>6 DEF Producers, InSplit
    <3>2. Len(log[old]) # 0
      BY <3>1, <1>8
    <3> QED BY <3>2, <2>2
  <2>4. \A k \in Tracked : ~Stays(new, k)' /\ ~Copied(k)'
    <3> TAKE k \in Tracked
    <3>1. ~Copied(k)'
      BY <1>5, <1>6, <1>7, <1>10 DEF Copied
    <3>2. ~Stays(new, k)
      BY <1>10, NothingStays DEF NoValues, Tracked
    <3> QED BY <3>1, <3>2, <1>6, <1>13
  <2>5. \A k \in Tracked', m \in Nodes : m = client'.leaf => (Stays(m, k)' <=> Copied(k)')
    BY <2>4, <1>7, <1>11
  <2>6. Present(leaves'[Head(client'.todo)].data) = keys
    BY <1>3, <1>5, <1>7
  <2>7. \A k \in Keys : Between(Present(leaves'[Head(client'.todo)].data), k) <=> e.key <= k /\ k <= e.value
    BY <2>6, <1>9
  <2> QED BY <2>1, <2>2, <2>3, <2>5, <2>7, <1>7, <1>9 DEF Pending, Between, Present
<1>19. PieceKeys'
  BY <1>5, <1>7, <1>11, <1>15, <1>16 DEF Copies, PieceKeys, Between, Present
<1>20. Answers'
  BY <1>5, <1>7 DEF Copies, Answers
<1>21. HotData'
  BY <1>5, <1>11, <1>16 DEF Copies, HotData
<1>22. HotCall'
  BY <1>1, <1>5, <1>7, <1>15, <1>16 DEF Copies, HotCall
<1> QED BY <1>14, <1>17, <1>18, <1>19, <1>20, <1>21, <1>22 DEF Copies

(* The piece gets its node: what stays there are the keys of the piece.    *)
LEMMA SplitReturnsKeepsCopies ==
  ASSUME State, State', Shape, Copies, SplitReturns
  PROVE  Copies'
<1>1. PICK t : t = Head(client.todo)
  OBVIOUS
<1>2. PICK rest : rest = Tail(client.todo)
  OBVIOUS
<1>3. /\ client.at = "wait" /\ split_[client.old]
      /\ leaves' = [leaves EXCEPT ![t].inner = client.leaf]
      /\ client' = [client EXCEPT !.at = IF rest = <<>> THEN client.then ELSE "split", !.todo = rest]
      /\ UNCHANGED <<tree, log, worker, created, cold, acked, astray>>
  BY <1>1, <1>2 DEF SplitReturns, nvm
<1>4. /\ Moved /\ Splitting /\ t = client.todo[1] /\ t \in DOMAIN leaves /\ leaves[t].inner = client.old
      /\ client.leaf # client.old /\ client.leaf \in created \ cold
      /\ client.old \notin cold /\ client.todo \in Seq(Nat) /\ client.todo # <<>>
      /\ \A j \in DOMAIN client.todo : client.todo[j] \in DOMAIN leaves
  <2>1. Moved /\ Splitting
    BY <1>3 DEF Moved, Splitting
  <2>2. client.todo \in Seq(Nat)
    BY DEF State, TypeOK, ClientType
  <2> QED BY <2>1, <2>2, <1>1, <1>3, OwnerNodes DEF State, ToSplit, Waiting, Copies, HotCall
<1>5. /\ client'.at = (IF rest = <<>> THEN client.then ELSE "split") /\ client'.todo = rest
      /\ client'.then = client.then /\ client'.key = client.key /\ client'.op = client.op /\ client'.old = client.old
      /\ client.then \in {"leaf", "write"}
  <2>1. client \in ClientType
    BY DEF State, TypeOK
  <2> QED BY <2>1, <1>3 DEF ClientType
<1>6. DOMAIN leaves' = DOMAIN leaves /\ \A x \in DOMAIN leaves :
        /\ leaves'[x].from = leaves[x].from /\ leaves'[x].data = leaves[x].data
        /\ leaves'[x].inner = IF x = t THEN client.leaf ELSE leaves[x].inner
  <2>1. leaves \in Seq(LeafType) /\ \A x \in DOMAIN leaves : leaves[x] \in LeafType
    <3>1. leaves \in Seq(LeafType)
      BY DEF State, TypeOK
    <3> QED BY <3>1
  <2>2. DOMAIN leaves' = DOMAIN leaves /\ \A x \in DOMAIN leaves : x # t => leaves'[x] = leaves[x]
    BY <2>1, <1>3
  <2>3. leaves'[t].from = leaves[t].from /\ leaves'[t].data = leaves[t].data /\ leaves'[t].inner = client.leaf
    <3>1. leaves[t] \in LeafType
      BY <2>1, <1>4
    <3>2. leaves'[t] = [leaves[t] EXCEPT !.inner = client.leaf]
      BY <2>1, <1>3, <1>4
    <3> QED BY <3>1, <3>2 DEF LeafType
  <2> QED BY <2>2, <2>3, <1>4
<1>7. ASSUME NEW k \in Keys
      PROVE  LeafOf(k)' = LeafOf(k) /\ InnerOf(k)' = At(k) /\ LeafOf(k) \in DOMAIN leaves
  <2>1. PICK i : i = LeafOf(k)
    OBVIOUS
  <2>2. /\ i \in DOMAIN leaves /\ leaves[i].from <= k /\ InnerOf(k) = leaves[i].inner
        /\ \A j \in DOMAIN leaves : i < j => k < leaves[j].from
    BY <2>1, Home
  <2>3. LeafOf(k)' = i /\ InnerOf(k)' = leaves'[i].inner
    BY <2>2, <1>6, NextHome
  <2> QED BY <2>1, <2>2, <2>3, <1>1, <1>4, <1>6 DEF At
<1>8. ~Moved' /\ (Splitting' <=> rest # <<>>) /\ (Logged' <=> Logged)
  BY <1>3, <1>5 DEF Moved, Splitting, Logged
<1>9. \A k : Now(k)' <=> Now(k)
  BY <1>3, <1>5, <1>8 DEF Now
<1>10. Tracked' = Tracked
  BY <1>3 DEF Tracked
<1>11. Trees' /\ \A m, k : Stays(m, k)' <=> Stays(m, k)
  <2>1. created \subseteq created' /\ \A m \in cold' : log[m] = <<>>
    BY <1>3 DEF Copies, Trees
  <2> QED BY <2>1, <1>3, <1>10, SameNVM DEF Copies
<1>12. Placed'
  <2>1. \A m : Owner(m)' => Owner(m)
    BY <1>4, <1>6, <1>8 DEF Owner
  <2>2. \A k \in Tracked : At(k)' = At(k)
    BY <1>7, <1>8 DEF At, Tracked
  <2> QED BY <2>1, <2>2, <1>9, <1>10, <1>11 DEF Copies, Placed
<1>13. Pending'
  BY <1>5 DEF Pending
<1>14. PieceKeys'
  <2> SUFFICES ASSUME rest # <<>>
               PROVE  /\ \A j \in DOMAIN rest : \A k \in Present(leaves'[rest[j]].data) : leaves'[rest[j]].from <= k
                      /\ client.then = "leaf" =>
                           \A k \in Tracked : k = client.key /\ InnerOf(k)' = client.old
                                                => Between(Present(leaves'[LeafOf(k)'].data), k)
    BY <1>5, <1>8, <1>10 DEF PieceKeys, Between, Present
  <2>1. \A j \in DOMAIN rest : j + 1 \in DOMAIN client.todo /\ rest[j] = client.todo[j + 1]
    BY <1>2, <1>4, TailIs
  <2>2. ASSUME NEW j \in DOMAIN rest, NEW k \in Present(leaves'[rest[j]].data)
        PROVE  leaves'[rest[j]].from <= k
    <3>1. PICK x \in DOMAIN leaves : x = rest[j] /\ x = client.todo[j + 1]
      BY <2>1, <1>4
    <3>2. k \in Present(leaves[x].data)
      BY <3>1, <1>6, <2>2
    <3>3. leaves[x].from <= k
      BY <3>1, <3>2, <2>1, <1>4 DEF Copies, PieceKeys
    <3> QED BY <3>1, <3>3, <1>6
  <2>3. ASSUME client.then = "leaf", NEW k \in Tracked, k = client.key, InnerOf(k)' = client.old
        PROVE  Between(Present(leaves'[LeafOf(k)'].data), k)
    <3>1. /\ LeafOf(k)' = LeafOf(k) /\ At(k) = client.old /\ LeafOf(k) \in DOMAIN leaves
      BY <2>3, <1>7 DEF Tracked
    <3>2. InnerOf(k) = client.old
      BY <3>1, <1>4 DEF At
    <3>3. Between(Present(leaves[LeafOf(k)].data), k)
      BY <2>3, <3>2, <1>4 DEF Copies, PieceKeys
    <3> QED BY <3>1, <3>3, <1>6
  <2> QED BY <2>2, <2>3
<1>15. Answers'
  BY <1>3, <1>5 DEF Copies, Answers
<1>16. HotData'
  <2> SUFFICES ASSUME NEW x \in DOMAIN leaves, NEW k \in Tracked, leaves'[x].inner \notin cold
               PROVE  leaves'[x].data[k] = IF LeafOf(k)' = x THEN acked[k] ELSE <<>>
    BY <1>3, <1>6, <1>10 DEF HotData
  <2>1. leaves[x].inner \notin cold
    BY <1>4, <1>6
  <2>2. leaves[x].data[k] = IF LeafOf(k) = x THEN acked[k] ELSE <<>>
    BY <2>1 DEF Copies, HotData
  <2> QED BY <2>2, <1>6, <1>7 DEF Tracked
<1>17. HotCall'
  <2>1. ASSUME Logged, NEW k \in Keys, k = client.key PROVE InnerOf(k)' \notin cold
    <3>1. InnerOf(k) \notin cold
      BY <2>1 DEF Copies, HotCall
    <3> QED BY <3>1, <1>4, <1>7 DEF At
  <2> QED BY <2>1, <1>3, <1>4, <1>5, <1>8 DEF HotCall
<1> QED BY <1>11, <1>12, <1>13, <1>14, <1>15, <1>16, <1>17 DEF Copies

-----------------------------------------------------------------------------
(* An empty leaf is merged with a neighbour.                               *)

(* The other leaves keep their data.                                       *)
LEMMA MergedData ==
  ASSUME State, NEW adjacent \in DOMAIN leaves, Merge(adjacent), NEW i, i = client.leaf
  PROVE  /\ \A x \in 1 .. i - 1 : leaves'[x].data = leaves[x].data
         /\ \A x \in i .. Len(leaves) - 1 : leaves'[x].data = leaves[x + 1].data
<1>1. PICK m : m = Len(leaves)
  OBVIOUS
<1>2. PICK from : from = IF adjacent > i THEN leaves[i].from ELSE leaves[adjacent].from
  OBVIOUS
<1>3. PICK l : l = [leaves[adjacent] EXCEPT !.from = from]
  OBVIOUS
<1>4. PICK s : s = [leaves EXCEPT ![adjacent] = l]
  OBVIOUS
<1>5. i \in DOMAIN leaves /\ leaves' = RemoveAt(s, i)
  <2>1. [leaves EXCEPT ![adjacent].from = from] = s
    BY <1>3, <1>4
  <2> QED BY <2>1, <1>2 DEF Merge, State, Begun
<1>6. /\ leaves \in Seq(LeafType) /\ m \in Nat \ {0} /\ DOMAIN leaves = 1 .. m /\ i \in 1 .. m
      /\ leaves[adjacent] \in LeafType /\ leaves[i].from \in Nat /\ leaves[adjacent].from \in Nat
  <2>1. leaves \in Seq(LeafType)
    BY DEF State, TypeOK
  <2> QED BY <2>1, <1>1, <1>5, LeafTypes DEF State
<1>7. l \in LeafType /\ l.data = leaves[adjacent].data
  <2>1. from \in Nat
    BY <1>2, <1>6
  <2> QED BY <2>1, <1>3, <1>6 DEF LeafType
<1>8. /\ s \in Seq(LeafType) /\ Len(s) = m
      /\ \A x \in 1 .. m : s[x] = IF x = adjacent THEN l ELSE leaves[x]
  BY <1>4, <1>6, <1>7
<1>9. /\ \A x \in 1 .. i - 1 : leaves'[x] = s[x]
      /\ \A x \in i .. m - 1 : leaves'[x] = s[x + 1]
  <2>1. i \in 1 .. Len(s)
    BY <1>6, <1>8
  <2> QED BY <1>5, <1>8, <2>1, RemoveIs
<1>10. \A x \in 1 .. m : s[x].data = leaves[x].data
  BY <1>7, <1>8
<1>11. (\A x \in 1 .. i - 1 : x \in 1 .. m) /\ \A x \in i .. m - 1 : x + 1 \in 1 .. m
  BY <1>6
<1> QED BY <1>1, <1>9, <1>10, <1>11

(* The keys of the other leaves stay with their inner nodes.               *)
LEMMA MergedHomes ==
  ASSUME State, State', NEW adjacent \in DOMAIN leaves, Merge(adjacent), NEW k \in Keys,
         NEW i, i = client.leaf, LeafOf(k) # i
  PROVE  /\ LeafOf(k)' = IF LeafOf(k) < i THEN LeafOf(k) ELSE LeafOf(k) - 1
         /\ InnerOf(k)' = InnerOf(k)
<1>1. PICK h : h = LeafOf(k)
  OBVIOUS
<1>2. PICK m : m = Len(leaves)
  OBVIOUS
<1>3. /\ h \in DOMAIN leaves /\ leaves[h].from <= k /\ InnerOf(k) = leaves[h].inner
      /\ \A j \in DOMAIN leaves : h < j => k < leaves[j].from
      /\ DOMAIN leaves = 1 .. m /\ m \in Nat /\ k \in Nat
      /\ \A x \in DOMAIN leaves : leaves[x].from \in Nat
  BY <1>1, <1>2, Home
<1>4. /\ i \in 1 .. m /\ m > 1 /\ leaves' \in Seq(LeafType) /\ Len(leaves') = m - 1
      /\ \A x \in 1 .. i - 1 : leaves'[x].inner = leaves[x].inner /\ leaves'[x].from = leaves[x].from
      /\ \A x \in i .. m - 1 :
           /\ leaves'[x].inner = leaves[x + 1].inner
           /\ leaves'[x].from = leaves[x + 1].from \/ (x = i /\ leaves'[x].from = leaves[i].from)
  BY <1>2, MergedLeaves
<1>5. DOMAIN leaves' = 1 .. m - 1 /\ h \in 1 .. m /\ h # i
  BY <1>1, <1>3, <1>4
<1>6. \A x, y \in 1 .. m : x < y => leaves[x].from < leaves[y].from
  BY <1>3 DEF State, Sorted
<1>7. PICK g : g = IF h < i THEN h ELSE h - 1
  OBVIOUS
<1>8. g \in 1 .. m - 1 /\ leaves'[g].inner = leaves[h].inner /\ leaves'[g].from <= k
  <2>1. CASE h < i
    <3>1. g = h /\ h \in 1 .. i - 1 /\ h \in 1 .. m - 1
      BY <2>1, <1>3, <1>4, <1>5, <1>7
    <3> QED BY <3>1, <1>3, <1>4
  <2>2. CASE h > i
    <3>1. g = h - 1 /\ g \in i .. m - 1 /\ g \in 1 .. m - 1 /\ g + 1 = h
      <4>1. ~(h < i)
        BY <2>2, <1>4, <1>5
      <4>2. g = h - 1
        BY <4>1, <1>7
      <4>3. m \in Int /\ i \in 1 .. m /\ h \in 1 .. m
        BY <1>3, <1>4, <1>5
      <4> QED BY <2>2, <4>2, <4>3
    <3>2. leaves'[g].from \in {leaves[h].from, leaves[i].from} /\ leaves'[g].inner = leaves[h].inner
      BY <3>1, <1>4
    <3>3. leaves[i].from < leaves[h].from /\ leaves[i].from \in Nat /\ leaves[h].from \in Nat
      BY <2>2, <1>3, <1>4, <1>5, <1>6
    <3>4. leaves[h].from <= k /\ k \in Nat
      BY <1>3
    <3>5. leaves'[g].from <= k
      BY <3>2, <3>3, <3>4
    <3> QED BY <3>1, <3>2, <3>5
  <2>3. h < i \/ h > i
    BY <1>4, <1>5
  <2> QED BY <2>1, <2>2, <2>3
<1>9. ASSUME NEW j \in 1 .. m - 1, g < j PROVE k < leaves'[j].from
  <2>0. m \in Int /\ i \in Int /\ h \in Int /\ 1 <= i /\ i <= m /\ 1 <= h /\ h <= m
    BY <1>3, <1>4, <1>5
  <2>1. CASE j < i
    <3>1. j \in 1 .. i - 1 /\ j \in 1 .. m /\ h < j
      BY <2>0, <2>1, <1>7, <1>9
    <3> QED BY <3>1, <1>3, <1>4
  <2>2. CASE j >= i
    <3>1. j \in i .. m - 1 /\ j + 1 \in 1 .. m /\ h < j + 1
      BY <2>0, <2>2, <1>7, <1>9
    <3>2. k < leaves[j + 1].from
      BY <3>1, <1>3
    <3>3. CASE j = i /\ leaves'[j].from = leaves[i].from
      <4>1. h < i
        BY <3>3, <2>0, <1>5, <1>7, <1>9
      <4> QED BY <4>1, <3>3, <1>3, <1>4
    <3> QED BY <3>1, <3>2, <3>3, <1>4
  <2> QED BY <2>0, <2>1, <2>2
<1>10. LeafOf(k)' = g /\ InnerOf(k)' = leaves'[g].inner
  BY <1>5, <1>8, <1>9, NextHome
<1> QED BY <1>1, <1>3, <1>7, <1>8, <1>10

(* The keys that the empty leaf should have had are astray from now on.    *)
LEMMA MergeKeepsCopies ==
  ASSUME State, State', Copies, NEW adjacent \in DOMAIN leaves, Merge(adjacent)
  PROVE  Copies'
<1>1. PICK i : i = client.leaf
  OBVIOUS
<1>2. PICK m : m = Len(leaves)
  OBVIOUS
<1>3. /\ client.at = "merge" /\ UNCHANGED <<tree, log, worker, created, cold, acked>>
      /\ client' = [client EXCEPT !.leaf = IF adjacent > i THEN i ELSE i - 1]
      /\ astray' = astray \cup {k \in Present(acked) : LeafOf(k) = i}
  BY <1>1 DEF Merge, nvm
<1>4. client'.at = "merge" /\ client'.key = client.key /\ client'.op = client.op
  <2>1. client \in ClientType
    BY DEF State, TypeOK
  <2> QED BY <2>1, <1>3 DEF ClientType
<1>5. /\ Tracked' \subseteq Tracked
      /\ \A k \in Tracked' : k \in Keys /\ (LeafOf(k) = i => acked[k] = <<>>)
  BY <1>3 DEF Tracked, Present
<1>6. /\ i \in 1 .. m /\ m \in Nat /\ DOMAIN leaves' = 1 .. m - 1 /\ DOMAIN leaves = 1 .. m
      /\ \A x \in 1 .. i - 1 : leaves'[x].inner = leaves[x].inner /\ leaves'[x].data = leaves[x].data
      /\ \A x \in i .. m - 1 : leaves'[x].inner = leaves[x + 1].inner /\ leaves'[x].data = leaves[x + 1].data
  <2>1. /\ i \in 1 .. m /\ leaves' \in Seq(LeafType) /\ Len(leaves') = m - 1
        /\ \A x \in 1 .. i - 1 : leaves'[x].inner = leaves[x].inner
        /\ \A x \in i .. m - 1 : leaves'[x].inner = leaves[x + 1].inner
    BY <1>1, <1>2, MergedLeaves
  <2>2. /\ \A x \in 1 .. i - 1 : leaves'[x].data = leaves[x].data
        /\ \A x \in i .. m - 1 : leaves'[x].data = leaves[x + 1].data
    BY <1>1, <1>2, MergedData
  <2>3. m \in Nat /\ DOMAIN leaves = 1 .. m
    BY <1>2, LeafTypes DEF State
  <2>4. DOMAIN leaves' = 1 .. m - 1
    BY <2>1
  <2> QED BY <2>1, <2>2, <2>3, <2>4
<1>7. ASSUME NEW x \in DOMAIN leaves'
      PROVE  \E y \in DOMAIN leaves :
               /\ y = (IF x < i THEN x ELSE x + 1) /\ y # i
               /\ leaves'[x].inner = leaves[y].inner /\ leaves'[x].data = leaves[y].data
  <2>1. CASE x < i
    <3>1. x \in 1 .. i - 1 /\ x \in 1 .. m /\ x # i
      BY <2>1, <1>6
    <3> QED BY <2>1, <3>1, <1>6
  <2>2. CASE ~(x < i)
    <3>1. x \in i .. m - 1 /\ x + 1 \in 1 .. m /\ x + 1 # i
      BY <2>2, <1>6
    <3> QED BY <2>2, <3>1, <1>6
  <2> QED BY <2>1, <2>2
<1>8. ~Splitting /\ ~Splitting' /\ ~Logged /\ ~Logged' /\ ~Moved /\ ~Moved'
  BY <1>3, <1>4 DEF Splitting, Logged, Moved
<1>9. Trees' /\ \A n, k : Stays(n, k)' <=> Stays(n, k)
  <2>1. created \subseteq created' /\ \A n \in cold' : log[n] = <<>>
    BY <1>3 DEF Copies, Trees
  <2> QED BY <2>1, <1>3, <1>5, SameNVM DEF Copies
<1>10. Placed'
  <2> SUFFICES ASSUME NEW k \in Tracked', NEW n \in Nodes, Owner(n)'
               PROVE  Stays(n, k)' <=> At(k)' = n /\ Now(k)'
    BY DEF Placed
  <2>1. Owner(n)
    BY <1>7, <1>8 DEF Owner
  <2>2. k \in Keys /\ (Now(k)' <=> acked[k] # <<>>) /\ (Now(k) <=> acked[k] # <<>>)
    BY <1>3, <1>5, <1>8 DEF Now
  <2>3. Stays(n, k)' <=> InnerOf(k) = n /\ acked[k] # <<>>
    BY <2>1, <2>2, <1>5, <1>8, <1>9 DEF Copies, Placed, At
  <2>4. acked[k] # <<>> => InnerOf(k)' = InnerOf(k)
    BY <2>2, <1>1, <1>5, MergedHomes
  <2>5. At(k)' = InnerOf(k)'
    BY <1>8 DEF At
  <2> QED BY <2>2, <2>3, <2>4, <2>5
<1>11. Pending' /\ PieceKeys' /\ HotCall'
  BY <1>4, <1>8 DEF Pending, PieceKeys, HotCall
<1>12. Answers'
  BY <1>3, <1>4 DEF Copies, Answers
<1>13. HotData'
  <2> SUFFICES ASSUME NEW x \in DOMAIN leaves', NEW k \in Tracked', leaves'[x].inner \notin cold'
               PROVE  leaves'[x].data[k] = IF LeafOf(k)' = x THEN acked'[k] ELSE <<>>
    BY DEF HotData
  <2>1. PICK y \in DOMAIN leaves :
          /\ y = (IF x < i THEN x ELSE x + 1) /\ y # i
          /\ leaves'[x].inner = leaves[y].inner /\ leaves'[x].data = leaves[y].data
    BY <1>7
  <2>2. PICK h : h = LeafOf(k)
    OBVIOUS
  <2>3. leaves'[x].data[k] = IF h = y THEN acked[k] ELSE <<>>
    BY <2>1, <2>2, <1>3, <1>5 DEF Copies, HotData
  <2>4. CASE h = i
    BY <2>1, <2>2, <2>3, <2>4, <1>3, <1>5
  <2>5. CASE h # i
    <3>1. LeafOf(k)' = IF h < i THEN h ELSE h - 1
      BY <2>2, <2>5, <1>1, <1>5, MergedHomes
    <3>2. h \in DOMAIN leaves
      BY <2>2, <1>5, Home
    <3>3. h \in Int /\ x \in Int /\ i \in Int
      BY <3>2, <1>6
    <3>4. LeafOf(k)' = x <=> h = y
      BY <2>1, <2>5, <3>1, <3>3
    <3> QED BY <2>3, <3>4, <1>3
  <2> QED BY <2>4, <2>5
<1> QED BY <1>9, <1>10, <1>11, <1>12, <1>13 DEF Copies

-----------------------------------------------------------------------------
(* SwitchInnerNode.                                                        *)

(* Between two calls the tree of a leaf whose log is applied has the keys  *)
(* of the leaf.                                                            *)
LEMMA CaughtUp ==
  ASSUME State, Producers, Shape, Copies, client.at \in {"idle", "write", "merge"},
         NEW x \in DOMAIN leaves, NEW n, n = leaves[x].inner, log[n] = <<>>, NEW k \in Tracked
  PROVE  tree[n][k] = IF LeafOf(k) = x THEN acked[k] ELSE <<>>
<1>1. n \in Nodes /\ k \in Keys /\ Owner(n)
  BY LeafTypes DEF State, Owner, Tracked
<1>2. worker[n].at = "idle"
  BY <1>1 DEF Producers, InSplit
<1>3. Stays(n, k) <=> tree[n][k] # <<>>
  <2>1. InTree(n, k) <=> tree[n][k] # <<>>
    BY <1>2 DEF InTree
  <2>2. DOMAIN log[n] = {}
    OBVIOUS
  <2> QED BY <2>1, <2>2 DEF Stays, There
<1>4. ~Splitting /\ At(k) = InnerOf(k) /\ (Now(k) <=> acked[k] # <<>>)
  BY DEF Splitting, Logged, Moved, At, Now
<1>5. InnerOf(k) = n <=> LeafOf(k) = x
  <2>1. LeafOf(k) \in DOMAIN leaves /\ InnerOf(k) = leaves[LeafOf(k)].inner
    BY <1>1, Home
  <2> QED BY <2>1, <1>4, LeafInChain
<1>6. tree[n][k] # <<>> <=> LeafOf(k) = x /\ acked[k] # <<>>
  BY <1>1, <1>3, <1>4, <1>5 DEF Copies, Placed
<1>7. tree[n][k] \in {<<>>, <<1>>} /\ acked[k] \in {<<>>, <<1>>}
  BY <1>1 DEF Copies, Trees, OneEach, Answers
<1> QED BY <1>6, <1>7

(* A leaf that becomes hot is loaded from its tree, one that becomes cold  *)
(* gives its data up.                                                      *)
LEMMA AdjustedData ==
  ASSUME State, AdjustNodeType
  PROVE  \E inner, hot :
           /\ hot \subseteq inner /\ inner \subseteq DOMAIN leaves
           /\ cold' = (cold \ {leaves[x].inner : x \in hot}) \cup {leaves[x].inner : x \in inner \ hot}
           /\ \A x \in DOMAIN leaves :
                leaves'[x].data = IF x \in hot /\ leaves[x].inner \in cold THEN tree[leaves[x].inner]
                                  ELSE IF x \in inner \ hot /\ leaves[x].inner \notin cold THEN NoValues
                                  ELSE leaves[x].data
<1> DEFINE inner == IF Len(leaves) < 3 THEN {} ELSE 2 .. Len(leaves) - 1
           node(x) == leaves[x].inner
<1>1. PICK hot \in SUBSET inner :
        /\ leaves' = [x \in DOMAIN leaves |->
             [leaves[x] EXCEPT !.data =
                IF x \in hot /\ node(x) \in cold THEN tree[node(x)]
                ELSE IF x \in inner \ hot /\ node(x) \notin cold THEN NoValues ELSE @]]
        /\ cold' = (cold \ {node(x) : x \in hot}) \cup {node(x) : x \in inner \ hot}
  BY DEF AdjustNodeType
<1>2. DOMAIN leaves = 1 .. Len(leaves) /\ Len(leaves) \in Nat /\ \A x \in DOMAIN leaves : leaves[x] \in LeafType
  <2>1. leaves \in Seq(LeafType)
    BY DEF State, TypeOK
  <2> QED BY <2>1
<1>3. inner \subseteq DOMAIN leaves
  BY <1>2
<1>4. \A x \in DOMAIN leaves :
        leaves'[x].data = IF x \in hot /\ leaves[x].inner \in cold THEN tree[leaves[x].inner]
                          ELSE IF x \in inner \ hot /\ leaves[x].inner \notin cold THEN NoValues
                          ELSE leaves[x].data
  <2> TAKE x \in DOMAIN leaves
  <2> DEFINE d == IF x \in hot /\ node(x) \in cold THEN tree[node(x)]
                  ELSE IF x \in inner \ hot /\ node(x) \notin cold THEN NoValues ELSE leaves[x].data
  <2>1. leaves'[x] = [leaves[x] EXCEPT !.data = d]
    BY <1>1
  <2> HIDE DEF d
  <2>2. leaves'[x].data = d
    BY <1>2, <2>1 DEF LeafType
  <2> QED BY <2>2 DEF d
<1> HIDE DEF inner
<1>5. hot \subseteq inner
  OBVIOUS
<1> QED BY <1>1, <1>3, <1>4, <1>5

(* The adjustment makes leaves hot or cold, when the logs are applied.     *)
LEMMA AdjustKeepsCopies ==
  ASSUME State, State', Producers, Shape, Copies, AdjustNodeType, Drained, client.at = "idle",
         UNCHANGED <<tree, log, worker, created, acked, astray, client>>
  PROVE  Copies'
<1>1. /\ SameLeaves /\ DOMAIN leaves' = DOMAIN leaves /\ Tracked' = Tracked
      /\ \A k \in Keys : LeafOf(k)' = LeafOf(k) /\ InnerOf(k)' = InnerOf(k)
  <2>1. Tracked' = Tracked
    BY DEF Tracked
  <2> QED BY <2>1, Adjusted, SameHomes
<1>2. PICK inner, hot :
        /\ hot \subseteq inner /\ inner \subseteq DOMAIN leaves
        /\ cold' = (cold \ {leaves[x].inner : x \in hot}) \cup {leaves[x].inner : x \in inner \ hot}
        /\ \A x \in DOMAIN leaves :
             leaves'[x].data = IF x \in hot /\ leaves[x].inner \in cold THEN tree[leaves[x].inner]
                               ELSE IF x \in inner \ hot /\ leaves[x].inner \notin cold THEN NoValues
                               ELSE leaves[x].data
  BY AdjustedData
<1>3. ~Splitting /\ ~Splitting' /\ ~Logged /\ ~Logged' /\ ~Moved /\ ~Moved'
  BY DEF Splitting, Logged, Moved
<1>4. \A x \in DOMAIN leaves : log[leaves[x].inner] = <<>>
  <2> TAKE x \in DOMAIN leaves
  <2>1. leaves[x].inner \in created \ freed
    BY DEF State, Inners, ChainOnce, Shape, NoneRecycled
  <2> QED BY <2>1 DEF Drained
<1>5. Trees' /\ \A m, k : Stays(m, k)' <=> Stays(m, k)
  <2>1. created \subseteq created' /\ \A m \in cold' : log[m] = <<>>
    BY <1>2, <1>4 DEF Copies, Trees
  <2> QED BY <2>1, <1>1, SameNVM DEF Copies
<1>6. Placed' /\ Pending' /\ PieceKeys'
  <2>1. \A m : Owner(m)' => Owner(m)
    BY <1>1, <1>3 DEF Owner, SameLeaves
  <2>2. \A k \in Tracked' : (Now(k)' <=> Now(k)) /\ InnerOf(k)' = InnerOf(k)
    BY <1>1, <1>3 DEF Now, Tracked
  <2> QED BY <2>1, <2>2, <1>1, <1>3, <1>5, QuietPlaced DEF Copies
<1>7. Answers' /\ HotCall'
  BY <1>3 DEF Copies, Answers, HotCall
<1>8. HotData'
  <2> SUFFICES ASSUME NEW x \in DOMAIN leaves, NEW k \in Tracked, leaves'[x].inner \notin cold'
               PROVE  leaves'[x].data[k] = IF LeafOf(k) = x THEN acked[k] ELSE <<>>
    BY <1>1 DEF HotData, Tracked
  <2>1. PICK n : n = leaves[x].inner
    OBVIOUS
  <2>2. n \notin cold' /\ log[n] = <<>>
    BY <2>1, <1>1, <1>4 DEF SameLeaves
  <2>3. CASE x \in hot /\ n \in cold
    <3>1. leaves'[x].data = tree[n]
      BY <2>1, <2>3, <1>2
    <3>2. tree[n][k] = IF LeafOf(k) = x THEN acked[k] ELSE <<>>
      BY <2>1, <2>2, CaughtUp
    <3> QED BY <3>1, <3>2
  <2>4. CASE x \in inner \ hot
    BY <2>1, <2>2, <2>4, <1>2
  <2>5. CASE x \notin inner \ hot /\ ~(x \in hot /\ n \in cold)
    <3>1. leaves'[x].data = leaves[x].data
      BY <2>1, <2>5, <1>2
    <3>2. n \notin cold
      <4> SUFFICES ASSUME n \in cold PROVE FALSE
        OBVIOUS
      <4>1. PICK y \in hot : leaves[y].inner = n
        BY <2>2, <1>2
      <4>2. y = x
        BY <4>1, <2>1, <1>2, <1>3, LeafInChain
      <4> QED BY <4>2, <2>5
    <3> QED BY <3>1, <3>2, <2>1 DEF Copies, HotData
  <2> QED BY <2>3, <2>4, <2>5
<1> QED BY <1>5, <1>6, <1>7, <1>8 DEF Copies

(* SwitchInnerNode crashes and leaves all as is, or adjusts the leaves.    *)
LEMMA SwitchKeepsCopies ==
  ASSUME State, State', Producers, Shape, Copies, SwitchInnerNode
  PROVE  Copies'
<1>1. /\ client.at = "idle" /\ Drained /\ UNCHANGED <<tree, log, worker, client, acked, astray>>
      /\ UNCHANGED shape \/ (AdjustNodeType /\ UNCHANGED created)
  BY DEF SwitchInnerNode, nvm
<1>2. CASE UNCHANGED shape
  <2>1. UNCHANGED <<tree, log, worker, leaves, created, cold, acked, astray>>
    BY <1>1, <1>2 DEF shape
  <2>2. client.at \in {"idle", "merge"} /\ client'.at \in {"idle", "write"} /\ client'.at # "write"
    BY <1>1
  <2> QED BY <2>1, <2>2, CallKeepsCopies
<1>3. CASE AdjustNodeType /\ UNCHANGED created
  BY <1>1, <1>3, AdjustKeepsCopies
<1> QED BY <1>1, <1>2, <1>3

-----------------------------------------------------------------------------
(* A step that changes nothing keeps the copies.                           *)
LEMMA StutterKeepsCopies ==
  ASSUME State, Shape, Copies, UNCHANGED vars
  PROVE  Copies'
<1>1. UNCHANGED <<tree, log, worker, leaves, created, cold, acked, astray, client, split_>>
  BY DEF vars, nvm, shape
<1>2. Trees' /\ \A m, k : Stays(m, k)' <=> Stays(m, k)
  <2>1. Tracked' \subseteq Tracked /\ created \subseteq created' /\ \A m \in cold' : log[m] = <<>>
    BY <1>1 DEF Tracked, Copies, Trees
  <2> QED BY <2>1, <1>1, SameNVM DEF Copies
<1>3. Pending'
  <2>1. \A k : Copied(k)' <=> Copied(k)
    BY <1>1 DEF Copied
  <2>2. Tracked' = Tracked
    BY <1>1 DEF Tracked
  <2> QED BY <2>1, <2>2, <1>1, <1>2 DEF Copies, Pending, Between, Present
<1> QED BY <1>1, <1>2, <1>3, QuietWorkerKeeps

(* A call that begins inserts a key that is not there; one that ends after *)
(* its merges leaves everything as it is.                                  *)
LEMMA BeginAndEndKeepCopies ==
  ASSUME Duplicates = FALSE, State, Copies,
         StopMerging \/ \E k \in Keys, op \in {"insert", "erase"} : Call(op, k)
  PROVE  Copies'
<1>1. CASE StopMerging
  <2>1. UNCHANGED <<tree, log, worker, leaves, created, cold, acked, astray>> /\ client.at = "merge" /\ client' = Idle
    BY <1>1 DEF StopMerging, nvm, shape
  <2>2. client'.at = "idle"
    BY <2>1 DEF Idle
  <2> QED BY <2>1, <2>2, CallKeepsCopies
<1>2. ASSUME NEW k \in Keys, NEW op \in {"insert", "erase"}, Call(op, k)
      PROVE  Copies'
  <2>1. op = "insert" => acked[k] = <<>>
    BY Zenon, <1>2, NoDuplicate
  <2>2. /\ UNCHANGED <<tree, log, worker, leaves, created, cold, acked, astray>> /\ client.at = "idle"
        /\ client'.at = "write" /\ client'.key = k /\ client'.op = op
    BY <1>2, CallIs
  <2> QED BY <2>1, <2>2, CallKeepsCopies
<1> QED BY <1>1, <1>2

(* Every step keeps the copies, if no leaf is split two-way and no key is  *)
(* inserted twice.                                                         *)
LEMMA CopiesStep ==
  ASSUME TwoWay = FALSE, Duplicates = FALSE, State, Producers, Shape, Copies, [Next]_vars
  PROVE  Copies'
<1>0. State'
  BY StateStep DEF Producers
<1>1. CASE UNCHANGED vars
  BY <1>1, StutterKeepsCopies
<1>2. ASSUME NEW k \in Keys, NEW op \in {"insert", "erase"}, Call(op, k)
      PROVE  Copies'
  BY Zenon, <1>2, BeginAndEndKeepCopies
<1>3. CASE ClientStep
  <2>1. CASE StopMerging
    BY Zenon, <2>1, BeginAndEndKeepCopies
  <2>2. CASE InsertLeaf \/ EraseLeaf
    BY Zenon, <1>0, <2>2, LeafKeepsCopies
  <2>3. CASE WriteCold \/ WriteLog
    BY Zenon, <2>3, WriteColdKeepsCopies, WriteLogKeepsCopies
  <2>4. CASE SplitNode \/ SplitReturns
    BY Zenon, <1>0, <2>4, SplitNodeKeepsCopies, SplitReturnsKeepsCopies
  <2>5. ASSUME NEW b \in Keys, SplitLeaf("fanout", b)
        PROVE  Copies'
    BY Zenon, <1>0, <2>5, SplitLeafKeepsCopies
  <2>6. ASSUME NEW B \in SUBSET Keys, ExpandRoot(B)
        PROVE  Copies'
    BY Zenon, <1>0, <2>6, ExpandRootKeepsCopies
  <2>7. ASSUME NEW adjacent \in DOMAIN leaves, Merge(adjacent)
        PROVE  Copies'
    BY Zenon, <1>0, <2>7, MergeKeepsCopies
  <2> QED BY Zenon, <1>3, <2>1, <2>2, <2>3, <2>4, <2>5, <2>6, <2>7 DEF ClientStep
<1>4. ASSUME NEW n \in Nodes, WorkerStep(n)
      PROVE  Copies'
  BY Zenon, <1>4, WorkerKeepsCopies
<1>5. CASE SwitchInnerNode
  BY Zenon, <1>0, <1>5, SwitchKeepsCopies
<1> QED BY Zenon, <1>1, <1>2, <1>3, <1>4, <1>5 DEF Next

(* Nothing is in the hybrid tree at first.                                 *)
LEMMA InitCopies == Init => Copies
<1> SUFFICES ASSUME Init PROVE Copies
  OBVIOUS
<1>1. /\ log = [n \in Nodes |-> <<>>] /\ tree = [n \in Nodes |-> NoValues]
      /\ worker = [n \in Nodes |-> Resting] /\ client = Idle /\ acked = NoValues /\ cold = {}
      /\ leaves = <<Leaf(0, 0, NoValues)>>
  BY DEF Init
<1>2. \A n \in Nodes : log[n] = <<>> /\ tree[n] = NoValues /\ worker[n] = Resting /\ worker[n].at = "idle"
  BY <1>1 DEF Resting
<1>3. client.at = "idle" /\ \A k \in Keys : acked[k] = <<>> /\ NoValues[k] = <<>>
  BY <1>1 DEF Idle, NoValues
<1>4. \A n \in Nodes, k \in Tracked : ~Stays(n, k) /\ OneEach(n, k)
  <2> TAKE n \in Nodes, k \in Tracked
  <2>1. log[n] = <<>> /\ tree[n][k] = <<>>
    BY <1>2, <1>3 DEF Tracked
  <2>2. DOMAIN log[n] = {}
    BY <2>1
  <2>3. Sound(log[n], InTree(n, k), k)
    BY <2>2 DEF Sound
  <2> QED BY <2>1, <2>3, NothingStays DEF OneEach
<1>5. Trees
  <2>1. \A n \in Nodes : Batch(n)
    BY <1>2 DEF Batch
  <2> QED BY <2>1, <1>1, <1>2, <1>4 DEF Trees
<1>6. ~Splitting /\ ~Logged /\ \A k \in Keys : ~Now(k)
  BY <1>3 DEF Splitting, Logged, Now
<1>7. Placed
  BY <1>4, <1>6 DEF Placed, Tracked
<1>8. Pending /\ PieceKeys /\ HotCall
  BY <1>3, <1>6 DEF Pending, PieceKeys, HotCall
<1>9. Answers
  BY <1>3 DEF Answers
<1>10. HotData
  <2>1. DOMAIN leaves = {1} /\ leaves[1].data = NoValues
    BY <1>1 DEF Leaf
  <2> QED BY <2>1, <1>3 DEF HotData, Tracked
<1> QED BY <1>5, <1>7, <1>8, <1>9, <1>10 DEF Copies

(* The copies are with their leaves in every state.                        *)
LEMMA ReachableCopies ==
  ASSUME TwoWay = FALSE, Duplicates = FALSE
  PROVE  Spec => [](State /\ Producers /\ Shape /\ Copies)
<1>1. Init => Shape /\ Copies
  BY InitShape, InitCopies
<1>2. (State /\ Producers) /\ (Shape /\ Copies) /\ [Next]_vars => (Shape /\ Copies)'
  BY Zenon, ShapeStep, CopiesStep
<1>3. Spec => [](State /\ Producers)
  BY Reachable
<1> QED BY <1>1, <1>2, <1>3, PTL DEF Spec

-----------------------------------------------------------------------------
(* Wherever the process stops, a key whose insert returned is in a tree or *)
(* in a log of persistent memory: the client logs it before it returns,    *)
(* the worker that splits a node copies it before it deletes it, and no    *)
(* node that still has it is freed (hbtree.cc, inner_node.cc).             *)
THEOREM KeepsACopyHolds ==
  ASSUME TwoWay = FALSE, Duplicates = FALSE
  PROVE  Spec => []KeepsACopy
<1>1. State /\ Producers /\ Shape /\ Copies => KeepsACopy
  <2> SUFFICES ASSUME State, Producers, Shape, Copies,
                      NEW k \in Present(acked) \ astray, ~(client.op = "erase" /\ client.key = k)
               PROVE  \E n \in created \ freed : InNVM(n, k)
    BY DEF KeepsACopy
  <2>1. k \in Tracked /\ k \in Keys /\ acked[k] # <<>>
    BY DEF Present, Tracked
  <2>2. Now(k)
    <3>1. Logged => client.op \in {"insert", "erase"}
      BY DEF State, Begun, Logged, Splitting
    <3> QED BY <2>1, <3>1 DEF Now
  <2>3. PICK m : m = At(k)
    OBVIOUS
  <2>4. Owner(m) /\ m \in Nodes /\ m \in created
    <3>1. Owner(m)
      BY <2>1, <2>3, Home DEF At, Owner
    <3> QED BY <3>1, OwnerNodes
  <2>5. m \notin freed
    BY <2>4 DEF Owner, Moved, State, ChainOnce, Shape, NoneRecycled, NextInChain
  <2>6. Stays(m, k)
    BY <2>1, <2>2, <2>3, <2>4 DEF Copies, Placed
  <2>7. InNVM(m, k)
    BY <2>6 DEF Stays, There, InTree, About, InNVM
  <2> QED BY <2>4, <2>5, <2>7
<1>2. Spec => [](State /\ Producers /\ Shape /\ Copies)
  BY Zenon, ReachableCopies
<1> QED BY <1>1, <1>2, PTL

(* When the workers have caught up and no call is under way, the B+tree of *)
(* every leaf has the keys of the leaf with their values, and no other:    *)
(* what a split moves arrives once and is deleted once.                    *)
THEOREM TreesCatchUpHolds ==
  ASSUME TwoWay = FALSE, Duplicates = FALSE
  PROVE  Spec => []TreesCatchUp
<1>1. State /\ Producers /\ Shape /\ Copies => TreesCatchUp
  <2> SUFFICES ASSUME State, Producers, Shape, Copies, client.at = "idle", Drained,
                      NEW i \in DOMAIN leaves, NEW k \in Keys \ astray
               PROVE  tree[leaves[i].inner][k] = IF LeafOf(k) = i THEN acked[k] ELSE <<>>
    BY DEF TreesCatchUp
  <2>1. leaves[i].inner \in created \ freed
    BY DEF State, Inners, ChainOnce, Shape, NoneRecycled
  <2>2. log[leaves[i].inner] = <<>> /\ k \in Tracked
    BY <2>1 DEF Drained, Tracked
  <2> QED BY <2>2, CaughtUp
<1>2. Spec => [](State /\ Producers /\ Shape /\ Copies)
  BY Zenon, ReachableCopies
<1> QED BY <1>1, <1>2, PTL

(* A search between two calls returns what the calls that returned left,   *)
(* from the DRAM arrays of a hot leaf or from the B+tree of a cold one     *)
(* (hbtree.cc:44-52), whatever became of the leaf in between.              *)
THEOREM SearchesRightHolds ==
  ASSUME TwoWay = FALSE, Duplicates = FALSE
  PROVE  Spec => []SearchesRight
<1>1. State /\ Producers /\ Shape /\ Copies => SearchesRight
  <2> SUFFICES ASSUME State, Producers, Shape, Copies, client.at = "idle", NEW k \in Keys \ astray
               PROVE  Search(k) = Answer(k)
    BY DEF SearchesRight
  <2>1. PICK i : i = LeafOf(k)
    OBVIOUS
  <2>2. PICK v : v = IF leaves[i].inner \in cold THEN tree[leaves[i].inner][k] ELSE leaves[i].data[k]
    OBVIOUS
  <2>3. i \in DOMAIN leaves /\ k \in Tracked
    BY <2>1, Home DEF Tracked
  <2>4. v = acked[k]
    <3>1. CASE leaves[i].inner \in cold
      <4>1. log[leaves[i].inner] = <<>>
        BY <3>1 DEF Copies, Trees
      <4> QED BY <4>1, <3>1, <2>1, <2>2, <2>3, CaughtUp
    <3>2. CASE leaves[i].inner \notin cold
      BY <3>2, <2>1, <2>2, <2>3 DEF Copies, HotData
    <3> QED BY <3>1, <3>2
  <2>5. acked[k] \in {<<>>, <<1>>}
    BY DEF Copies, Answers
  <2>6. Head(<<1>>) = 1 /\ Last(<<1>>) = 1 /\ <<1>> # <<>>
    BY DEF Last
  <2>7. Search(k) = IF v = <<>> THEN {0}
                    ELSE IF leaves[i].inner \in cold THEN {Head(v), Last(v)} ELSE {Last(v)}
    BY <2>1, <2>2 DEF Search
  <2>8. Answer(k) = IF v = <<>> THEN {0} ELSE {Last(v)}
    BY <2>4 DEF Answer
  <2> QED BY <2>4, <2>5, <2>6, <2>7, <2>8
<1>2. Spec => [](State /\ Producers /\ Shape /\ Copies)
  BY Zenon, ReachableCopies
<1> QED BY <1>1, <1>2, PTL
=============================================================================
