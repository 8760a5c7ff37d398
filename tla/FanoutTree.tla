----------------------------- MODULE FanoutTree -----------------------------
(***************************************************************************)
(* Into how many children, of which sizes, a node is divided: the fanout   *)
(* tree has 2^l nodes at level l, each for an equal part of the key space, *)
(* the best complete level is found, and pairs of nodes are merged upwards *)
(* while that saves.  Costs are integers, and multiplied by num_keys.      *)
(***************************************************************************)
EXTENDS Integers, FiniteSets, FiniteSetsExt

CONSTANTS MaxLevel,           \* log2 of max_fanout
          kNodeLookupsWeight,
          DataNodeWeight,     \* kModelSizeWeight * sizeof(AlexDataNode) * total_keys
          PointerWeight       \* kModelSizeWeight * sizeof(void*) * total_keys

VARIABLE tree    \* the input: for each node of the fanout tree its number of keys and
                 \* the cost of a data node for them, and whether the keys are those of
                 \* an existing data node or are being bulk loaded

(* 1 << n, by doubling.                                                    *)
Pow2[n \in 0 .. MaxLevel] == IF n = 0 THEN 1 ELSE 2 * Pow2[n - 1]

Node(level, id) == [level |-> level, node_id |-> id]
Level(l) == {Node(l, i) : i \in 0 .. Pow2[l] - 1}
Nodes == UNION {Level(l) : l \in 0 .. MaxLevel}

(* Whoever uses this module has to see to it.                              *)
FanoutAssumption ==
  MaxLevel \in Nat /\ {kNodeLookupsWeight, DataNodeWeight, PointerWeight} \subseteq Nat

(* The buckets of level l that a node of a level up to l stands for.       *)
Span(n, l) == LET r == Pow2[l - n.level] IN n.node_id * r .. (n.node_id + 1) * r - 1
keys(n) == tree.keys[n]
num_keys == keys(Node(0, 0))

(* Bulk loading, the root has the cost of a lookup in it already.          *)
cost(n) == IF n.level = 0 /\ ~tree.existing THEN tree.cost[n] + kNodeLookupsWeight ELSE tree.cost[n]

(* What a node adds to the cost, and nodes together.                       *)
weight(n) == cost(n) * keys(n)
Total(S) == SumFunctionOnSet([n \in S |-> weight(n)], S)

(* compute_level: the cost of a model node with the nodes of one level.    *)
LevelCost(l) ==
  IF l = 0 /\ ~tree.existing THEN cost(Node(0, 0)) * num_keys
  ELSE Total(Level(l))
       + kNodeLookupsWeight * num_keys + Pow2[l] * (DataNodeWeight + PointerWeight)

(* The search ends when a level costs more than the one before, and that   *)
(* one more than its own, or at max_fanout.                                *)
LevelCosts == [l \in 0 .. MaxLevel |-> LevelCost(l)]
Tried(c) == {l \in 0 .. MaxLevel : \A m \in 2 .. l : c[m] <= c[m - 1] \/ c[m - 1] <= c[m - 2]}
best_level ==
  LET c == LevelCosts
      tried == Tried(c)
  IN  CHOOSE l \in tried : \A m \in tried : c[l] <= c[m] /\ (c[l] = c[m] => l <= m)

LeftOf(n) == Node(n.level + 1, 2 * n.node_id)
RightOf(n) == Node(n.level + 1, 2 * n.node_id + 1)
Pair(n) == {LeftOf(n), RightOf(n)}

(* Defect: the cost of the merged node is left out. *)
SavingWithoutParent(n) == Total(Pair(n)) + DataNodeWeight

Saving(n) == Total(Pair(n)) - weight(n) + DataNodeWeight

Saved(S) == SumFunctionOnSet([n \in S |-> Saving(n)], S)

(* Defect: an empty pair is merged for nothing. *)
MergeLevelEmptyFree(s, l) ==
  LET merged == {n \in Level(l) : Pair(n) \subseteq s.use /\ (keys(n) = 0 \/ Saving(n) >= 0)}
  IN  [use |-> (s.use \ UNION {Pair(n) : n \in merged}) \cup merged,
       cost |-> s.cost - Saved({n \in merged : keys(n) # 0})]

(* Defect: the right child of a merged pair is still used. *)
MergeLevelKeepingRight(s, l) ==
  LET merged == {n \in Level(l) : Pair(n) \subseteq s.use /\ (keys(n) = 0 \/ Saving(n) >= 0)}
  IN  [use |-> (s.use \ {Node(l + 1, 2 * n.node_id) : n \in merged}) \cup merged,
       cost |-> s.cost - Saved(merged)]

(* The pairs under level l of which both are used are merged where there   *)
(* are no keys or that saves.                                              *)
MergeLevel(s, l) ==
  LET merged == {n \in Level(l) : Pair(n) \subseteq s.use /\ (keys(n) = 0 \/ Saving(n) >= 0)}
  IN  [use |-> (s.use \ UNION {Pair(n) : n \in merged}) \cup merged,
       cost |-> s.cost - Saved(merged)]

(* merge_nodes_upwards: level by level.  That it stops after a level with  *)
(* no merge changes nothing, as no pair is left then.                      *)
merge_nodes_upwards ==
  LET best == best_level
      from[l \in 0 .. best] ==
        IF l = best THEN [use |-> Level(l), cost |-> LevelCost(l)]
        ELSE MergeLevel(from[l + 1], l)
  IN  from[0]

(* The node is divided if the best level is not the root's.                *)
Divides == best_level > 0

-----------------------------------------------------------------------------
(* What is known of the input: a node has the keys of the two below it.    *)
Reckoned ==
  /\ tree.keys \in [Nodes -> Nat] /\ tree.cost \in [Nodes -> Int] /\ tree.existing \in BOOLEAN
  /\ \A l \in 0 .. MaxLevel - 1 : \A n \in Level(l) : keys(n) = keys(LeftOf(n)) + keys(RightOf(n))

(* A node with no keys is not divided: costs are per key.                  *)
Asked == num_keys > 0

(* The used nodes have each bucket of the best level exactly once: a model *)
(* node filled with them in order has no empty and no overwritten child.   *)
UsedTile ==
  Asked =>
    LET use == merge_nodes_upwards.use
        best == best_level
    IN  \A b \in 0 .. Pow2[best] - 1 : Cardinality({n \in use : b \in Span(n, best)}) = 1

(* A node that is divided has at least two children, though merging might  *)
(* go on up to the root: every merge saves, and the root alone with all    *)
(* those pointers costs more than the level that beat it.                  *)
NeverOneChild == Asked /\ Divides => Node(0, 0) \notin merge_nodes_upwards.use

(* The cost that is returned is that of the children that are used, with   *)
(* the pointers of the best level; so it is at most any tried level's.     *)
CostOfChildren ==
  Asked =>
    LET s == merge_nodes_upwards
        children == Total(s.use)
                    + kNodeLookupsWeight * num_keys + Cardinality(s.use) * DataNodeWeight
                    + Pow2[best_level] * PointerWeight
        c == LevelCosts
    IN  /\ Divides => s.cost = children
        /\ \A l \in Tried(c) : s.cost <= c[l]
=============================================================================
