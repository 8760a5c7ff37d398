------------------------------ MODULE Routing -------------------------------
(***************************************************************************)
(* The model nodes of the learned index (AlexModelNode, Alex): arrays of   *)
(* child pointers in which a child of duplication factor d is repeated 2^d *)
(* times, a linear model that maps a key to a position in the array, the   *)
(* list of the leaves, and the splits, merges and root expansions that     *)
(* change them together.  A leaf is the set of its keys.  A linear model   *)
(* is given by where its first bucket begins and how wide a bucket is, all *)
(* integers: routing is exact, and get_leaf's correction of rounding       *)
(* errors never applies.  All leaves are hot.                              *)
(***************************************************************************)
EXTENDS Integers, Sequences, FiniteSets, FiniteSetsExt, SequencesExt, Ordering

CONSTANTS Keys,        \* integers
          Lowest,      \* numeric_limits<T>::lowest()
          max_fanout,  \* derived_params_.max_fanout
          SplitAt,     \* keys from which a leaf may refuse an insert
          kMinOutOfDomainKeys, kMaxOutOfDomainKeys, kOutOfDomainToleranceFactor,
          MaxNodes     \* bound: nodes alive at a time

ASSUME KeysAssumption == Keys \subseteq Int /\ Lowest \in Int /\ \A k \in Keys : Lowest < k
ASSUME SplitAssumption == SplitAt \in Nat /\ SplitAt >= 2

VARIABLES
  root,      \* root_node_
  model,     \* model nodes: children, begin and width of the buckets, duplication factor
  leaf,      \* data nodes: keys, prev_leaf_, next_leaf_, duplication factor
  domain,    \* istats_: the key domain, keys counted below and above it, num_keys when it
             \* was last expanded to the left and to the right
  task       \* the call under way: an insert of key, or a merge at a leaf, with the path

vars == <<root, model, leaf, domain, task>>

null == 0
Idle == [op |-> "none", key |-> Lowest, at |-> null, path |-> <<>>]
Model(children, begin, width, d) ==
  [children |-> children, begin |-> begin, width |-> width, dup |-> d]
Leaf(keys, prev, next, d) == [keys |-> keys, prev |-> prev, next |-> next, dup |-> d]

IsLeaf(n) == n \in DOMAIN leaf
num_children(n) == Cardinality(DOMAIN model[n].children)
dup(n) == IF IsLeaf(n) THEN leaf[n].dup ELSE model[n].dup
Present == UNION {leaf[l].keys : l \in DOMAIN leaf}
num_keys == Cardinality(Present)
Log2(x) == CHOOSE e \in 0 .. x : 2 ^ e = x

(* The n smallest identifiers not in use. *)
Unused == (1 .. MaxNodes) \ (DOMAIN model \cup DOMAIN leaf)
NewNodes(n) == SubSeq(Ordered(Unused), 1, n)
Without(f, S) == [x \in DOMAIN f \ S |-> f[x]]

Bucket(n, k) == Max({0, Min({(k - model[n].begin) \div model[n].width, num_children(n) - 1})})

(* The nodes from the root down to the leaf of key k. *)
PathTo(k) ==
  LET go[n \in DOMAIN model \cup DOMAIN leaf] ==
        <<n>> \o IF IsLeaf(n) THEN <<>> ELSE go[model[n].children[Bucket(n, k)]]
  IN  go[root]
GetLeaf(k) == Last(PathTo(k))
ParentOn(path) == IF Len(path) = 1 THEN null ELSE path[Len(path) - 1]

(* The outermost leaf on one side. *)
EndLeaf(left) ==
  LET go[n \in DOMAIN model \cup DOMAIN leaf] ==
        IF IsLeaf(n) THEN n
        ELSE go[model[n].children[IF left THEN 0 ELSE num_children(n) - 1]]
  IN  go[root]

(* Defect: only the way forward is linked. *)
LinkedForward(f, s) ==
  [n \in DOMAIN f |->
    IF n \notin ToSet(s) THEN f[n]
    ELSE LET i == CHOOSE i \in DOMAIN s : s[i] = n
         IN  [f[n] EXCEPT !.next = IF i = Len(s) THEN @ ELSE s[i + 1]]]

(* f with the leaves of s, which may begin or end with null, linked in     *)
(* this order.                                                             *)
Linked(f, s) ==
  [n \in DOMAIN f |->
    IF n \notin ToSet(s) THEN f[n]
    ELSE LET i == CHOOSE i \in DOMAIN s : s[i] = n
         IN  [f[n] EXCEPT !.prev = IF i = 1 THEN @ ELSE s[i - 1],
                          !.next = IF i = Len(s) THEN @ ELSE s[i + 1]]]

Init ==
  /\ root = 1 /\ model = <<>> /\ leaf = [n \in {1} |-> Leaf({}, null, null, 0)]
  /\ domain = [min |-> Max(Keys), max |-> Lowest, below |-> 0, above |-> 0, left |-> 0, right |-> 0]
  /\ task = Idle

-----------------------------------------------------------------------------
(* insert: a key outside the key domain is counted, and may make the root  *)
(* expand before it is inserted.                                           *)
ShouldExpand(count, at_last_resize) ==
  /\ ~IsLeaf(root)
  /\ \/ count >= kMaxOutOfDomainKeys
     \/ /\ count >= kMinOutOfDomainKeys
        /\ count >= kOutOfDomainToleranceFactor * (num_keys \div at_last_resize - 1)

(* expand_root: by which power of two the domain has to grow for the key   *)
(* and the keys of the outermost leaf.                                     *)
ExpansionFactor(k, d, left, keys) ==
  LET size  == d.max - d.min
      reach == IF left THEN d.min - Min({k} \cup keys) ELSE Max({k} \cup keys) - d.max
      enough(e) == 2 ^ e * size >= reach + size
  IN  2 ^ (CHOOSE e \in 1 .. reach + size : enough(e) /\ (e > 1 => ~enough(e - 1)))

(* Each new leaf is for one domain size; the j-th of n gets these keys of  *)
(* the outermost leaf, which keeps those within the old domain.            *)
Share(keys, d, left, n, j) ==
  LET size == d.max - d.min
      from == IF left THEN d.min - (n - j + 1) * size ELSE d.max + (j - 1) * size
  IN  {x \in keys : IF left THEN x < from + size /\ (j > 1 => x >= from)
                    ELSE x >= from /\ (j < n => x < from + size)}
Kept(keys, d, left) == {x \in keys : IF left THEN x >= d.min ELSE x < d.max}

(* Either the root's array grows, each new leaf repeated as often as there *)
(* were children, or a new root has the old one as its first or last child.*)
ExpandRoot(k, d, left) ==
  LET outer   == EndLeaf(left)
      keys    == leaf[outer].keys
      factor  == ExpansionFactor(k, d, left, keys)
      more    == factor - 1
      n       == num_children(root)
      grows   == n * factor <= max_fanout
      group   == IF grows THEN n ELSE 1
      needed  == IF grows THEN more ELSE factor
      new     == NewNodes(needed)
      fresh   == SubSeq(new, 1, more)
      top     == IF grows THEN root ELSE new[factor]
      old(j)  == IF grows THEN model[root].children[j] ELSE root
      child(j) == IF left THEN IF j < group * more THEN fresh[j \div group + 1] ELSE old(j - group * more)
                  ELSE IF j < group THEN old(j) ELSE fresh[j \div group]
      leaves  == [x \in DOMAIN leaf \cup ToSet(fresh) |->
                    IF x = outer THEN [leaf[x] EXCEPT !.keys = Kept(keys, d, left)]
                    ELSE IF x \in DOMAIN leaf THEN leaf[x]
                    ELSE Leaf(Share(keys, d, left, more, CHOOSE j \in 1 .. more : fresh[j] = x),
                              null, null, Log2(group))]
  IN  /\ Cardinality(Unused) >= needed
      /\ root' = top
      /\ model' = [x \in DOMAIN model \cup {top} |->
           IF x # top THEN model[x]
           ELSE Model([j \in 0 .. group * factor - 1 |-> child(j)],
                      model[root].begin - (IF left THEN more * n * model[root].width ELSE 0),
                      IF grows THEN model[root].width ELSE n * model[root].width, 0)]
      /\ leaf' = Linked(leaves, IF left THEN Append(fresh, outer) ELSE <<outer>> \o fresh)
      /\ domain' = IF left
           THEN [d EXCEPT !.min = d.max - factor * (d.max - d.min), !.below = 0, !.left = num_keys]
           ELSE [d EXCEPT !.max = d.min + factor * (d.max - d.min), !.above = 0, !.right = num_keys]

Insert(k) ==
  LET above == k > domain.max
      below == ~above /\ k < domain.min
      d == [domain EXCEPT !.above = IF above THEN @ + 1 ELSE @, !.below = IF below THEN @ + 1 ELSE @]
  IN  /\ task.op = "none" /\ k \notin Present
      /\ task' = [Idle EXCEPT !.op = "insert", !.key = k]
      /\ IF \/ above /\ ShouldExpand(d.above, d.right)
            \/ below /\ ShouldExpand(d.below, d.left)
         THEN ExpandRoot(k, d, below)
         ELSE domain' = d /\ UNCHANGED <<root, model, leaf>>

(* The leaf takes the key. *)
Accept ==
  /\ task.op = "insert"
  /\ leaf' = [leaf EXCEPT ![GetLeaf(task.key)].keys = @ \cup {task.key}]
  /\ task' = Idle
  /\ UNCHANGED <<root, model, domain>>

(* A leaf under the superroot that refuses a key sets the key domain anew  *)
(* (update_superroot_key_domain).                                          *)
Refused(l) ==
  /\ task.op = "insert" /\ l = GetLeaf(task.key) /\ Cardinality(leaf[l].keys) >= SplitAt
  /\ domain' = IF l # root THEN domain
       ELSE [min |-> Min(leaf[l].keys), max |-> Max(leaf[l].keys), below |-> 0, above |-> 0,
             left |-> num_keys, right |-> num_keys]

(* No split: the leaf is expanded and its model retrained. *)
Retrain ==
  /\ Refused(GetLeaf(task.key))
  /\ UNCHANGED <<root, model, leaf, task>>

(* Defect: a key at the boundary goes to the left. *)
DivideLeafAfter(f, l, new, mid, d) ==
  LET half(n) == {k \in f[l].keys : IF n = new[1] THEN k <= mid ELSE k > mid}
  IN  Linked([n \in (DOMAIN f \ {l}) \cup {new[1], new[2]} |->
                IF n \in DOMAIN f THEN f[n] ELSE Leaf(half(n), null, null, d)],
             <<f[l].prev, new[1], new[2], f[l].next>>)

(* f without leaf l, divided at mid between two new leaves of duplication  *)
(* factor d (create_two_new_data_nodes, create_new_data_nodes).            *)
DivideLeaf(f, l, new, mid, d) ==
  LET half(n) == {k \in f[l].keys : IF n = new[1] THEN k < mid ELSE k >= mid}
  IN  Linked([n \in (DOMAIN f \ {l}) \cup {new[1], new[2]} |->
                IF n \in DOMAIN f THEN f[n] ELSE Leaf(half(n), null, null, d)],
             <<f[l].prev, new[1], new[2], f[l].next>>)

(* AlexModelNode::expand: every child pointer of p twice. *)
Children(p) == {model[p].children[j] : j \in DOMAIN model[p].children}
DupRaised(f, S) == [n \in DOMAIN f |-> IF n \in S THEN [f[n] EXCEPT !.dup = @ + 1] ELSE f[n]]
Doubled(p) ==
  [DupRaised(model, Children(p)) EXCEPT ![p] =
     Model([j \in 0 .. 2 * num_children(p) - 1 |-> model[p].children[j \div 2]],
           model[p].begin, model[p].width \div 2, model[p].dup)]

(* The children of model m with n in the r buckets from start. *)
Pointed(m, start, r, n) ==
  [m EXCEPT !.children = [j \in DOMAIN @ |-> IF j \in start .. start + r - 1 THEN n ELSE @[j]]]

ShouldSplitDownwards(l, parent) ==
  IF l = root THEN TRUE ELSE num_children(parent) * 2 > max_fanout * 2 ^ leaf[l].dup

(* split_sideways: the leaf's pointers in the parent are shared out.  If   *)
(* it has only one, the parent's array is doubled first.                   *)
SplitSideways ==
  LET path   == PathTo(task.key)
      l      == Last(path)
      parent == ParentOn(path)
      alone  == leaf[l].dup = 0
      m      == IF alone THEN Doubled(parent) ELSE model
      f      == IF alone THEN DupRaised(leaf, Children(parent)) ELSE leaf
      bucket == Bucket(parent, task.key) * (IF alone THEN 2 ELSE 1)
      half   == 2 ^ (f[l].dup - 1)
      start  == bucket - (bucket % (2 * half))
      new    == NewNodes(2)
  IN  /\ Refused(l) /\ ~ShouldSplitDownwards(l, parent) /\ Cardinality(Unused) >= 2
      /\ alone => model[parent].width % 2 = 0
      /\ model' = [m EXCEPT ![parent] =
           Pointed(Pointed(@, start, half, new[1]), start + half, half, new[2])]
      /\ leaf' = DivideLeaf(f, l, new, m[parent].begin + (start + half) * m[parent].width, f[l].dup - 1)
      /\ UNCHANGED <<root, task>>

(* split_downwards: a model node with two children takes the leaf's place  *)
(* in the parent; under the superroot it becomes the root.                 *)
SplitDownwards ==
  LET path   == PathTo(task.key)
      l      == Last(path)
      parent == ParentOn(path)
      r      == 2 ^ leaf[l].dup
      bucket == Bucket(parent, task.key)
      start  == bucket - (bucket % r)
      begin  == IF l = root THEN Min(leaf[l].keys) ELSE model[parent].begin + start * model[parent].width
      size   == IF l = root THEN Max(leaf[l].keys) - begin ELSE r * model[parent].width
      new    == NewNodes(3)
      node   == Model([j \in 0 .. 1 |-> new[j + 1]], begin, size \div 2, leaf[l].dup)
      above  == IF l = root THEN model ELSE [model EXCEPT ![parent] = Pointed(@, start, r, new[3])]
  IN  /\ Refused(l) /\ ShouldSplitDownwards(l, parent) /\ Cardinality(Unused) >= 3
      /\ size % 2 = 0
      /\ model' = [n \in DOMAIN model \cup {new[3]} |-> IF n = new[3] THEN node ELSE above[n]]
      /\ leaf' = DivideLeaf(leaf, l, new, begin + size \div 2, 0)
      /\ root' = IF l = root THEN new[3] ELSE root
      /\ UNCHANGED task

-----------------------------------------------------------------------------
(* Defect: the counts of keys outside the domain only grow. *)
EraseUncounted(k) ==
  LET path == PathTo(k)
      l == Last(path)
  IN  /\ task.op = "none" /\ (k \in leaf[l].keys \/ (leaf[l].keys = {} /\ l # root))
      /\ leaf' = [leaf EXCEPT ![l].keys = @ \ {k}]
      /\ task' = IF leaf[l].keys \subseteq {k} /\ l # root
                 THEN [op |-> "merge", key |-> k, at |-> l, path |-> Front(path)] ELSE Idle
      /\ UNCHANGED <<root, model, domain>>

(* erase; an empty leaf is merged, and the leaf it merges into if that is  *)
(* empty too.  A key that is not there may find its leaf empty already.    *)
Erase(k) ==
  LET path == PathTo(k)
      l == Last(path)
      erased == k \in leaf[l].keys
      above == erased /\ k > domain.max
      below == erased /\ ~above /\ k < domain.min
  IN  /\ task.op = "none" /\ (k \in leaf[l].keys \/ (leaf[l].keys = {} /\ l # root))
      /\ leaf' = [leaf EXCEPT ![l].keys = @ \ {k}]
      /\ task' = IF leaf[l].keys \subseteq {k} /\ l # root
                 THEN [op |-> "merge", key |-> k, at |-> l, path |-> Front(path)] ELSE Idle
      /\ domain' = [domain EXCEPT !.above = IF above THEN @ - 1 ELSE @,
                                  !.below = IF below THEN @ - 1 ELSE @]
      /\ UNCHANGED <<root, model>>

(* The sibling: the leaf of the same duplication factor that has the other *)
(* half of an aligned range of pointers; null if there is none.            *)
ToRight(l, bucket) == bucket % (2 ^ (leaf[l].dup + 1)) = bucket % (2 ^ leaf[l].dup)
Start(l, bucket) == bucket - (bucket % 2 ^ leaf[l].dup)
Whole(l, parent) == 2 ^ leaf[l].dup = num_children(parent)
(* Defect: the sibling may have another duplication factor. *)
SiblingOfAnySize(l, parent, bucket) ==
  LET at == IF ToRight(l, bucket) THEN Start(l, bucket) + 2 ^ leaf[l].dup ELSE Start(l, bucket) - 1
      n == model[parent].children[at]
  IN  IF Whole(l, parent) \/ ~IsLeaf(n) THEN null ELSE n

Sibling(l, parent, bucket) ==
  LET at == IF ToRight(l, bucket) THEN Start(l, bucket) + 2 ^ leaf[l].dup ELSE Start(l, bucket) - 1
      n == model[parent].children[at]
  IN  IF Whole(l, parent) \/ ~IsLeaf(n) \/ leaf[n].dup # leaf[l].dup THEN null ELSE n

Merging == task.op = "merge"
Parent == Last(task.path)
ParentBucket == Bucket(Parent, task.key)
MergesSideways == leaf[task.at].keys = {} /\ Sibling(task.at, Parent, ParentBucket) # null

(* The pointers to an empty leaf are redirected to its sibling.            *)
MergeWithSibling ==
  LET l == task.at
      s == Sibling(l, Parent, ParentBucket)
      rest == [n \in DOMAIN leaf \ {l} |-> IF n = s THEN [leaf[n] EXCEPT !.dup = @ + 1] ELSE leaf[n]]
  IN  /\ Merging /\ MergesSideways
      /\ model' = [model EXCEPT ![Parent] = Pointed(@, Start(l, ParentBucket), 2 ^ leaf[l].dup, s)]
      /\ leaf' = Linked(rest, IF ToRight(l, ParentBucket) THEN <<leaf[l].prev, s>> ELSE <<s, leaf[l].next>>)
      /\ task' = [task EXCEPT !.at = s]
      /\ UNCHANGED <<root, domain>>

(* Defect: the parent that was replaced is not deleted. *)
MergeUpLeaking ==
  LET l == task.at
      above == Front(task.path)
      grandparent == Last(above)
      bucket == Bucket(grandparent, task.key)
      r == 2 ^ model[Parent].dup
  IN  /\ Merging /\ ~MergesSideways /\ Whole(l, Parent)
      /\ leaf' = [leaf EXCEPT ![l].dup = model[Parent].dup]
      /\ IF Parent = root
         THEN root' = l /\ task' = Idle /\ UNCHANGED model
         ELSE /\ model' = [model EXCEPT ![grandparent] = Pointed(@, bucket - (bucket % r), r, l)]
              /\ task' = [task EXCEPT !.path = above]
              /\ UNCHANGED root
      /\ UNCHANGED domain

(* A leaf that all pointers of its parent lead to takes the parent's place. *)
MergeUp ==
  LET l == task.at
      above == Front(task.path)
      grandparent == Last(above)
      bucket == Bucket(grandparent, task.key)
      r == 2 ^ model[Parent].dup
      rest == Without(model, {Parent})
  IN  /\ Merging /\ ~MergesSideways /\ Whole(l, Parent)
      /\ leaf' = [leaf EXCEPT ![l].dup = model[Parent].dup]
      /\ IF Parent = root
         THEN root' = l /\ model' = rest /\ task' = Idle
         ELSE /\ model' = [rest EXCEPT ![grandparent] = Pointed(@, bucket - (bucket % r), r, l)]
              /\ task' = [task EXCEPT !.path = above]
              /\ UNCHANGED root
      /\ UNCHANGED domain

StopMerging ==
  /\ Merging /\ ~MergesSideways /\ ~Whole(task.at, Parent)
  /\ task' = Idle
  /\ UNCHANGED <<root, model, leaf, domain>>

-----------------------------------------------------------------------------
Next ==
  \/ \E k \in Keys : Insert(k) \/ Erase(k)
  \/ Accept \/ Retrain \/ SplitSideways \/ SplitDownwards
  \/ MergeWithSibling \/ MergeUp \/ StopMerging

Spec == Init /\ [][Next]_vars

-----------------------------------------------------------------------------
(* The leaves, each with the least key value that is routed to it.         *)
Routed ==
  LET under[n \in DOMAIN model \cup DOMAIN leaf] ==
        IF IsLeaf(n) THEN {[at |-> n, from |-> Lowest]}
        ELSE LET m == model[n]
                 first == {j \in DOMAIN m.children : j = 0 \/ m.children[j] # m.children[j - 1]}
             IN  UNION {{[x EXCEPT !.from = IF j > 0 /\ @ = Lowest THEN m.begin + j * m.width ELSE @] :
                          x \in under[m.children[j]]} : j \in first}
  IN  under[root]

TypeOK ==
  LET nodes == 1 .. MaxNodes
  IN  /\ root \in DOMAIN model \cup DOMAIN leaf
      /\ DOMAIN model \subseteq nodes /\ DOMAIN leaf \subseteq nodes \ DOMAIN model
      /\ \A n \in DOMAIN model :
           /\ model[n].children \in [0 .. num_children(n) - 1 -> DOMAIN model \cup DOMAIN leaf]
           /\ model[n].begin \in Int /\ model[n].width \in Nat \ {0} /\ model[n].dup \in Nat
      /\ \A l \in DOMAIN leaf :
           leaf[l] \in [keys : SUBSET Keys, prev : {null} \cup DOMAIN leaf,
                        next : {null} \cup DOMAIN leaf, dup : Nat]
      /\ domain \in [{"min", "max", "below", "above", "left", "right"} -> Int]
      /\ task.op \in {"none", "insert", "merge"}

(* AlexModelNode::validate_structure: between two calls, a model node has  *)
(* a power of two of children, not all the same; a child of duplication    *)
(* factor d has exactly one aligned run of 2^d pointers.                   *)
WellFormed(n) ==
  LET c == model[n].children
      bucketsOf(x) == {j \in DOMAIN c : c[j] = x}
  IN  /\ num_children(n) >= 2 /\ \E e \in 1 .. num_children(n) : num_children(n) = 2 ^ e
      /\ \A x \in Children(n) :
           \E i \in 0 .. num_children(n) \div 2 ^ dup(x) - 1 :
             bucketsOf(x) = i * 2 ^ dup(x) .. (i + 1) * 2 ^ dup(x) - 1
      /\ Cardinality(Children(n)) > 1
ValidStructure == TypeOK /\ (task.op # "merge" => \A n \in DOMAIN model : WellFormed(n))

(* The list of the leaves, followed either way, is in the order of the     *)
(* keys that the model nodes route to them.                                *)
LeavesLinked ==
  LET R == Routed
      nearest(x, y) == \A z \in R : z.from <= x.from \/ y.from <= z.from
      follows(x, y) == x.from < y.from /\ nearest(x, y)
  IN  \A x \in R :
        /\ LET after == {y.at : y \in {z \in R : follows(x, z)}}
           IN  IF after = {} THEN leaf[x.at].next = null ELSE after = {leaf[x.at].next}
        /\ LET before == {y.at : y \in {z \in R : follows(z, x)}}
           IN  IF before = {} THEN leaf[x.at].prev = null ELSE before = {leaf[x.at].prev}

(* No node is lost, and none has two parents: each leaf is routed to once, *)
(* and each node but the root is the child of one model node.              *)
NoneLost ==
  /\ {x.at : x \in Routed} = DOMAIN leaf /\ Cardinality(Routed) = Cardinality(DOMAIN leaf)
  /\ UNION {Children(n) : n \in DOMAIN model} = (DOMAIN model \cup DOMAIN leaf) \ {root}
  /\ \A m, n \in DOMAIN model : m # n => Children(m) \cap Children(n) = {}

(* The tree keeps each key in the leaf that lookups of the key reach.      *)
Held == LET R == Routed
        IN  [b \in {x.from : x \in R} |-> UNION {leaf[x.at].keys : x \in {y \in R : y.from = b}}]
List == INSTANCE LeafList WITH held <- Held
ListSpec == List!Spec

(* The counts that decide when the root expands are those of the keys      *)
(* outside the key domain, or one less in all: the key whose insert split  *)
(* the root was counted before update_superroot_key_domain cleared the     *)
(* counts, and may lie outside the new domain.                             *)
CountsNearlyRight ==
  task.op = "none" /\ ~IsLeaf(root) =>
    LET above == Cardinality({k \in Present : k > domain.max}) - domain.above
        below == Cardinality({k \in Present : k < domain.min}) - domain.below
    IN  above \in 0 .. 1 /\ below \in 0 .. 1 - above
=============================================================================
