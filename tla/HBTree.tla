------------------------------- MODULE HBTree -------------------------------
(***************************************************************************)
(* The hybrid tree: leaves of the learned index in DRAM, one inner node    *)
(* per leaf with a B+tree and, while hot, a log in persistent memory, a    *)
(* worker thread per log that applies it, and one client thread.  A log is *)
(* the bounded queue that NVMLog implements (LogQueue); a B+tree maps a    *)
(* key to the values inserted for it, oldest first, and keeps the scan     *)
(* directions of its pages, on which range searches depend; the model      *)
(* nodes above the leaves are the partition of the keys they compute.      *)
(***************************************************************************)
EXTENDS Integers, Sequences, FiniteSets, SequencesExt, Ordering

CONSTANTS Keys,        \* naturals
          Nodes,       \* identifiers of inner nodes, 0 .. n
          LogSlots,    \* capacity of a log, in entries
          PageSlots,   \* records of a B+tree page that is full, cardinality - 1
          SplitAt,     \* entries from which a leaf may be too costly
          HOT_NODE_NUM,
          TwoWay,      \* whether leaves also split for catastrophic cost or size (fail >= 2)
          Duplicates,  \* whether the client inserts a key that is present
          MaxOps       \* bound: operations of the client

ASSUME KeysAssumption == IsFiniteSet(Keys) /\ Keys \subseteq Nat /\ Keys # {}
ASSUME NodesAssumption == IsFiniteSet(Nodes) /\ 0 \in Nodes /\ Nodes = 0 .. Cardinality(Nodes) - 1
ASSUME SlotsAssumption == LogSlots \in Nat \ {0} /\ PageSlots \in Nat \ {0}
ASSUME BoundAssumption == MaxOps \in Nat

VARIABLES
  leaves,    \* the leaf list: per leaf its inner node, least key and DRAM entries
  chain,     \* the list of inner nodes after dummy_
  created,   \* node_id: inner nodes made so far
  cold,      \* inner nodes of type COLDNODE, whose leaf is_cold
  to_be_recycled, freed,
  tree,      \* bt_: per inner node, the values of each key
  pages,     \* how its leaf pages are scanned: one page forward or backward, or many pages
  log,       \* log_: entries accepted and not applied
  split_,    \* the latch of each log
  worker,    \* per inner node, where its worker is in a split entry
  client,    \* the operation under way
  acked,     \* the values each key must have, by the operations that returned
  astray,    \* keys whose NVM copy is not with their leaf: SplitLeaf, BeginSplit, Merge
  broken,    \* SwitchInnerNode walked off the chain, or loaded a leaf out of order
  ops

nvm == <<tree, pages, log, split_, worker>>
shape == <<leaves, chain, created, cold, to_be_recycled, freed>>
vars == <<nvm, shape, client, acked, astray, broken, ops>>

NoValues == [k \in Keys |-> <<>>]
Idle == [at |-> "idle", key |-> 0, op |-> "none", leaf |-> 0, old |-> 0, todo |-> <<>>,
         then |-> "leaf"]
Resting == [at |-> "idle", batch |-> <<>>, i |-> 0]

Present(d) == {k \in Keys : d[k] # <<>>}
(* Defect: a key equal to a leaf's least key is routed to the leaf before. *)
LeafOfExclusive(k) == CHOOSE i \in DOMAIN leaves :
                        leaves[i].from < k /\ \A j \in i + 1 .. Len(leaves) : k <= leaves[j].from

LeafOf(k) == CHOOSE i \in DOMAIN leaves :
               leaves[i].from <= k /\ \A j \in i + 1 .. Len(leaves) : k < leaves[j].from
InnerOf(k) == leaves[LeafOf(k)].inner
Leaf(n, from, data) == [inner |-> n, from |-> from, data |-> data]
Entry(type, k, v, n) == [type |-> type, key |-> k, value |-> v, to |-> n]

Contents == [Keys -> Seq(Nat)]
LeafType == [inner : Nodes, from : Nat, data : Contents]
Entries == [type : {"insert", "erase"}, key : Keys, value : Nat, to : {0}]
           \cup [type : {"split"}, key : Nat, value : Nat, to : Nodes]
WorkerType == [at : {"idle", "move", "prune"}, batch : Seq(Keys \X Nat), i : Nat]
ClientType == [at : {"idle", "write", "leaf", "split", "wait", "merge"}, key : Keys \cup {0},
               op : {"none", "insert", "erase"}, leaf : Nat, old : Nodes, todo : Seq(Nat),
               then : {"leaf", "write"}]

TypeOK ==
  /\ leaves \in Seq(LeafType) /\ leaves # <<>>
  /\ chain \in Seq(Nodes) /\ created \subseteq Nodes
  /\ cold \cup to_be_recycled \cup freed \subseteq created
  /\ tree \in [Nodes -> Contents] /\ pages \in [Nodes -> {"forward", "backward", "many"}]
  /\ log \in [Nodes -> Seq(Entries)] /\ \A n \in Nodes : Len(log[n]) <= LogSlots
  /\ split_ \in [Nodes -> BOOLEAN] /\ worker \in [Nodes -> WorkerType]
  /\ client \in ClientType /\ acked \in Contents /\ astray \subseteq Keys
  /\ broken \in BOOLEAN /\ ops \in 0 .. MaxOps

Init ==
  /\ leaves = <<Leaf(0, 0, NoValues)>> /\ chain = <<0>> /\ created = {0}
  /\ cold = {} /\ to_be_recycled = {} /\ freed = {}
  /\ tree = [n \in Nodes |-> NoValues] /\ pages = [n \in Nodes |-> "forward"]
  /\ log = [n \in Nodes |-> <<>>]
  /\ split_ = [n \in Nodes |-> FALSE] /\ worker = [n \in Nodes |-> Resting]
  /\ client = Idle /\ acked = NoValues /\ astray = {} /\ broken = FALSE /\ ops = 0

-----------------------------------------------------------------------------
(* The B+tree: a new value goes right of the older ones of its key, delete *)
(* removes the left-most.                                                  *)
BtreeInsert(t, k, v) == [t EXCEPT ![k] = Append(@, v)]
BtreeDelete(t, k) == [t EXCEPT ![k] = IF @ = <<>> THEN @ ELSE Tail(@)]

Pairs(t, S) ==
  LET ks == Ordered(S)
  IN  FlattenSeq([i \in DOMAIN ks |-> [j \in DOMAIN t[ks[i]] |-> <<ks[i], t[ks[i]][j]>>]])

Entered(t) == Len(Pairs(t, Present(t)))

(* An insert makes the switch counter of its page even, a removal odd.     *)
(* Once a page has split, which keys share a page is left open.            *)
AfterInsert(n) == IF pages[n] = "many" \/ Entered(tree[n]) >= PageSlots THEN "many" ELSE "forward"
AfterDelete(n, k) == IF pages[n] = "many" \/ tree[n][k] = <<>> THEN pages[n] ELSE "backward"

(* The leaf pages of node n: from which key on, and how each is scanned.   *)
Layouts(n) ==
  IF pages[n] = "many"
  THEN UNION {[{0} \cup starts -> {"forward", "backward"}] : starts \in SUBSET Keys}
  ELSE [{0} -> {pages[n]}]
OnPage(t, layout, p) == {k \in Present(t) : p <= k /\ \A q \in DOMAIN layout : q <= k => q <= p}

(* Defect: the scan from left to right leaves out max. *)
ScanPageExclusive(t, S, direction, min, max) ==
  IF direction = "forward" THEN Pairs(t, {k \in S : min <= k /\ k < max})
  ELSE IF \E k \in S : k > max THEN <<>> ELSE Reverse(Pairs(t, {k \in S : min <= k}))

(* linear_search_range on the page with the keys of S.  From right to left *)
(* a key above max is met before those of the range, and ends the search.  *)
ScanPage(t, S, direction, min, max) ==
  IF direction = "forward" THEN Pairs(t, {k \in S : min <= k /\ k <= max})
  ELSE IF \E k \in S : k > max THEN <<>> ELSE Reverse(Pairs(t, {k \in S : min <= k}))

(* The pages left of min, and right of one that ends the search, have no   *)
(* entry to add.                                                           *)
RangeSearch(t, layout, min, max) ==
  LET starts == Ordered(DOMAIN layout)
  IN  FlattenSeq([i \in DOMAIN starts |->
        ScanPage(t, OnPage(t, layout, starts[i]), layout[starts[i]], min, max)])

(* Defect: a full log takes one more entry. *)
AcceptsFull(n) == Len(log[n]) <= LogSlots

Accepts(n) == Len(log[n]) < LogSlots
Write(n, entry) == Accepts(n) /\ log' = [log EXCEPT ![n] = Append(@, entry)]

-----------------------------------------------------------------------------
(* The client.  A call on a hot leaf first writes the log, where it waits  *)
(* while the log is full, then changes the leaf.                           *)
Call(op, k) ==
  /\ client.at = "idle" /\ ~broken /\ ops < MaxOps
  /\ op = "insert" => Duplicates \/ acked[k] = <<>>
  /\ client' = [Idle EXCEPT !.at = "write", !.key = k, !.op = op]
  /\ ops' = ops + 1
  /\ UNCHANGED <<nvm, shape, acked, astray, broken>>

Value(k) == IF client.op = "insert" THEN Len(acked[k]) + 1 ELSE 0
Acknowledge(k) ==
  acked' = [acked EXCEPT ![k] = IF client.op = "insert" THEN Append(@, Value(k)) ELSE <<>>]

WriteCold ==
  LET k == client.key
      n == InnerOf(k)
  IN  /\ client.at = "write" /\ n \in cold /\ n \notin freed
      /\ tree' = [tree EXCEPT ![n] = IF client.op = "insert" THEN BtreeInsert(@, k, Value(k))
                                     ELSE BtreeDelete(@, k)]
      /\ pages' = [pages EXCEPT ![n] = IF client.op = "insert" THEN AfterInsert(n) ELSE AfterDelete(n, k)]
      /\ Acknowledge(k) /\ client' = Idle
      /\ UNCHANGED <<log, split_, worker, shape, astray, broken, ops>>

WriteLog ==
  LET k == client.key
      n == InnerOf(k)
  IN  /\ client.at = "write" /\ n \notin cold /\ n \notin freed
      /\ Write(n, Entry(client.op, k, Value(k), 0))
      /\ client' = [client EXCEPT !.at = "leaf"]
      /\ UNCHANGED <<tree, pages, split_, worker, shape, acked, astray, broken, ops>>

InsertLeaf ==
  LET k == client.key
  IN  /\ client.at = "leaf" /\ client.op = "insert"
      /\ leaves' = [leaves EXCEPT ![LeafOf(k)].data[k] = Append(@, Value(k))]
      /\ Acknowledge(k) /\ client' = Idle
      /\ UNCHANGED <<nvm, chain, created, cold, to_be_recycled, freed, astray, broken, ops>>

-----------------------------------------------------------------------------
(* Leaf i divided at the keys of B: pieces that still have its inner node. *)
(* The inner node is split for each piece of todo, the last one first.     *)
Divide(i, B) ==
  LET starts == Ordered({leaves[i].from} \cup B)
      in(j, k) == starts[j] <= k /\ (j < Len(starts) => k < starts[j + 1])
  IN  [j \in DOMAIN starts |->
         Leaf(leaves[i].inner, starts[j],
              [k \in Keys |-> IF in(j, k) THEN leaves[i].data[k] ELSE <<>>])]

Replace(i, pieces) == SubSeq(leaves, 1, i - 1) \o pieces \o SubSeq(leaves, i + 1, Len(leaves))
Inside(i, B) == \A b \in B : leaves[i].from < b /\ (i < Len(leaves) => b < leaves[i + 1].from)
Spare(n) == Cardinality(created) + n <= Cardinality(Nodes)

(* A leaf that refuses the key is replaced by two, divided at a key.  Two- *)
(* way (create_two_new_data_nodes), the left one keeps the inner node;     *)
(* with a fanout tree (create_new_data_nodes) both get new ones.  The key  *)
(* is already in the old node's log: unless it lies within the keys of its *)
(* new leaf, its copy stays behind with the old node.                      *)
SplitLeaf(kind, b) ==
  LET k == client.key
      i == LeafOf(k)
      pieces == Divide(i, {b})
      home == Present(pieces[IF k < b THEN 1 ELSE 2].data)
      within == \E j, l \in home : j <= k /\ k <= l
  IN  /\ client.at = "leaf" /\ client.op = "insert"
      /\ Cardinality(Present(leaves[i].data)) >= SplitAt
      /\ Inside(i, {b}) /\ Spare(IF kind = "two" THEN 1 ELSE 2)
      /\ leaves' = Replace(i, pieces)
      /\ client' = [client EXCEPT !.at = "split", !.old = leaves[i].inner, !.then = "leaf",
                                  !.todo = IF kind = "two" THEN <<i + 1>> ELSE <<i + 1, i>>]
      /\ astray' = IF within \/ (kind = "two" /\ k < b) THEN astray ELSE astray \cup {k}
      /\ UNCHANGED <<nvm, chain, created, cold, to_be_recycled, freed, acked, broken, ops>>

(* expand_root: before the insert of a key outside the key domain, the     *)
(* first or the last leaf gives keys to new leaves on its outer side.  The *)
(* left-most of them keeps the inner node.                                 *)
ExpandRoot(B) ==
  LET i == LeafOf(client.key)
      outer == [j \in 1 .. Cardinality(B) |-> i + Cardinality(B) + 1 - j]
  IN  /\ client.at = "write" /\ client.op = "insert" /\ client.then = "leaf"
      /\ Len(leaves) > 1 /\ i \in {1, Len(leaves)} /\ leaves[i].inner \notin cold
      /\ B # {} /\ Inside(i, B) /\ Spare(Cardinality(B))
      /\ leaves' = Replace(i, Divide(i, B))
      /\ client' = [client EXCEPT !.at = "split", !.old = leaves[i].inner, !.then = "write",
                                  !.todo = outer]
      /\ UNCHANGED <<nvm, chain, created, cold, to_be_recycled, freed, acked, astray, broken, ops>>

Least(S) == CHOOSE k \in S : \A j \in S : k <= j
Greatest(S) == CHOOSE k \in S : \A j \in S : k >= j

(* InnerNode::split: link a new hot node after the old one and ask the old *)
(* one's worker to move the keys from first_key to last_key of the leaf.   *)
SplitNode ==
  LET old == client.old
      new == Cardinality(created)
      keys == Present(leaves[Head(client.todo)].data)
      at == CHOOSE i \in DOMAIN chain : chain[i] = old
  IN  /\ client.at = "split" /\ old \notin freed
      /\ created' = created \cup {new}
      /\ chain' = SubSeq(chain, 1, at) \o <<new>> \o SubSeq(chain, at + 1, Len(chain))
      /\ Write(old, IF keys = {} THEN Entry("split", 1, 0, new)
                    ELSE Entry("split", Least(keys), Greatest(keys), new))
      /\ split_' = [split_ EXCEPT ![old] = FALSE]
      /\ client' = [client EXCEPT !.at = "wait", !.leaf = new]
      /\ UNCHANGED <<tree, pages, worker, leaves, cold, to_be_recycled, freed, acked, astray, broken, ops>>

(* Defect: the old leaf is not deleted. *)
SplitReturnsKeepingOld ==
  LET rest == Tail(client.todo)
  IN  /\ client.at = "wait" /\ split_[client.old]
      /\ leaves' = [leaves EXCEPT ![Head(client.todo)].inner = client.leaf]
      /\ client' = [client EXCEPT !.at = IF rest = <<>> THEN client.then ELSE "split",
                                  !.todo = rest]
      /\ UNCHANGED <<nvm, chain, created, cold, to_be_recycled, freed, acked, astray, broken, ops>>

(* The latch is set: the leaf gets its node.  After the last one a leaf    *)
(* that was split is deleted (delete_node) and the key is inserted again;  *)
(* after an expansion the insert begins.                                   *)
SplitReturns ==
  LET rest == Tail(client.todo)
      deleted == IF rest = <<>> /\ client.then = "leaf" THEN {client.old} ELSE {}
  IN  /\ client.at = "wait" /\ split_[client.old]
      /\ leaves' = [leaves EXCEPT ![Head(client.todo)].inner = client.leaf]
      /\ client' = [client EXCEPT !.at = IF rest = <<>> THEN client.then ELSE "split",
                                  !.todo = rest]
      /\ to_be_recycled' = to_be_recycled \cup deleted
      /\ UNCHANGED <<nvm, chain, created, cold, freed, acked, astray, broken, ops>>

-----------------------------------------------------------------------------
(* erase takes all entries of the key out of the leaf; an empty leaf, and  *)
(* whatever leaf it merges with, is merged with a sibling while it can be. *)
(* Which neighbour is one is up to the model nodes.                        *)
EraseLeaf ==
  LET k == client.key
      i == LeafOf(k)
      left == [leaves[i].data EXCEPT ![k] = <<>>]
  IN  /\ client.at = "leaf" /\ client.op = "erase"
      /\ leaves' = [leaves EXCEPT ![i].data = left]
      /\ Acknowledge(k)
      /\ client' = IF Present(left) = {} THEN [client EXCEPT !.at = "merge", !.leaf = i] ELSE Idle
      /\ UNCHANGED <<nvm, chain, created, cold, to_be_recycled, freed, astray, broken, ops>>

(* Defect: the sibling's inner node is marked, not the empty leaf's. *)
MergeRecyclingSibling(adjacent) ==
  LET i == client.leaf
      n == leaves[adjacent].inner
      from == IF adjacent > i THEN leaves[i].from ELSE leaves[adjacent].from
  IN  /\ client.at = "merge" /\ adjacent \in DOMAIN leaves /\ adjacent \in {i - 1, i + 1}
      /\ Present(leaves[i].data) = {}
      /\ leaves' = RemoveAt([leaves EXCEPT ![adjacent].from = from], i)
      /\ to_be_recycled' = to_be_recycled \cup {n}
      /\ client' = [client EXCEPT !.leaf = IF adjacent > i THEN i ELSE i - 1]
      /\ astray' = astray \cup {k \in Present(acked) : LeafOf(k) = i}
      /\ UNCHANGED <<nvm, chain, created, cold, freed, acked, broken, ops>>

Merge(adjacent) ==
  LET i == client.leaf
      n == leaves[i].inner
      from == IF adjacent > i THEN leaves[i].from ELSE leaves[adjacent].from
  IN  /\ client.at = "merge" /\ adjacent \in DOMAIN leaves /\ adjacent \in {i - 1, i + 1}
      /\ Present(leaves[i].data) = {}
      /\ leaves' = RemoveAt([leaves EXCEPT ![adjacent].from = from], i)
      /\ to_be_recycled' = to_be_recycled \cup {n}
      /\ client' = [client EXCEPT !.leaf = IF adjacent > i THEN i ELSE i - 1]
      /\ astray' = astray \cup {k \in Present(acked) : LeafOf(k) = i}
      /\ UNCHANGED <<nvm, chain, created, cold, freed, acked, broken, ops>>

StopMerging ==
  /\ client.at = "merge" /\ client' = Idle
  /\ UNCHANGED <<nvm, shape, acked, astray, broken, ops>>

-----------------------------------------------------------------------------
(* The worker of node n.                                                   *)
Apply(n) ==
  LET e == Head(log[n])
  IN  /\ n \notin freed /\ log[n] # <<>> /\ e.type # "split"
      /\ tree' = [tree EXCEPT ![n] = IF e.type = "insert" THEN BtreeInsert(@, e.key, e.value)
                                     ELSE BtreeDelete(@, e.key)]
      /\ pages' = [pages EXCEPT ![n] = IF e.type = "insert" THEN AfterInsert(n) ELSE AfterDelete(n, e.key)]
      /\ log' = [log EXCEPT ![n] = Tail(@)]
      /\ UNCHANGED <<split_, worker, shape, client, acked, astray, broken, ops>>

(* Defect: the latch is set before the entries are moved. *)
BeginSplitLatched(n) ==
  LET e == Head(log[n])
  IN  /\ n \notin freed /\ log[n] # <<>> /\ worker[n].at = "idle" /\ e.type = "split"
      /\ \E layout \in Layouts(n) :
           worker' = [worker EXCEPT ![n] =
             [at |-> "move", batch |-> RangeSearch(tree[n], layout, e.key, e.value), i |-> 1]]
      /\ split_' = [split_ EXCEPT ![n] = TRUE]
      /\ UNCHANGED <<tree, pages, log, shape, client, acked, astray, broken, ops>>

(* Defect: the entries leave the old tree before they are in the new log. *)
BeginSplitRemoving(n) ==
  LET e == Head(log[n])
  IN  /\ n \notin freed /\ log[n] # <<>> /\ worker[n].at = "idle" /\ e.type = "split"
      /\ \E layout \in Layouts(n) :
           worker' = [worker EXCEPT ![n] =
             [at |-> "move", batch |-> RangeSearch(tree[n], layout, e.key, e.value), i |-> 1]]
      /\ tree' = [tree EXCEPT ![n] = [k \in Keys |-> IF e.key <= k /\ k <= e.value THEN <<>> ELSE @[k]]]
      /\ UNCHANGED <<pages, log, split_, shape, client, acked, astray, broken, ops>>

(* A split entry: the entries of the range are read once, written to the   *)
(* new node's log one after the other, and, when the latch is set, deleted *)
(* from the last to the first.  The log entry is given up at the end.  A   *)
(* key above the range that is on a page scanned from right to left leaves *)
(* the range behind: one that is there is one whose copy is astray.        *)
Stranded(n) ==
  LET e == Head(log[n])
      t == tree[n]
  IN  IF pages[n] # "forward" /\ \E k \in Present(t) : k \in astray /\ k > e.value
      THEN {k \in Present(t) : e.key <= k /\ k <= e.value}
      ELSE {}

BeginSplit(n) ==
  LET e == Head(log[n])
  IN  /\ n \notin freed /\ log[n] # <<>> /\ worker[n].at = "idle" /\ e.type = "split"
      /\ \E layout \in Layouts(n) :
           worker' = [worker EXCEPT ![n] =
             [at |-> "move", batch |-> RangeSearch(tree[n], layout, e.key, e.value), i |-> 1]]
      /\ astray' = astray \cup Stranded(n)
      /\ UNCHANGED <<tree, pages, log, split_, shape, client, acked, broken, ops>>

MoveEntry(n) ==
  LET w == worker[n]
      to == Head(log[n]).to
  IN  /\ n \notin freed /\ w.at = "move" /\ w.i <= Len(w.batch)
      /\ Write(to, Entry("insert", w.batch[w.i][1], w.batch[w.i][2], 0))
      /\ worker' = [worker EXCEPT ![n].i = @ + 1]
      /\ UNCHANGED <<tree, pages, split_, shape, client, acked, astray, broken, ops>>

(* Defect: the caller of Split is not told. *)
SetLatchMissing(n) ==
  /\ n \notin freed /\ worker[n].at = "move" /\ worker[n].i > Len(worker[n].batch)
  /\ worker' = [worker EXCEPT ![n].at = "prune", ![n].i = @ - 1]
  /\ UNCHANGED <<tree, pages, log, split_, shape, client, acked, astray, broken, ops>>

SetLatch(n) ==
  /\ n \notin freed /\ worker[n].at = "move" /\ worker[n].i > Len(worker[n].batch)
  /\ split_' = [split_ EXCEPT ![n] = TRUE]
  /\ worker' = [worker EXCEPT ![n].at = "prune", ![n].i = @ - 1]
  /\ UNCHANGED <<tree, pages, log, shape, client, acked, astray, broken, ops>>

PruneEntry(n) ==
  LET w == worker[n]
  IN  /\ n \notin freed /\ w.at = "prune" /\ w.i > 0
      /\ tree' = [tree EXCEPT ![n] = BtreeDelete(@, w.batch[w.i][1])]
      /\ pages' = [pages EXCEPT ![n] = AfterDelete(n, w.batch[w.i][1])]
      /\ worker' = [worker EXCEPT ![n].i = @ - 1]
      /\ UNCHANGED <<log, split_, shape, client, acked, astray, broken, ops>>

EndSplit(n) ==
  /\ n \notin freed /\ worker[n].at = "prune" /\ worker[n].i = 0
  /\ log' = [log EXCEPT ![n] = Tail(@)]
  /\ worker' = [worker EXCEPT ![n] = Resting]
  /\ UNCHANGED <<tree, pages, split_, shape, client, acked, astray, broken, ops>>

-----------------------------------------------------------------------------
(* SwitchInnerNode, called as test.cc does when the logs are applied: the  *)
(* nodes to be recycled leave the chain and are freed, then AdjustNodeType *)
(* makes the HOT_NODE_NUM inner leaves of highest degree hot, by loading   *)
(* them from their B+tree, and the other inner leaves cold.  A chain whose *)
(* last node goes makes the loop read a null pointer.  A page scanned from *)
(* right to left is loaded in that order, which bulk_load does not expect: *)
(* the model goes no further either way (broken).                          *)
Drained == \A n \in created \ freed : log[n] = <<>>

(* Defect: the walk begins at the first leaf. *)
AdjustNodeTypeFromFirst ==
  LET inner == IF Len(leaves) < 3 THEN {} ELSE 1 .. Len(leaves) - 1
      size == IF Cardinality(inner) < HOT_NODE_NUM THEN Cardinality(inner) ELSE HOT_NODE_NUM
  IN  \E hot \in {S \in SUBSET inner : Cardinality(S) = size} :
        LET node(i) == leaves[i].inner
            becomesHot(i) == i \in hot /\ node(i) \in cold
            becomesCold(i) == i \in inner \ hot /\ node(i) \notin cold
        IN  /\ leaves' = [i \in DOMAIN leaves |->
                 [leaves[i] EXCEPT !.data = IF becomesHot(i) THEN tree[node(i)]
                                            ELSE IF becomesCold(i) THEN NoValues ELSE @]]
            /\ cold' = (cold \ {node(i) : i \in hot}) \cup {node(i) : i \in inner \ hot}
            /\ broken' = FALSE

AdjustNodeType ==
  LET inner == IF Len(leaves) < 3 THEN {} ELSE 2 .. Len(leaves) - 1
      size == IF Cardinality(inner) < HOT_NODE_NUM THEN Cardinality(inner) ELSE HOT_NODE_NUM
  IN  \E hot \in {S \in SUBSET inner : Cardinality(S) = size} :
        LET node(i) == leaves[i].inner
            becomesHot(i) == i \in hot /\ node(i) \in cold
            becomesCold(i) == i \in inner \ hot /\ node(i) \notin cold
            disordered(scans) == \E i \in hot : /\ becomesHot(i) /\ pages[node(i)] \in scans
                                                /\ Entered(tree[node(i)]) > 1
        IN  /\ leaves' = [i \in DOMAIN leaves |->
                 [leaves[i] EXCEPT !.data = IF becomesHot(i) THEN tree[node(i)]
                                            ELSE IF becomesCold(i) THEN NoValues ELSE @]]
            /\ cold' = (cold \ {node(i) : i \in hot}) \cup {node(i) : i \in inner \ hot}
            /\ broken' \in {disordered({"backward"}), disordered({"backward", "many"})}

SwitchInnerNode ==
  /\ client.at = "idle" /\ ~broken /\ ops < MaxOps /\ Drained
  /\ ops' = ops + 1
  /\ LET lost == to_be_recycled \ freed
     IN  IF Last(chain) \in lost
         THEN broken' = TRUE /\ UNCHANGED <<shape>>
         ELSE /\ chain' = Omit(chain, lost)
              /\ freed' = freed \cup lost
              /\ AdjustNodeType
              /\ UNCHANGED <<created, to_be_recycled>>
  /\ UNCHANGED <<nvm, client, acked, astray>>

-----------------------------------------------------------------------------
ClientStep ==
  \/ WriteCold \/ WriteLog \/ InsertLeaf \/ SplitNode \/ SplitReturns \/ EraseLeaf \/ StopMerging
  \/ \E b \in Keys : \E kind \in {"fanout"} \cup (IF TwoWay THEN {"two"} ELSE {}) : SplitLeaf(kind, b)
  \/ \E B \in SUBSET Keys : ExpandRoot(B)
  \/ \E adjacent \in DOMAIN leaves : Merge(adjacent)

(* Defect: only the first node's worker is started. *)
FirstWorkerStep(n) ==
  n = 0 /\ (Apply(n) \/ BeginSplit(n) \/ MoveEntry(n) \/ SetLatch(n) \/ PruneEntry(n) \/ EndSplit(n))

WorkerStep(n) ==
  Apply(n) \/ BeginSplit(n) \/ MoveEntry(n) \/ SetLatch(n) \/ PruneEntry(n) \/ EndSplit(n)

Next ==
  \/ \E k \in Keys, op \in {"insert", "erase"} : Call(op, k)
  \/ ClientStep
  \/ \E n \in Nodes : WorkerStep(n)
  \/ SwitchInnerNode

Spec == Init /\ [][Next]_vars

(* The threads run: the client's call goes on, every worker goes on.       *)
LiveSpec == Spec /\ WF_vars(ClientStep) /\ \A n \in Nodes : WF_vars(WorkerStep(n))

-----------------------------------------------------------------------------
(* A log has one producer at a time, the client or the worker of the node  *)
(* it was split from: Write and Delete do not exclude each other between   *)
(* the allocation of a slot and the count that publishes it.               *)
OneProducer ==
  \A n \in Nodes :
    LET workers == {m \in Nodes : worker[m].at = "move" /\ Head(log[m]).to = n}
        calls == (client.at = "write" /\ InnerOf(client.key) = n)
                 \/ (client.at = "split" /\ client.old = n)
    IN  Cardinality(workers) + (IF calls THEN 1 ELSE 0) <= 1

(* Wherever the process stops, persistent memory holds every key whose     *)
(* insert returned, unless its erase is under way: in a tree, or in a log  *)
(* that has not been applied.                                              *)
InNVM(n, k) == tree[n][k] # <<>> \/ \E i \in DOMAIN log[n] :
                                      log[n][i].type = "insert" /\ log[n][i].key = k
KeepsACopy ==
  \A k \in Present(acked) \ astray :
    \/ client.op = "erase" /\ client.key = k
    \/ \E n \in created \ freed : InNVM(n, k)

(* When the logs are applied and no call is under way, the B+tree of every *)
(* leaf holds just the keys of the leaf, with their latest values.         *)
TreesCatchUp ==
  client.at = "idle" /\ Drained =>
    \A i \in DOMAIN leaves, k \in Keys \ astray :
      tree[leaves[i].inner][k] = IF LeafOf(k) = i THEN acked[k] ELSE <<>>

(* hbtree.cc:44-52: what search may return, 0 for nullptr.  A hot leaf     *)
(* gives its right-most entry; in a B+tree the scan direction decides      *)
(* which of several is met first.                                          *)
Search(k) ==
  LET i == LeafOf(k)
      values == IF leaves[i].inner \in cold THEN tree[leaves[i].inner][k] ELSE leaves[i].data[k]
  IN  IF values = <<>> THEN {0}
      ELSE IF leaves[i].inner \in cold THEN {Head(values), Last(values)} ELSE {Last(values)}

Answer(k) == IF acked[k] = <<>> THEN {0} ELSE {Last(acked[k])}

(* A search between two calls finds what the calls that returned left,     *)
(* whether the leaf is hot or cold, for every key that is not astray: a    *)
(* merge, a key logged outside its new leaf and a range read from right to *)
(* left below such a key are the only ways to lose one.                    *)
SearchesRight ==
  client.at = "idle" /\ ~broken => \A k \in Keys \ astray : Search(k) = Answer(k)

(* The chain, without the nodes to be recycled, is the leaf list.          *)
ChainIsLeaves ==
  client.at = "idle" =>
    Omit(chain, to_be_recycled) = [i \in DOMAIN leaves |-> leaves[i].inner]

(* alex.h:267 "First data node and last data node must be hot node": no    *)
(* adjustment, split or expansion of the root makes the first or the last  *)
(* leaf a cold one; a merge into a cold neighbour does, and from then on   *)
(* what reads the ends of the list reads a leaf whose arrays are freed.    *)
EndsHot == {leaves[1].inner, Last(leaves).inner} \cap cold = {}
EndsTurnColdByMerge == [][EndsHot /\ ~EndsHot' => client.at = "merge"]_vars

(* No leaf's inner node has been freed.                                    *)
NoLeafDangles == \A i \in DOMAIN leaves : leaves[i].inner \notin freed

(* hbtree.cc:46 "Cannot find data from data nodes of index, search         *)
(* directly in NVM": a key inserted and not erased is found there.         *)
ColdKeysFound ==
  client.at = "idle" => \A k \in Present(acked) : InnerOf(k) \in cold => Search(k) # {0}

(* alex.h:2292 "Erases all keys with a certain key value": after the erase *)
(* the key is not found.                                                   *)
EraseIsComplete ==
  client.at = "idle" => \A k \in Keys \ Present(acked) : Search(k) = {0}

(* Every call returns, and every log entry is applied.                     *)
CallsReturn == client.at # "idle" ~> client.at = "idle"
LogsDrain == \A n \in Nodes : log[n] # <<>> ~> log[n] = <<>>
=============================================================================
