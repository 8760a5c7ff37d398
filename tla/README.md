# hbtree: TLA+ models and proofs

hbtree is a hybrid key-value index. A learned index (ALEX) keeps its model nodes and its *hot*
leaves in DRAM. Every leaf has an *inner node*, which owns a B+tree in persistent memory and,
while the leaf is hot, an operation log in persistent memory that a thread of its own applies to
that B+tree. A *cold* leaf gives up its arrays: its keys are read from and written to the B+tree.
This directory models the parts whose order of steps decides whether a key is found again.

Paths below are relative to the repository's `src/`.

## 1. Inventory

| Component | State | Operations | Talks to |
|---|---|---|---|
| Operation log: `NVMLogFile`, `Daemon` (nvm_allocator, daemon.h) | ring in persistent memory, `cur_addr_`, `apply_addr_`, `memory_used_`, `mut_`, `split_mut_`, `split_`, `finished` | `Write`, `Delete`, `Split`, `AllocateAligned`, `worker`, destructors | filled by the client thread and, in a split, by the *old* node's worker; its worker writes the B+tree and the *new* node's log |
| B+tree page: `page` (btree.h) | `hdr`, `records[]` | `insert_key`, `remove_key`, `count`, `linear_search`, `linear_search_range` | searched without a lock while it changes; stores reach persistent memory by cache line |
| B+tree: `btree` (btree.h, btree.cc) | `root`, pages linked to children and to the right sibling | `btree_insert`, `btree_delete`, `btree_search`, `btree_search_range`; `store` and `remove` recurse through `btree_insert_internal` and `btree_delete_internal` | one writer: the log's worker, or the client once the leaf is cold |
| Leaf: `AlexDataNode` (alex_nodes.h) | `key_slots_`, `payload_slots_`, `bitmap_`, `num_keys_`, thresholds | searches, `insert`, `resize`, `erase*`, bulk loads, `switch_to_cold`, `switch_to_hot` | `Alex` |
| Routing: `AlexModelNode`, `Alex` (alex.h) | child arrays, duplication factors, linear models, leaf list, key domain with the counts of keys outside it | `insert`, `erase`, `find`, `split_sideways`, `split_downwards`, `expand_root`, `merge` | makes and drops leaves, splits inner nodes |
| Inner node: `InnerNode` (inner_node.cc) | list `prev`/`next`, `type_`, `to_be_recycled_`, `op_`, `hot_degree_`, `log_`, `bt_` | `insert`, `erase`, `search`, `split`, `UpdateHotDegree` | log, B+tree |
| Hybrid tree: `HBTree` (hbtree.cc), `AdjustNodeType` (alex.h) | `dummy_` chain, `index_` | `insert`, `erase`, `search`, `SwitchInnerNode` | everything |
| Hot node selection: `fixed_size_priority_queue`, `HotDegreeCmp` | bounded heap; `op_` and `hot_degree_` of each inner node | `push`, `pop`, `UpdateHotDegree` | filled and emptied by `AdjustNodeType` |
| Fanout tree (alex_fanout_tree.h) | none between calls: a tree of candidate nodes with their costs | `find_best_fanout_existing_node`, `find_best_fanout_bottom_up`, `merge_nodes_upwards` | asked by a leaf's split into how many leaves it goes |
| Linear models, sampling, cost figures, ALEX containers, timer, test program | | | |

What is hard here:

* **threads**: a worker per hot node, the client, and in a split three parties on two logs; the
  caller of `Split` sleeps on a condition variable the worker signals;
* **limits**: a caller waits while the ring is full; a worker that moves keys waits while the
  *new* node's ring is full, holding `split_mut_`;
* **order**: which bytes are persisted before the count that publishes them; which pointer is
  stored before which key in a page; which page is linked before another is cut off;
* **two copies**: a leaf and its B+tree are changed at different times by different threads, and
  split, merge and type switch move keys between them;
* **long sequences**: gapped arrays, records, chains of leaves and of inner nodes must stay
  well-formed over any sequence of calls.

What makes each component correct: the log is a bounded FIFO queue whose split call is a barrier;
a page is searchable after every store; the tree of pages keeps parents and sibling chain together;
a leaf is an ordered list of entries under any prediction; the model nodes lead each key to the leaf
that holds it, and the leaf list has the leaves in the order of their keys; the leaves used most are
the hot ones; a divided node has at least two children, at the cost that was reckoned; and through all splits, merges and
switches a search finds what the returned calls left. `PROJECT.json` lists each hazard at its line.

## 2. Modules

| Module | Models | State and actions in terms of the code |
|---|---|---|
| `LogQueue` | abstract: what a log promises | bounded queue `pending`, list `applied`; accept, apply, lose all on a crash |
| `NVMLog` | nvm_allocator, daemon.h | one action per shared access. Callers: `Call`, `LockMut`, `Allocate` (spin and bump of `cur_addr_`), `Latch` (take `split_mut_`, clear `split_`), `Copy`, `Persist`, `Publish` (`fetch_add`), `Check` / `WakeSpuriously` / `Relock` (the condition variable). Worker: `WorkerWrap`, `WorkerRead`, `WorkerApply`, `WorkerLatch`, `WorkerNotify`, `WorkerPrune`, `WorkerAdvance`, `WorkerRelease`, `WorkerExit`. `ClosePool`, `Unmap`, `Finish`, `Free`: the stages of the destructors (`life`), which wait for nobody; `WorkerFault`: the worker uses what they have taken away. `Crash`: power failure and a new `NVMLogFile` on the old bytes |
| `FastPage` | `page` | one action per eight-byte store of `insert_key` and `remove_key`, one per load of `linear_search`; `pm` is what persistent memory holds, `WriteBack` a `pmemobj_persist`, `Evict` a line the cache writes back on its own |
| `BTree` | `btree`, `page::store`, `page::remove` | `todo` is the writer's call stack flattened to the stores and calls still to come: `DoStore`, `DoRaise` (new root or `btree_insert_internal`), `DoRemove`, `DoRebalance` (`btree_delete_internal`), `DoEven` (merge, two redistributions), `DoPut`, `DoCut`, `DoLink`, `DoLeftmost`, `DoDrop`. A lock-free `btree_search`: `ReadPage`, `ReadSibling`, `ReadAgain` |
| `OrderedEntries` | abstract: what a leaf promises | a list of entries in key order, equal keys in order of insertion |
| `DataNode` | `AlexDataNode` | one action per operation on the record `node` of arrays and thresholds; the searches and `closest_gap` are operators. The linear model is *any* monotone prediction, the cost tests are free choices |
| `LeafList` | abstract: what the model nodes promise | `held`: least key -> the keys of the leaf that begins there; insert, erase, division at new boundaries, joining of two leaves of which one is empty |
| `Routing` | `AlexModelNode`, `Alex` | `model`, `leaf`: the nodes by identifier; `task`: the insert or merge under way. `Insert` (counts a key outside the domain, `ExpandRoot`: the root's array grows or a new root is put above), then `Accept`, `Retrain`, `SplitSideways` (doubles the parent's array when the leaf has one pointer) or `SplitDownwards` until the leaf takes the key; `Erase`, then `MergeWithSibling` and `MergeUp` until `StopMerging` |
| `FanoutTree` | alex_fanout_tree.h | operators: the cost of a level, the levels tried, the best one, the pairs merged upwards |
| `HotNodes` | `AdjustNodeType`, `fixed_size_priority_queue`, the counts of `InnerNode` | `Call`, `Split`, `Merge` change who is counted; `BeginAdjust`, `ScanLeaf` (ages the count of one leaf and pushes it) and `SwitchLeaves` are the two walks |
| `HBTree` | `HBTree`, `InnerNode`, the changes of the partition in `Alex` | client: `Call`, `WriteCold`/`WriteLog`, `InsertLeaf`, `SplitLeaf`, `ExpandRoot`, `SplitNode` (`InnerNode::split`), `SplitReturns`, `EraseLeaf`, `Merge`, `SwitchInnerNode`; worker of each node: `Apply`, `BeginSplit`, `MoveEntry`, `SetLatch`, `PruneEntry`, `EndSplit` |
| `Ordering` | helpers | finite sets of numbers in increasing order (`Ordered`), a sequence without some elements (`Omit`); used by `HBTree`, `Routing`, `DataNode` and `OrderedEntries` |
| `MC*` | constants of the instances | `MCAlgorithms` puts three parts that do not meet side by side: `closest_gap` on every bitmap, the fanout tree on its inputs, `HotNodes` |
| `NVMLog_proofs`, `FastPage_proofs`, `DataNode_proofs`, `LeafList_proofs`, `Ordering_proofs`, `HBTree_proofs`, `HBTreeCopies_proofs`, `Algorithms_proofs` | theorems | section 5 |

The levels meet at their abstractions. `HBTree` uses a log as the queue that `NVMLog` is shown to
implement. A B+tree is a map from keys to the values inserted, which `BTree` (pages) and `FastPage`
(inside a page) justify, for distinct keys, as far as inserts, deletes and searches of one key go. A
range search is not that of a map: `linear_search_range` reads a page from right to left when its
switch counter is odd, that is, when its last change was a removal (btree.h:189), and then returns at
the first key above `max` (btree.h:738-740). `HBTree` therefore keeps how the leaf pages are scanned
(`pages`): exactly, `forward` or `backward`, while the tree is one page (`AfterInsert`, `AfterDelete`);
once a page has split (`PageSlots`), which keys share a page, and how each is scanned, is any
choice (`Layouts`). `ScanPage` is the search of one page, `RangeSearch` that along the siblings. It has the leaves as an ordered partition of
the keys, which is `LeafList`; `Routing` is shown to implement that. Which inner leaves are hot is
any choice of `HOT_NODE_NUM` of them in `HBTree`; `HotNodes` says which. Whether
a leaf that refuses a key is divided is a free choice in `Routing`; by default the code asks
`FanoutTree`'s functions, with a fanout of at most two (alex.h:1265). `BTree` takes an insert into a page or a
removal from it as one step because `FastPage` shows the page searchable after each of its stores.

Operators whose comment begins with "Defect:" are not part of the models. Each changes the
definition that follows it the way a slip in the code would, to see that a property notices.

## 3. Runs

Every run finishes within about two and a half minutes on two cores. `PROJECT.json` names their
properties.

| Run | Instance | Shows |
|---|---|---|
| `NVMLog` | 2 slots, 2 callers, 4 operations, crashes anywhere, the node destroyed between any two calls; 281 000 states | types, `SplitIsBarrier`; refinement of `LogQueue` (`QueueSpec`); accepted entries keep their bytes (`LiveSlotsKept`); with fairness `CallsReturn`, `Drains` |
| `FastPage` | 4 slots, 2 per line, 4 operations, one search, evictions; 834 000 states | `AlwaysReadable`, `RestingOrder`, `SearchesCorrect`, `InsertsPersist` |
| `FastPageRange` | 5 operations | **violated**: `RangeExact` |
| `DataNode` | 3 keys, up to 4 entries in up to 5 slots, words of 2 bits | `Structure`, `SearchesExact`, refinement of `OrderedEntries` |
| `Algorithms` | every bitmap of up to 14 positions in words of 4 bits; every fanout tree of three levels over up to four filled buckets with costs 0, 1, 5; five leaves, two calls, two adjustments, identifiers of one bit; 856 000 states | `GapIsClosest`; `UsedTile`, `NeverOneChild`, `CostOfChildren`; `HottestAreHot` |
| `Routing` | 5 keys, up to 8 nodes, child arrays of up to 4; 205 000 states | `ValidStructure`, `LeavesLinked`, `NoneLost`, `CountsNearlyRight`; refinement of `LeafList` (`ListSpec`) |
| `BTree` | pages of 6 slots, up to 3 levels, 5 beginnings, then any 2 operations and one search; 403 000 states | `Shape`, `AlwaysReadable`, `SiblingFound`, `SearchesRight` |
| `HBTree` | 3 keys, 6 inner nodes, logs of one entry, pages of 29 records, 5 operations; 1 114 000 states | `OneProducer`, `KeepsACopy`, `TreesCatchUp`, `SearchesRight`, `ChainIsLeaves`, `NoLeafDangles`, `EndsTurnColdByMerge` |
| `HBTreeLive` | 5 inner nodes, 4 operations | `CallsReturn`, `LogsDrain` |
| `HBTreeCold` | 5 inner nodes | **violated**: `ColdKeysFound` |
| `HBTreeRecycle` | with two-way splits | **violated**: `NoLeafDangles` |
| `HBTreeDup` | with inserts of present keys | **violated**: `EraseIsComplete` |

Why the bounds are enough for what they are meant to show:

* Log: two slots make it empty, half full, full and wrapped around; four operations wrap twice; two
  callers let a second one arrive while the first waits for a split. The size is a parameter of the
  proofs.
* Page: four slots and two per line give a first record without a left neighbour, shifts across and
  inside lines, and the end slot. The counter `switch_counter` is not reduced modulo 256: four
  operations do not reach it.
* Tree: the real page has 30 slots. 6 has the same remainders: an odd number of records splits into
  halves that both satisfy the minimum, which is why an inner page is never left empty. The
  beginnings (`Loads`) leave a single page; two leaves of which the right or the left one is full;
  three levels with leaves at their minimum; three levels with most leaves on the left. Two
  operations after them reach the merge and both redistributions, in leaves and in inner pages, a
  new root and a shrunk root. While a beginning is inserted nothing else is restricted but the order
  of the keys, and no search runs.
* Leaf: five slots are the capacity at which expansion, contraction, the "too full to expand"
  answer and packing at the end of the array all occur; `Algorithms` has bitmaps of four words, for
  the searches that look beyond the neighbouring word.
* Routing: the keys 16, 24, 32, 48, 64 lie on either side of, and on, the boundaries that a split, a
  doubling and an expansion of the first key domains make; `max_fanout` 4 makes a leaf with one
  pointer reach both kinds of split, and the root both kinds of expansion; eight nodes hold a tree of
  several levels. A step that would need more nodes is not taken, and the key it was for then waits.
* Fanout tree: a leaf's split uses two levels and bulk loading more; three are the fewest on which
  merging goes on above a level it has merged. The costs make the best level each of the three, and ties.
* Hot nodes: identifiers up to 5 (0 is `dummy_`) are four splits of which the left leaf keeps its
  node, or two of which it does not; of up to three inner leaves one is to be hot, so the queue
  overflows, and with identifiers of one bit two of them share one.
* Hybrid tree: three keys are the fewest that give an inner leaf, and six nodes two splits in a row
  after it; a log of one entry is full as soon as it holds anything, so all waits happen. No tree
  fills a page, so its scan direction is exact; with `PageSlots = 1`, where a tree of two keys is
  many pages in any layout, the same properties hold (1 633 000 states; not one of the runs).

`CHECK_DEADLOCK FALSE` is set where the bounded number of operations ends an execution, or where the
property of a violated run does not concern it, and in `Routing`, where the bound on nodes may.
`NVMLog`, `DataNode` and `BTree` check deadlock.

**Fairness.** Threads are scheduled by the operating system: weak fairness of every caller and of
every worker. `split_mut_` is contended by the worker and a caller that wakes and finds the flag
clear; a thread that asks for it again and again is taken to get it in the end, hence strong fairness
of `Relock` and `WorkerLatch`. Spurious wake-ups get no fairness. `LiveSpec` of `NVMLog` has the
crashes too, without fairness: a crash ends every call and empties the ring, so the properties say
that nothing hangs for as long as the machine runs. In `HBTree` the client's call and each worker
go on (weak fairness); which way a call goes is not fair, and the number of operations is bounded.

## 4. What the environment is taken to do

* One client thread. In `NVMLog` callers take turns, as a client and another node's worker do:
  that they do is `OneProducer` of `HBTree`.
* `SwitchInnerNode` is called when the logs are applied, as test.cc:18, 25 and 32 arrange by sleeping
  (`Drained`). `NVMLog` does not assume it of the destruction of a node, which may come between any
  two calls: then the ring is unmapped while it holds entries, `finished` is raised after that, and
  the object the worker spins on is freed. The model reaches the fault (`WorkerFault`) from each of
  these stages, and nothing is claimed of it. Freed memory may also still give the old values, and
  the worker then ends in its usual way.
* Keys of concurrent interest have distinct values, none of them null: a page tells a half-done shift
  by equal pointers.
* The compiler keeps stores in program order (Makefile: no optimisation).
* In `HBTree`, keys whose copy in persistent memory parts from their leaf by what the code does are
  collected in the ghost `astray`, each at the step that is the cause: the key logged with the old
  node before its leaf is split, if it is outside the keys of its new leaf (`SplitLeaf`); the keys of
  a leaf that another is merged into (`Merge`); and the keys of a split's range when one of the
  former, above the range, is in a tree that is not scanned from left to right (`Stranded`). With
  several pages the last is taken to happen although the key may be on a page that does not matter.
  The invariants speak of the other keys; `ColdKeysFound` speaks of all and is violated. A range
  search that comes back short for any other reason would violate `TreesCatchUp`, and does if a scan
  leaves out `max` (its mutant). An expansion of a cold end leaf is left out.
* `SwitchInnerNode` reaches two states from which the code goes on in a way that nothing is known of,
  and the model stops there (`broken`): the walk along the chain through a null pointer, and a leaf
  that is made hot from a tree scanned from right to left, whose keys `switch_to_hot` gets in descending
  order (alex.h:290-302) and `bulk_load` lays out as if they ascended.
* With the default parameters a leaf's split goes through the fanout tree. Two-way splits, for
  leaves over the size limit or of catastrophic cost, are a constant, as they break `NoLeafDangles`.
* `Routing` has integer bucket boundaries and exact division: the corrections of rounding errors in
  `get_leaf` never apply. When a leaf refuses a key, and which kind of division that is possible it
  then gets, is a free choice where it depends on costs. All its leaves are hot; cold ones are in
  `HBTree`.
* `HotNodes` counts degrees in units of 5^-`MaxRounds`, so that aging by the factor 0.2 is exact.
  It does not tell inserts from erases, nor who calls: a split's moved entries are calls on the new
  nodes, as the worker's writes are.
* `FanoutTree` multiplies costs by the number of keys, which makes them integers; the expected cost
  of a data node for given keys is an input.
* `BTree`'s operations insert absent keys. Its `SearchesRight` leaves out two ends that the code
  does not exclude; both need a search of a tree whose worker is still applying the log. A merge or
  redistribution between the look at a page and the look at its sibling hides a key (btree.h:826;
  the instance of the run reaches it). A sibling pointer that changes between its two readings is
  returned as the value (btree.cc:24; it takes five inserts that split one page twice during the
  search, beyond the run's `MaxOps`, and is reached from the load 4, 6, 8, 9, 10 with `MaxOps = 5`).

## 5. Proofs

**The log.** `NVMLog_proofs` proves, for every ring size, set of callers and set of entries, from the module's named assumptions on its constants:

* `TypeCorrect`: `Spec => []TypeOK`;
* `Invariance`: the inductive invariant `IInv`;
* `SplitWaitsForAll`: `Spec => []SplitIsBarrier`;
* `LiveSlotsAreKept`: `Spec => LiveSlotsKept`, crashes included;
* `LogImplementsQueue`: `Spec => QueueSpec`, the refinement of `LogQueue`.

The properties are not inductive: that a slot is not overwritten depends on two addresses and a count
that three steps change one after the other. `IInv` therefore says what each program counter means:
`OneCaller` and `Locks` (who is in a call and who holds which mutex), `Geometry` (`cur_addr_` is as
many places ahead of `apply_addr_` as there are slots published and not released, plus one that a
caller is filling), `Stored` (what the caller has copied and persisted), `WorkerView` (the entry the
worker holds is the oldest live one), `EntriesLive`, `SplitLast` and `Handshake` (a split that is not
carried out is the last live entry, its caller waits and `split_` is clear; once it is set nothing
is pending). Each action is shown to preserve each part it disturbs; lemmas about `Ahead` do the
arithmetic modulo the ring size. From `IInv`, every step is a step of the queue or leaves it alone:
`Publish` appends, `WorkerApply` and `WorkerNotify` take off the first entry, `Crash` loses what was
pending. The stages of the destructor and a fault of the worker change nothing of the queue.

**The page.** `FastPage_proofs` proves, for every page size from two slots, all keys and all
injective, non-null values (`CardAssumption`, `KeysAssumption`, `ValuesAssumption`), any number of
operations, searches and evictions:

* `SearchableAfterEachStore`: `Spec => []AlwaysReadable`;
* `RestsInOrder`: `Spec => []RestingOrder`;
* `PageTypeCorrect`: `Spec => []TypeOK`;
* `SearchesCorrectHolds`: `Spec => []SearchesCorrect`, the lock-free search;
* `InsertsPersistHolds`: `Spec => []InsertsPersist`, for every number of records per cache line
  (`LineAssumption`).

`AlwaysReadable` is a statement about searches and not inductive. The invariant `PageInv` says at
each program counter which slots hold which keys (`Live(rec, slots, keys)`: in order, each with its
value), which are unused (`Empty`), and that at most one slot in between is in transit. That slot
either has the pointer of the slot on its left (`Doubled`), so that a search passes it by, or
repeats the slot on its right, so that a search finds the same there: `Shifting` for inserts, where
slot `i + 1` is being vacated, `Pulling` for removals, where slot `i` is being filled. Each store is
shown to lead from one such picture to the next. Then `Covers` gathers what the pictures have in
common, and `Reads` shows that a search of a page it describes gives the right answer: `EndIs` and
`CountIs` say where a scan in each direction starts or ends, `Hits` what it meets there.

What the other theorems add to `PageInv`:

* `ReaderTypes`: the last slot never has a pointer (`LastNull`), so the end test stops a forward
  search on the page, and `count()` never starts a backward one beyond it (`CountInSlots`), at whatever
  store the writer is.
* `Lines`: until the first removal, persistent memory differs from the records only in the cache line
  of the slot being stored to (`Off`). Two slots next to each other are in one line unless the right
  one starts a line (`SameLine`), which is when `insert_key` writes it back: so every write-back makes
  persistent memory equal to the records, which can be searched after each store.
* `SearchInv`: what a search knows at each of its loads, while it has met no other operation than the
  latest, on another key, and the switch counter is what it was. Forward, the key is in a slot not left
  of the search's, and the pointer just left of the search is not the key's (`Ahead`); backward, the key
  is in a slot not right of it (`Behind`). A store of an insert moves a key at most one slot right and
  copies it before it is overwritten, so `Ahead` is kept (`InsertStore`, `AheadKept`), and likewise
  `Behind` by removals (`RemoveStore`, `BehindKept`). The search takes a pointer between two reads of
  the key. `Takes` says that, if the key is still there, the pointer is the one on the left, null, or the key's.
  Forward, that needs that the left pointer read is still the one an insert will copy, until the insert
  has passed (`Untouched`); backward, that a slot the removal has given another key does not get the
  key back (`Finished`). An operation that begins in the other direction changes the counter, and the
  search is repeated. `SearchInv` was checked by TLC on the instance of the run `FastPage` first.

**The leaf.** `DataNode_proofs` proves, for all sets of keys below the sentinel and of payloads, every
size limit, every even word size (`KeysAssumption`, `PayloadsAssumption`, `BoundsAssumption`,
`WordAssumption`), every monotone prediction and any sequence of operations:

* `LeafInvariant`: the inductive invariant `IInv`;
* `LeafTyped`, `LeafStructured`: `Spec => []TypeOK`, `Spec => []Structure`;
* `LeafSearches`: `Spec => []SearchesExact`;
* `LeafGap`: `Spec => []GapIsClosest`, in every reachable leaf (`ClosestGapIs` says it of any bitmap
  with a gap in it, which is what the run `Algorithms` enumerates);
* `LeafImplementsEntries`: `Spec => EntriesSpec`, the refinement of `OrderedEntries`.

`IInv` says that a leaf has given up its arrays (`Cold`) or is a `HotNode`: `Arrays` gives the fields
their types and the leaf at least one slot; `Gapped` says that the slots are sorted, that a filled slot
holds a key and that every other slot repeats the slot on its right, the last one the sentinel;
`Counted` that the bitmap has `num_keys` positions and the threshold is within the capacity. `Structure`
alone, what `validate_structure` checks, is not inductive: without the types, the payloads of filled
slots and the fields of a cold leaf nothing is known of the next layout. The argument has four parts.

* *Searches.* Halving a window ends where the set of positions searched ends (`BinarySearchIs`), and the
  window that doubling leaves holds that place wherever it began (`ExponentialSearchIs`). That a search
  by slots is one by entries is `Gapped`: the gaps right before an entry have its key, so that the last
  slot of a key is always an entry and the first entry after a bound is the next filled slot.
* *The gap.* The two words next to a position, then words ever farther, then those on the side that is
  left: in each case no gap in a word not looked at is closer than the one returned. `NearerOf` and the
  test of half a word (`bit`) decide between the two candidates of different distance.
* *Inserts.* `Ready` says what `insert_element_at` relies on: the entries left of the new one are not
  above its key, the slots right of it are, and all other gaps repeat what is on their right. It holds
  at a gap that `find_insert_position` returns (`FreeSlot`), and, by the choice of the gap, after the
  shift in either direction (`ShiftRight`, `ShiftLeft`). `MadeWay` says where each old entry has gone,
  in the same order; with the new entry between them the contents are those of the abstract insert
  (`MovedIs`). An expansion before it keeps the contents: `PlacedIs` shows that the positions of a
  layout grow and stay inside the arrays, whatever the model predicts.
* *Erases.* What each kind of erase clears is a run of slots that begins at the first slot or after an
  entry (`Run`) and gets the key that follows it: so the gaps still repeat what is on their right
  (`LeftIs`). The entries left are the old ones without some keys, or without the
  first entry of a key, as the abstract list has it. A contraction lays the same entries out again.

Contents are compared as the one increasing list of the filled positions (`ContentsUnique`). `IInv` was
checked by TLC on the instance of the run `DataNode` before it was proved.

**The leaf list.** `LeafList_proofs` proves about the abstract list of leaves, for all sets of integer
keys above the lowest (`KeysAboveLowest`, a hypothesis of the theorems):

* `KeysStayPlaced`: each key is in the leaf that lookups of it reach;
* `KeysAreKept`: what the leaves hold together changes by the key inserted or erased only.

`Placed` is inductive; what has to be argued is that a division puts each key right, and that
joining an empty leaf with its neighbour leaves no key outside. `Routing` is a `LeafList` by the run
that checks `ListSpec`; that step is checked on the instance and not proved.

**The hybrid tree.** For every finite set of keys, any number of inner nodes, every log size and every
schedule of client and workers. `Ordering_proofs` has the lemmas about sequences: `Ordered(S)` is the
one increasing enumeration of `S`, `Omit` keeps the order of what it keeps, what `FlattenSeq` and a
splice contain. Where a statement is about a recursive function, it is proved for each argument by a
least counterexample (`Induct`), not by an induction theorem.

`HBTree_proofs` proves

* `TypeCorrect`: `Spec => []TypeOK`;
* `OneProducerHolds`: `Spec => []OneProducer`.

`TypeOK` is not inductive: `SplitReturns` writes at a position of the leaf list remembered since the
leaf was divided, and `MoveEntry` writes to the node that the first entry of its log names. `State`
therefore says in addition that each key is in the range of one leaf (`Sorted`), which of the inner
nodes are made (`Numbered`, `Inners`), that the pieces still to do are leaves and that there is an
inner node left for each (`ToSplit`), what a call that waits waits for (`Waiting`), and that the
chain has each node that is not freed once (`ChainOnce`). `Producers` says where split entries are:
the last of a log whose call waits with the latch clear, or the first of a log whose worker has set
it. Neither is kept without the other: a worker in a split is typed because its split entry is
there, and the entry stays there because the client that waits writes nothing. `OneProducer`
follows: the node a worker moves keys to is the one the client waits for, and it is no leaf's yet.

`HBTree_proofs` also proves, when leaves are never split two-way (`TwoWay = FALSE`, the hypothesis of
the theorems; `HBTreeRecycle` shows that the first two fail otherwise),

* `ChainIsLeavesHolds`: `Spec => []ChainIsLeaves`;
* `NoLeafDanglesHolds`: `Spec => []NoLeafDangles`;
* `EndsTurnColdByMergeHolds`: `Spec => EndsTurnColdByMerge`.

`Shape` strengthens them to the states inside a call: the nodes of the leaves come in the chain in the
order of the leaves (`InOrder`), where pieces of a divided leaf share the old node until they get
their own; which pieces those are (`Pieces`: from right to left, none or all but the first at the
end); and the node that waits for its leaf is next to the old one (`NextInChain`). From `InOrder` and
the fact that both are injective, the chain without the recycled nodes is the sequence of the leaves'
nodes because there is only one increasing enumeration (`OrderedUnique`).

`HBTreeCopies_proofs` proves, when leaves are never split two-way and no key is inserted that is
present (`TwoWay = FALSE`, `Duplicates = FALSE`, as in the run `HBTree`),

* `KeepsACopyHolds`: `Spec => []KeepsACopy`;
* `TreesCatchUpHolds`: `Spec => []TreesCatchUp`;
* `SearchesRightHolds`: `Spec => []SearchesRight`.

With two-way splits `KeepsACopy` fails, and nothing can be said of a leaf that goes on with a freed
node (`HBTreeRecycle`). With two values of a key, the log's delete and the leaf's erase disagree
(`HBTreeDup`), and `TreesCatchUp` and `SearchesRight` fail.

What these theorems say of a split rests on its range search. `RangeIs` shows that in each layout,
unless a key above the range is in a tree not scanned from left to right, the search gives each key of
the range, once, with its value; `NoneAbove`, that such a key, in the tree of a node whose split entry
is next, is one that is astray: the pieces right of this one have been moved and pruned, and a leaf on
the right has no key here. So `BeginSplit` either has the whole range or counts it among the astray.

The three properties speak of one moment each: of the persistent copies at every step, of trees when
the logs are empty, of answers between calls. What links these moments is what a log *will* do to a
tree. `There(l, now, k, m)` says whether key `k` is in the tree before entry `m` of log `l` is
applied, if it is (`now`) or is not in the tree at the beginning; `Stays(n, k)` whether it is there
at the end, not counting what the worker will delete after a split. Applying an entry, or deleting a
moved one, does not change `Stays`; appending an entry changes it for one key. The invariant
`Copies` has, for the keys whose place in persistent memory is known (`Tracked`, those not astray),

* `Trees`: a tree has a key at most once and no log inserts a key that will be there then; the batch
  of a worker that moves a range is what the tree holds of that range;
* `Placed`: what stays in the tree of a leaf's node are the keys of the leaf, counting the operation
  under way once it is logged; the moment a range changes its owner is when the latch is set;
* `Pending`: until then the split entry is in the old log, its bounds are the least and the greatest
  key of the piece, and the new node has what the worker has moved so far;
* `PieceKeys`: the pieces to be moved hold keys of their own range, so that no range is moved twice;
* `Answers`, `HotData`, `HotCall`: a hot leaf's array has the keys and values of the calls that
  returned, and only hot leaves are split.

`KeepsACopy` is `Placed` at the key's leaf: what stays in a tree is in the tree or inserted by the
log. `TreesCatchUp` is `Placed` for an empty log, where `Stays` is membership. `SearchesRight` is
`HotData` for hot leaves and the previous argument for cold ones, whose logs are empty. Each part of
`Copies` was checked by TLC on the instance of the run `HBTree` before it was proved.

**How a node is divided.** `Algorithms_proofs` proves about `FanoutTree`, for any number of levels, all
counts of keys, costs and weights,

* `UsedTileHolds`: `UsedTile`;
* `NeverOneChildHolds`: `NeverOneChild`;
* `CostOfChildrenHolds`: `CostOfChildren`,

each of a node that has keys (`Asked`): costs are per key, and a node without any is not divided.

The hypotheses are `FanoutAssumption`, that the weights are natural numbers, and `Reckoned`, that a
node has the keys of the two below it, as its range is divided into theirs (alex_fanout_tree.h:112;
so it is for every tree of the run, whose counts are made that way). `Merged` is what the merges of
each level keep: the nodes in use share no bucket and have each (`Tiled`), the cost is what these
nodes cost, and it is at most that of the complete level. All merges of a level are one step of the
model; that their savings add up is shown one merge at a time (`MergesSave`), and rests on a sum
over a set being the same in whichever order the definition takes its elements (`AnyTaken`).
`NeverOneChild` follows from the costs: the root alone, under the pointers of a finer level, would
cost at least what the root's level costs, and the best level costs less. The three recursive
functions (powers of two, sums, the levels merged) have values because solutions of their equations
are built, argument by argument (`Pow2Is`, `SumTakes`, `MergesUpwards`).

**The hot nodes.** `Algorithms_proofs` proves `HottestAreHotHolds`: `HotSpec => HottestAreHot` of `HotNodes`,
for any number of leaves, calls, splits, merges and adjustments. The hypothesis `HotAssumption` says
that there is to be a hot leaf at least, and that the unit of a degree, a power of five, is a number
(the provers know no powers). `Walk` is the inductive invariant: a leaf is listed once, under a number
given before; the counts are those of the leaves listed; and in the middle of the walk the queue holds
the hottest of the leaves it has passed, as many as it takes (`Queued`). A push keeps that because the
element that goes has the least degree in the queue, and ageing the next leaf changes no degree in it.

**Only model-checked.** Liveness under fairness is out of the prover's reach. `HBTree`'s two-way splits
and equal keys are in the runs only, as three of the properties fail there. Everything in `BTree` and
`Routing` is only model-checked: what a key's path through the pages or the model nodes leads to is
defined by recursion over trees that every step reshapes, and in `Routing` over powers of two as well.

## 6. Where the code and its comments part

* `FastPageRange`: btree.cc:130 "search keys from "min" to "max"". After a removal the page is
  scanned from the right and the search returns at the first key above `max`. A split loses keys by
  it: with keys 1 and 2 in a leaf, an insert of 3 that divides it between them is first logged with
  the old node; the piece of 2 is moved and deleted from the old tree, whose page is then scanned from
  the right, and the search for the piece of 1 meets 3 and returns. Key 1 stays in the old
  node and is freed with it (`Stranded` in `HBTree`).
* `HBTreeCold`: hbtree.cc:46 "search directly in NVM". The key whose insert makes a leaf split is
  logged with the old node; unless it lies between the keys of its new leaf it is not moved.
* `HBTreeRecycle`: test.cc:19 switches nodes and goes on inserting. After a two-way split the left
  leaf's inner node is marked for recycling, and freed by the next `SwitchInnerNode`.
* `HBTreeDup`: alex.h:2292 "Erases all keys with a certain key value". One of them goes from the
  B+tree.

Noted while modelling, and built into the properties or left to the hazards:

* alex.h:267 says that the first and the last leaf "must be hot node". `AdjustNodeType` keeps to it,
  as do splits and expansions; a merge into a cold neighbour does not (`EndsTurnColdByMerge`).
* After a removal the whole range of a tree, too, is read from right to left, page by page:
  `AdjustNodeType` passes descending keys to `switch_to_hot`, whose `bulk_load` expects ascending ones
  (alex.h:290-302, alex_nodes.h:498).
* `~NVMLogFile` unmaps the ring, and the object is freed, while the detached worker may be running
  (nvm_allocator.cc:70, daemon.h:17).
* The map of `AdjustNodeType` has 16-bit keys (alex.h:281) for 64-bit identifiers: a leaf may be hot
  because it shares the bits of a hotter one. `HottestAreHot` allows for just that, so it is no check of it. Searches of hot
  leaves do not reach the inner node, and do not count.
* When the root splits, `update_superroot_key_domain` clears the counts of keys outside the domain
  (alex.h:775) after the key under way was counted: they may be one too low from then on
  (`CountsNearlyRight`).
* For a key on a bucket boundary `get_leaf` looks at the first or last key of the neighbouring leaf
  without asking whether that leaf is cold (alex.h:516). `correct_traversal_path` (alex.h:577)
  assigns through a reference to the element it has popped off the path. `expand_root` leaves
  new children unset that lie below the prediction for the new least key (alex.h:1575); with exact
  arithmetic that is the first child.

## 7. Not modelled

* Linear regression, sampling and the expected cost of a leaf: floating point. They decide *when* a
  leaf expands or splits and where a model points, which the models leave open.
* Rounding: `correct_traversal_path` and the corrections of `get_leaf`, which exist for it.
* `bulk_load`, which the tree never calls; `split_upwards` and the top-down fanout search, which the
  default parameters turn off (alex.h:137).
* `AlexMap`, `AlexMultimap`, timer, printing: not used by the tree, or output only.
* `Reset` and `Recovery` of the log: never called, or empty.
* Buffers of `BTREEITEMS` entries on the stack: no instance has as many.
* The order of elements in the heap of the priority queue: which of several elements of least degree
  goes is left open.

## 8. Plan

1. `BTree` with equal keys, and the range search over the sibling chain.
2. Proofs: the refinement of `LeafList` by `Routing`, from which `KeysStayPlaced` would follow for the
   model nodes, and the types and links it rests on; the refinement of a two-thread abstraction of
   `SplitNode`.
