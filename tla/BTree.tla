------------------------------- MODULE BTree -------------------------------
(***************************************************************************)
(* The persistent B+tree (class btree): splits, merges and redistribution  *)
(* of pages, one store that a search can see at a time, and a search that  *)
(* walks the pages without a lock while they run. What insert_key and      *)
(* remove_key do inside a page is in FastPage; here each is a step.        *)
(*                                                                         *)
(* One thread writes a tree. Its recursion through store, remove,          *)
(* btree_insert_internal and btree_delete_internal is the sequence todo of *)
(* the stores and calls still to come, the next one first.                 *)
(***************************************************************************)
EXTENDS Integers, Sequences, SequencesExt

CONSTANTS Card,      \* cardinality: slots of a page, the last one for NULL
          Keys,      \* keys, naturals
          FirstPage, \* pages are numbered upwards from here, above the keys
          Loads,     \* sequences of keys that an execution may begin with
          ReadKeys,  \* keys searched for
          MaxOps     \* bound: operations after the first ones

Null == 0

ASSUME CardAssumption == Card \in Nat /\ Card > 3
ASSUME KeysAssumption ==
  /\ Keys \subseteq Nat \ {Null} /\ ReadKeys \subseteq Keys
  /\ FirstPage \in Nat /\ \A k \in Keys : k < FirstPage
  /\ \A load \in Loads : load \in Seq(Keys)

VARIABLES
  pages,    \* every page ever allocated: POBJ_FREE is never called
  root,
  todo,     \* what is left of the operation in progress
  keys,     \* the keys in the tree once that operation is complete
  busy,     \* its key
  load,     \* what is left of the first operations
  ops,      \* operations after those
  reader    \* a search: where it is and its locals

vars == <<pages, root, todo, keys, busy, load, ops, reader>>

Idle == [at |-> "idle", page |-> Null, key |-> Null, t |-> Null, met |-> FALSE]

(* A page: hdr and its records up to the NULL pointer. The pointer of a    *)
(* record is a page, or in a leaf the value, which is the key itself here. *)
EmptyPage(level) == [level |-> level, leftmost |-> Null, sibling |-> Null, records |-> <<>>]

Record(k, ptr) == [key |-> k, ptr |-> ptr]
NewPage == FirstPage + Cardinality(DOMAIN pages)     \* POBJ_NEW
Leaf(p) == pages[p].leftmost = Null
First(p) == pages[p].records[1].key

Init ==
  /\ pages = (FirstPage :> EmptyPage(0)) /\ root = FirstPage
  /\ todo = <<>> /\ keys = {} /\ busy = Null
  /\ load \in Loads /\ ops = 0 /\ reader = Idle

-----------------------------------------------------------------------------
(* Searching one page.                                                     *)
Child(p, k) ==
  LET below == SelectSeq(pages[p].records, LAMBDA r : r.key <= k)
  IN  IF below = <<>> THEN pages[p].leftmost ELSE Last(below).ptr

Holds(p, k) == \E j \in DOMAIN pages[p].records : pages[p].records[j].key = k

(* Whether the search goes on in the sibling, asked after the page.        *)
SiblingHas(p, k) == pages[p].sibling # Null /\ k >= First(pages[p].sibling)

(* page::linear_search, undisturbed.                                       *)
linear_search(p, k) ==
  CASE Leaf(p) /\ Holds(p, k) -> k
    [] SiblingHas(p, k)       -> pages[p].sibling
    [] OTHER                  -> IF Leaf(p) THEN Null ELSE Child(p, k)

(* The page of a level at which the descent for k ends.                    *)
Descend(k, level) ==
  LET from[p \in DOMAIN pages] ==
        IF pages[p].level > level THEN from[linear_search(p, k)] ELSE p
  IN  from[root]

(* btree_search: the leaf's siblings are followed while they are returned. *)
LeafWith(k) ==
  LET from[p \in DOMAIN pages] ==
        IF linear_search(p, k) = pages[p].sibling /\ pages[p].sibling # Null
        THEN from[pages[p].sibling] ELSE p
  IN  from[Descend(k, 0)]

btree_search(k) == linear_search(LeafWith(k), k)

-----------------------------------------------------------------------------
(* The stores and calls of an operation.                                   *)
Put(p, r)      == [do |-> "put", page |-> p, record |-> r]      \* insert_key
Cut(p, m)      == [do |-> "cut", page |-> p, m |-> m]           \* records[m].ptr = NULL
Link(p, q)     == [do |-> "link", page |-> p, to |-> q]         \* hdr.sibling_ptr = q
Leftmost(p, q) == [do |-> "leftmost", page |-> p, to |-> q]     \* hdr.leftmost_ptr = q
Drop(p, k)     == [do |-> "drop", page |-> p, key |-> k]        \* remove_key
Store(p, r)    == [do |-> "store", page |-> p, record |-> r]
RemoveFrom(p, k)   == [do |-> "remove", page |-> p, key |-> k]
Rebalance(p, k) == [do |-> "rebalance", page |-> p, key |-> k]  \* only_rebalance
Even(p, k, left) == [do |-> "even", page |-> p, key |-> k, left |-> left]
Raise(left, k, right) == [do |-> "raise", left |-> left, key |-> k, right |-> right]

Doing(what) == todo # <<>> /\ Head(todo).do = what
Then(steps) == todo' = steps \o Tail(todo)
Puts(p, records) == [j \in DOMAIN records |-> Put(p, records[j])]

InPage(records, r) ==
  LET upTo(x) == x.key <= r.key
      above(x) == x.key > r.key
  IN  SelectSeq(records, upTo) \o <<r>> \o SelectSeq(records, above)

Unchanged == UNCHANGED <<keys, busy, load, ops, reader>>

(* A search under way meets something its result may depend on.            *)
Disturb(cond) == reader' = [reader EXCEPT !.met = @ \/ (reader.at # "idle" /\ cond)]

DoPut ==
  /\ Doing("put")
  /\ LET s == Head(todo)
     IN  pages' = [pages EXCEPT ![s.page].records = InPage(@, s.record)]
  /\ Then(<<>>) /\ UNCHANGED root /\ Unchanged

DoCut ==
  /\ Doing("cut")
  /\ LET s == Head(todo)
     IN  pages' = [pages EXCEPT ![s.page].records = SubSeq(@, 1, s.m)]
  /\ Then(<<>>) /\ UNCHANGED root /\ Unchanged

DoLink ==
  /\ Doing("link")
  /\ LET s == Head(todo) IN pages' = [pages EXCEPT ![s.page].sibling = s.to]
  /\ Then(<<>>) /\ UNCHANGED root /\ Unchanged

DoLeftmost ==
  /\ Doing("leftmost")
  /\ LET s == Head(todo) IN pages' = [pages EXCEPT ![s.page].leftmost = s.to]
  /\ Then(<<>>) /\ UNCHANGED root /\ Unchanged

DoDrop ==
  /\ Doing("drop")
  /\ LET s == Head(todo)
         at == SelectInSeq(pages[s.page].records, LAMBDA r : r.key = s.key)
     IN  pages' = IF at = 0 THEN pages
                  ELSE [pages EXCEPT ![s.page].records = RemoveAt(@, at)]
  /\ Then(<<>>) /\ UNCHANGED root /\ Unchanged

(* store: walk to the page whose sibling starts above the key; a full page *)
(* gives its upper half to a new sibling before its own copy is cut off.   *)
Walk(p, k) ==
  LET from[q \in DOMAIN pages] ==
        IF pages[q].sibling # Null /\ k > First(pages[q].sibling)
        THEN from[pages[q].sibling] ELSE q
  IN  from[p]

UpperHalf(p, m) ==
  LET records == pages[p].records
  IN  [pages[p] EXCEPT
         !.leftmost = IF Leaf(p) THEN Null ELSE records[m + 1].ptr,
         !.records = SubSeq(records, IF Leaf(p) THEN m + 1 ELSE m + 2, Len(records))]

HasRoom(p) == Len(pages[p].records) < Card - 1

(* Defect: the upper half is cut off before its copy is linked.            *)
SplitCutFirst(p, r) ==
  LET m     == Len(pages[p].records) \div 2
      split == pages[p].records[m + 1].key
  IN  /\ pages' = (NewPage :> UpperHalf(p, m)) @@ pages
      /\ Then(<<Cut(p, m), Link(p, NewPage), Put(IF r.key < split THEN p ELSE NewPage, r),
                Raise(p, split, NewPage)>>)

Split(p, r) ==
  LET m     == Len(pages[p].records) \div 2
      split == pages[p].records[m + 1].key
  IN  /\ pages' = (NewPage :> UpperHalf(p, m)) @@ pages
      /\ Then(<<Link(p, NewPage), Cut(p, m), Put(IF r.key < split THEN p ELSE NewPage, r),
                Raise(p, split, NewPage)>>)

DoStore ==
  /\ Doing("store")
  /\ LET r == Head(todo).record
         p == Walk(Head(todo).page, r.key)
     IN  \/ HasRoom(p) /\ Then(<<Put(p, r)>>) /\ UNCHANGED pages
         \/ ~HasRoom(p) /\ Split(p, r)
  /\ UNCHANGED root /\ Unchanged

(* Defect: only a split of the root is entered above.                      *)
DoRaiseRootOnly ==
  /\ Doing("raise")
  /\ LET s == Head(todo)
     IN  IF s.left = root
         THEN /\ pages' = (NewPage :> [EmptyPage(pages[s.right].level + 1) EXCEPT
                              !.leftmost = root, !.records = <<Record(s.key, s.right)>>]) @@ pages
              /\ root' = NewPage
         ELSE UNCHANGED <<pages, root>>
  /\ Then(<<>>) /\ Unchanged

(* A new root over a page that was the root, or btree_insert_internal.     *)
DoRaise ==
  /\ Doing("raise")
  /\ LET s     == Head(todo)
         level == pages[s.right].level + 1
     IN  \/ /\ s.left = root
            /\ pages' = (NewPage :> [EmptyPage(level) EXCEPT !.leftmost = root,
                                       !.records = <<Record(s.key, s.right)>>]) @@ pages
            /\ root' = NewPage /\ Then(<<>>)
         \/ /\ s.left # root
            /\ Then(IF level > pages[root].level THEN <<>>
                    ELSE <<Store(Descend(s.key, level), Record(s.key, s.right))>>)
            /\ UNCHANGED <<pages, root>>
  /\ Unchanged

(* remove: a root left with one child gives way to it; another page that   *)
(* falls under half is evened out with its left sibling.                   *)
DoRemove ==
  /\ Doing("remove")
  /\ LET s     == Head(todo)
         count == Len(pages[s.page].records)
         under == count - 1 < (Card - 1) \div 2
     IN  IF s.page = root
         THEN /\ root' = IF ~Leaf(root) /\ count = 1 /\ pages[root].sibling = Null
                         THEN pages[root].leftmost ELSE root
              /\ Then(<<Drop(s.page, s.key)>>)
         ELSE /\ Then(<<Drop(s.page, s.key)>>
                      \o IF under THEN <<Rebalance(s.page, s.key)>> ELSE <<>>)
              /\ UNCHANGED root
  /\ UNCHANGED pages /\ Unchanged

(* btree_delete_internal: the parent's record of the page goes, and names  *)
(* the left sibling. The left-most child has none: its sibling is evened   *)
(* out with it instead.                                                    *)
DoRebalance ==
  /\ Doing("rebalance")
  /\ LET s      == Head(todo)
         parent == Descend(s.key, pages[s.page].level + 1)
         at     == SelectInSeq(pages[parent].records, LAMBDA r : r.ptr = s.page)
         key    == pages[parent].records[at].key
         left   == IF at = 1 THEN pages[parent].leftmost
                   ELSE pages[parent].records[at - 1].ptr
     IN  IF pages[parent].leftmost = s.page
         THEN Then(<<Rebalance(pages[s.page].sibling, First(pages[s.page].sibling))>>)
         ELSE /\ at # 0        \* else left_sibling would be uninitialized
              /\ Then(<<RemoveFrom(parent, key), Even(s.page, key, left)>>)
  /\ UNCHANGED <<pages, root>> /\ Unchanged

(* What a page's records become in another page: an inner page hands over  *)
(* its left-most child too, under the key the parent had for the page.     *)
Handed(p, k) == (IF Leaf(p) THEN <<>> ELSE <<Record(k, pages[p].leftmost)>>) \o pages[p].records

(* Defect: the merged page stays in the sibling chain.                     *)
MergeUnlinked(p, k, left) ==
  /\ Then(Puts(left, Handed(p, k)))
  /\ UNCHANGED pages

(* Both fit one page: everything moves left.                               *)
Merge(p, k, left) ==
  /\ Then(Puts(left, Handed(p, k)) \o <<Link(left, pages[p].sibling)>>)
  /\ UNCHANGED pages

(* The left page has more: its upper records move right, the last first.   *)
LeftToRight(p, k, left, m) ==
  LET records == pages[left].records
      upper   == Reverse(SubSeq(records, IF Leaf(p) THEN m + 1 ELSE m + 2, Len(records)))
      middle  == records[m + 1]
  IN  /\ Then(IF Leaf(p)
              THEN Puts(p, upper) \o <<Cut(left, m), Raise(left, middle.key, p)>>
              ELSE Puts(p, <<Record(k, pages[p].leftmost)>> \o upper)
                   \o <<Leftmost(p, middle.ptr), Cut(left, m), Raise(left, middle.key, p)>>)
      /\ UNCHANGED pages

(* The page has more: its lower records move left and the others to a new  *)
(* page, which takes its place.                                            *)
RightToLeft(p, k, left, m) ==
  LET records == pages[p].records
      d       == Len(records) - m
      middle  == records[IF Leaf(p) THEN d + 1 ELSE d]
  IN  /\ pages' = (NewPage :> [pages[p] EXCEPT
                     !.leftmost = IF Leaf(p) THEN Null ELSE middle.ptr,
                     !.records = SubSeq(records, d + 1, Len(records))]) @@ pages
      /\ Then(Puts(left, SubSeq(Handed(p, k), 1, d))
              \o <<Link(left, NewPage), Raise(left, middle.key, NewPage)>>)

DoEven ==
  /\ Doing("even")
  /\ LET s     == Head(todo)
         mine  == Len(pages[s.page].records)
         other == Len(pages[s.left].records)
         total == mine + other + IF Leaf(s.page) THEN 0 ELSE 1
         m     == total \div 2
     IN  \/ total <= Card - 1 /\ Merge(s.page, s.key, s.left)
         \/ total > Card - 1 /\ mine < other /\ LeftToRight(s.page, s.key, s.left, m)
         \/ total > Card - 1 /\ mine >= other /\ RightToLeft(s.page, s.key, s.left, m)
  /\ Disturb(TRUE)
  /\ UNCHANGED <<root, keys, busy, load, ops>>

-----------------------------------------------------------------------------
(* The operations: btree_insert of a key not in the tree, btree_delete of  *)
(* any key.                                                                *)
Start(k) ==
  todo = <<>> /\ busy' = k /\ Disturb(reader.key = k)

btree_insert(k) ==
  /\ Start(k) /\ k \notin keys
  /\ IF load = <<>> THEN ops < MaxOps /\ ops' = ops + 1 /\ UNCHANGED load
     ELSE k = Head(load) /\ load' = Tail(load) /\ UNCHANGED ops
  /\ todo' = <<Store(Descend(k, 0), Record(k, k))>>
  /\ keys' = keys \cup {k}
  /\ UNCHANGED <<pages, root>>

btree_delete(k) ==
  /\ Start(k) /\ load = <<>> /\ ops < MaxOps /\ ops' = ops + 1
  /\ todo' = IF btree_search(k) = k THEN <<RemoveFrom(LeafWith(k), k)>> ELSE <<>>
  /\ keys' = keys \ {k}
  /\ UNCHANGED <<pages, root, load>>

(* A lock-free search. linear_search reads the records first and the       *)
(* sibling pointer afterwards; in a leaf btree_search then reads the       *)
(* sibling pointer again, to see whether it was returned that or a value.  *)
ReadStart(k) ==
  /\ reader.at = "idle" /\ load = <<>>
  /\ reader' = [Idle EXCEPT !.at = "page", !.page = root, !.key = k,
                            !.met = todo # <<>> /\ (busy = k \/ busy \notin keys)]

ReadPage ==
  /\ reader.at = "page"
  /\ LET p == reader.page
         k == reader.key
     IN  reader' = IF Leaf(p) /\ Holds(p, k)
                   THEN [reader EXCEPT !.at = "done", !.t = k]
                   ELSE [reader EXCEPT !.at = "sibling",
                                       !.t = IF Leaf(p) THEN Null ELSE Child(p, k)]

(* Defect: a search that misses its key does not look to the sibling.      *)
ReadSiblingSkipped ==
  /\ reader.at = "sibling"
  /\ reader' = IF Leaf(reader.page) THEN [reader EXCEPT !.at = "again"]
               ELSE [reader EXCEPT !.at = "page", !.page = reader.t, !.t = Null]

ReadSibling ==
  /\ reader.at = "sibling"
  /\ LET p == reader.page
         t == IF SiblingHas(p, reader.key) THEN pages[p].sibling ELSE reader.t
     IN  reader' = IF Leaf(p) THEN [reader EXCEPT !.at = "again", !.t = t]
                   ELSE [reader EXCEPT !.at = "page", !.page = t, !.t = Null]

ReadAgain ==
  /\ reader.at = "again"
  /\ reader' = IF reader.t = pages[reader.page].sibling /\ reader.t # Null
               THEN [reader EXCEPT !.at = "page", !.page = reader.t, !.t = Null]
               ELSE [reader EXCEPT !.at = "done"]

ReadEnd == reader.at = "done" /\ reader' = Idle

WriterStep == \/ DoPut \/ DoCut \/ DoLink \/ DoLeftmost \/ DoDrop \/ DoStore \/ DoRaise
              \/ DoRemove \/ DoRebalance \/ DoEven
Operation == \E k \in Keys : btree_insert(k) \/ btree_delete(k)
ReaderStep ==
  /\ \/ \E k \in ReadKeys : ReadStart(k)
     \/ ReadPage \/ ReadSibling \/ ReadAgain \/ ReadEnd
  /\ UNCHANGED <<pages, root, todo, keys, busy, load, ops>>

Next == WriterStep \/ Operation \/ ReaderStep
Spec == Init /\ [][Next]_vars

-----------------------------------------------------------------------------
TypeOK ==
  /\ root \in DOMAIN pages /\ keys \subseteq Keys
  /\ \A p \in DOMAIN pages :
       /\ pages[p].leftmost \in DOMAIN pages \cup {Null}
       /\ pages[p].sibling \in DOMAIN pages \cup {Null}
       /\ Leaf(p) <=> pages[p].level = 0
       /\ Len(pages[p].records) < Card
       /\ \A j \in DOMAIN pages[p].records : pages[p].records[j].key \in Keys
  /\ reader.at \in {"idle", "page", "sibling", "again", "done"}

(* Between operations the pages of a level are the children of the level   *)
(* above, in the same order, every page but the root is at least half      *)
(* full, and the leaves hold the keys in order, each once: splits, merges  *)
(* and redistribution keep parents and sibling chain together.             *)
Chain(p) ==
  LET from[q \in DOMAIN pages] ==
        <<q>> \o IF pages[q].sibling = Null THEN <<>> ELSE from[pages[q].sibling]
  IN  from[p]
Children(p) == <<pages[p].leftmost>> \o [j \in DOMAIN pages[p].records |-> pages[p].records[j].ptr]
KeysOf(p) == [j \in DOMAIN pages[p].records |-> pages[p].records[j].key]

Shape ==
  /\ TypeOK
  /\ todo = <<>> =>
       LET level[l \in 0 .. pages[root].level] ==       \* the pages of a level
             IF l = pages[root].level THEN <<root>>
             ELSE FlattenSeq([j \in DOMAIN level[l + 1] |-> Children(level[l + 1][j])])
           inOrder == FlattenSeq([j \in DOMAIN level[0] |-> KeysOf(level[0][j])])
       IN  /\ \A l \in DOMAIN level : Chain(level[l][1]) = level[l]
           /\ \A l \in DOMAIN level : \A j \in DOMAIN level[l] :
                level[l][j] # root => Len(pages[level[l][j]].records) >= (Card - 1) \div 2
           /\ ToSet(inOrder) = keys
           /\ \A i, j \in DOMAIN inOrder : i < j => inOrder[i] < inOrder[j]

(* After every single store of a split, merge or redistribution a search   *)
(* finds each key that is in the tree and no other: the order in which a   *)
(* page is filled, linked, cut off and entered in its parent. It is also   *)
(* what a restart after a crash between two stores would find.             *)
AlwaysReadable == \A k \in Keys \ {busy} : btree_search(k) = IF k \in keys THEN k ELSE Null

(* An underflowing page finds the sibling it is to be evened out with: its *)
(* parent has a record of it, whatever was merged before.                  *)
SiblingFound ==
  Doing("rebalance") =>
    LET p == Head(todo).page
        parent == Descend(Head(todo).key, pages[p].level + 1)
    IN  /\ pages[parent].level = pages[p].level + 1
        /\ IF pages[parent].leftmost = p THEN pages[p].sibling # Null
           ELSE \E j \in DOMAIN pages[parent].records : pages[parent].records[j].ptr = p

(* A search that walks from page to page while they fill, split and get    *)
(* new parents finds its key if it was there all along, and only then.     *)
(* Two exceptions, which the code does not handle: a sibling pointer that  *)
(* changed between its two readings is returned as the value; and a search *)
(* that looked through the left page before a merge or redistribution, and *)
(* for its sibling after it, misses a key that moved.                      *)
SearchesRight ==
  reader.at = "done" /\ ~reader.met /\ reader.t \notin DOMAIN pages =>
    reader.t = IF reader.key \in keys THEN reader.key ELSE Null
=============================================================================
