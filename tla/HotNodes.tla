------------------------------ MODULE HotNodes ------------------------------
(***************************************************************************)
(* Which leaves are hot: the inner nodes count the calls that reach them,  *)
(* and AdjustNodeType walks the inner leaves of the leaf list once to age  *)
(* the counts and to keep the hottest in a fixed_size_priority_queue, and  *)
(* once more to switch each leaf to what the queue says of its identifier. *)
(* A leaf is given by the identifier of its inner node.  HBTree leaves the *)
(* choice of the hot leaves open.                                          *)
(***************************************************************************)
EXTENDS Integers, Sequences, FiniteSets, SequencesExt

CONSTANTS hot_node_num,
          IdWidth,     \* bits of an identifier that the map of AdjustNodeType keeps
          MaxCreated, MaxCalls, MaxRounds,   \* bounds: nodes made, calls, adjustments
          MaxMoved     \* bound: entries that a split writes to the log of a new node

VARIABLES
  list,        \* the leaves from first_data_node() to last_data_node()
  created,     \* node_id
  op_,         \* calls of the inner node of each leaf since it was last aged
  hot_degree_, \* in units of 5^-MaxRounds, so that aging is exact
  cold,        \* the leaves that are cold
  q,           \* c_, the contents of the queue
  scan,        \* position in list of AdjustNodeType, 0 between its calls
  calls, rounds

vars == <<list, created, op_, hot_degree_, cold, q, scan, calls, rounds>>

Unit == 5 ^ MaxRounds

(* Whoever uses this module has to see to it.                              *)
HotAssumption == hot_node_num \in Nat \ {0} /\ Unit \in Nat /\ MaxMoved \in Nat

Inner == {list[i] : i \in 2 .. Len(list) - 1}
Key16(n) == n % 2 ^ IdWidth    \* the conversion to uint16_t

HotInit ==
  /\ list = <<1>> /\ created = 2    \* dummy_ is node 0
  /\ op_ = <<0>> /\ hot_degree_ = <<0>>
  /\ cold = {} /\ q = {} /\ scan = 0 /\ calls = 0 /\ rounds = 0

-----------------------------------------------------------------------------
(* insert, erase, and search if the leaf is cold, reach the inner node; a  *)
(* search of a hot leaf does not.                                          *)
Call(n) ==
  /\ scan = 0 /\ calls < MaxCalls
  /\ op_' = [op_ EXCEPT ![n] = @ + 1]
  /\ calls' = calls + 1
  /\ UNCHANGED <<list, created, hot_degree_, cold, q, scan, rounds>>

(* A hot leaf is split in two, both with new inner nodes, the right one    *)
(* made first; or the left one keeps the node.  Each entry moved to a new  *)
(* node is an insert there.                                                *)
Split(i, both, moved) ==
  LET right == created
      n == IF both THEN 2 ELSE 1
      left == IF both THEN created + 1 ELSE list[i]
      new == right .. right + n - 1
      nodes == ToSet(list')
      extended(f, v) == [m \in nodes |-> IF m \in new THEN v[m - right + 1] ELSE f[m]]
  IN  /\ scan = 0 /\ list[i] \notin cold /\ created + n <= MaxCreated
      /\ list' = SubSeq(list, 1, i - 1) \o <<left, right>> \o SubSeq(list, i + 1, Len(list))
      /\ created' = created + n
      /\ op_' = extended(op_, moved) /\ hot_degree_' = extended(hot_degree_, <<0, 0>>)
      /\ UNCHANGED <<cold, q, scan, calls, rounds>>

(* An empty leaf goes when it is merged with a neighbour. *)
Merge(i) ==
  /\ scan = 0 /\ Len(list) > 1
  /\ list' = RemoveAt(list, i)
  /\ op_' = Restrict(op_, ToSet(list')) /\ hot_degree_' = Restrict(hot_degree_, ToSet(list'))
  /\ cold' = cold \ {list[i]}
  /\ UNCHANGED <<created, q, scan, calls, rounds>>

-----------------------------------------------------------------------------
(* AdjustNodeType: the first leaf and the last are left as they are.       *)
BeginAdjust ==
  /\ scan = 0 /\ Len(list) > 2 /\ rounds < MaxRounds
  /\ scan' = 2 /\ q' = {} /\ rounds' = rounds + 1
  /\ UNCHANGED <<list, created, op_, hot_degree_, cold, calls>>

(* UpdateHotDegree: DECAY is 0.2. *)
Aged(n) == hot_degree_[n] \div 5 + op_[n] * Unit

AgedDegree(n) == [hot_degree_ EXCEPT ![n] = Aged(n)]

(* Defect: a full queue replaces an element that is hotter. *)
PushInverted(n, degree) ==
  IF Cardinality(q) < hot_node_num THEN q' = q \cup {n}
  ELSE \E m \in {x \in q : \A y \in q : degree[x] <= degree[y]} :
         q' = IF degree[n] < degree[m] THEN (q \ {m}) \cup {n} ELSE q

(* push: a full queue gives up an element of least degree if the new one   *)
(* has more.  Which of several goes depends on the order of the heap.      *)
Push(n, degree) ==
  IF Cardinality(q) < hot_node_num THEN q' = q \cup {n}
  ELSE \E m \in {x \in q : \A y \in q : degree[x] <= degree[y]} :
         q' = IF degree[m] < degree[n] THEN (q \ {m}) \cup {n} ELSE q

ScanLeaf ==
  LET n == list[scan]
  IN  /\ scan \in 2 .. Len(list) - 1
      /\ hot_degree_' = AgedDegree(n)
      /\ op_' = [op_ EXCEPT ![n] = 0]
      /\ Push(n, hot_degree_')
      /\ scan' = scan + 1
      /\ UNCHANGED <<list, created, cold, calls, rounds>>

SwitchLeaves ==
  LET chosen == {Key16(n) : n \in q}
  IN  /\ scan > 0 /\ scan = Len(list)
      /\ cold' = (cold \ Inner) \cup {n \in Inner : Key16(n) \notin chosen}
      /\ scan' = 0 /\ q' = {}
      /\ UNCHANGED <<list, created, op_, hot_degree_, calls, rounds>>

HotNext ==
  \/ \E n \in ToSet(list) : Call(n)
  \/ \E i \in DOMAIN list, both \in BOOLEAN : \E moved \in [1 .. 2 -> 0 .. MaxMoved] : Split(i, both, moved)
  \/ \E i \in DOMAIN list : Merge(i)
  \/ BeginAdjust \/ ScanLeaf \/ SwitchLeaves

HotSpec == HotInit /\ [][HotNext]_vars

-----------------------------------------------------------------------------
(* What the step that ends the walk leaves.                                *)
Chosen ==
  scan > 0 /\ scan' = 0 =>
    LET hot == Inner \ cold'
    IN  /\ Cardinality(hot) >= hot_node_num \/ hot = Inner
        /\ \A c \in Inner \ hot, h \in hot :
             \E g \in hot : Key16(g) = Key16(h) /\ hot_degree_[c] <= hot_degree_[g]
        /\ (\A m, n \in Inner : Key16(m) = Key16(n) => m = n) => Cardinality(hot) <= hot_node_num

(* After AdjustNodeType as many inner leaves are hot as were asked for, or *)
(* all of them, or more if identifiers agree in the bits the map keeps;    *)
(* and no cold one was used more than a hot one, but for a leaf that is    *)
(* hot only because its identifier agrees with that of a hotter one.       *)
HottestAreHot == [][Chosen]_vars
=============================================================================
