------------------------------ MODULE DataNode ------------------------------
(***************************************************************************)
(* A hot leaf (AlexDataNode): a gapped array with a bitmap of the filled   *)
(* positions, exponential search from a predicted position, inserts that   *)
(* shift towards the closest gap, expansion and contraction, bulk loading. *)
(* The linear model is any monotone prediction: neither where it points    *)
(* nor the costs derived from it may matter to what the node holds.        *)
(***************************************************************************)
EXTENDS Ordering, FiniteSetsExt

CONSTANTS Keys,          \* keys, naturals
          Payloads,
          NoPayload,     \* what a gap's payload slot holds: it is never read
          kEndSentinel,  \* numeric_limits<T>::max(), above every key
          Word,          \* positions of one bitmap word
          max_slots,     \* max_slots_
          MaxKeys        \* bound: entries the model puts into the node

(* Densities and thresholds, in tenths. *)
kMaxDensity == 8
kInitDensity == 7
kMinDensity == 6

ASSUME KeysAssumption ==
  Keys \subseteq Nat /\ kEndSentinel \in Nat /\ \A k \in Keys : k < kEndSentinel
ASSUME WordAssumption == Word \in Nat \ {0} /\ Word % 2 = 0
ASSUME BoundsAssumption == max_slots \in Nat /\ MaxKeys \in Nat
ASSUME PayloadsAssumption == NoPayload \notin Payloads

VARIABLE node
(* The node's fields, without the trailing underscore: key_slots and       *)
(* payload_slots on 0 .. data_capacity - 1, bitmap the positions whose bit *)
(* is set, num_keys, the two thresholds, and is_cold once the arrays are   *)
(* given up and the entries live in persistent memory only.                *)

data_capacity(d) == Cardinality(DOMAIN d.key_slots)
Positions(d) == 0 .. data_capacity(d) - 1
check_exists(d, j) == j \in d.bitmap

Smaller(a, b) == IF a <= b THEN a ELSE b
Larger(a, b) == IF a >= b THEN a ELSE b

-----------------------------------------------------------------------------
(* Searches.  S is the set of positions before the bound searched for: an  *)
(* initial segment when the slots are sorted.                              *)
(* The loop halves the window [l, r); r - l rounds are enough to empty it. *)
Halved(w, S) ==
  LET mid == w.l + (w.r - w.l) \div 2
  IN  IF w.l >= w.r THEN w
      ELSE IF mid \in S THEN [l |-> mid + 1, r |-> w.r] ELSE [l |-> w.l, r |-> mid]

BinarySearch(l, r, S) ==
  LET window[n \in 0 .. r - l] ==
        IF n = 0 THEN [l |-> l, r |-> r] ELSE Halved(window[n - 1], S)
  IN  window[r - l].l

(* The bound is doubled while the position that far off is still on the    *)
(* same side.                                                              *)
ExponentialSearch(d, m, S) ==
  LET bound[n \in 0 .. data_capacity(d)] == IF n = 0 THEN 1 ELSE 2 * bound[n - 1]
      bounds == {bound[n] : n \in 0 .. data_capacity(d)}
      left   == Min({b \in bounds : b >= m \/ m - b \in S})
      size   == data_capacity(d) - m
      right  == Min({b \in bounds : b >= size \/ m + b \notin S})
  IN  IF m \in S THEN BinarySearch(m + right \div 2, m + Smaller(right, size), S)
      ELSE BinarySearch(m - Smaller(left, m), m - left \div 2, S)

(* Defect: the comparison is strict. *)
upper_bound_strict(d, m, k) == ExponentialSearch(d, m, {j \in Positions(d) : d.key_slots[j] < k})

upper_bound(d, m, k) == ExponentialSearch(d, m, {j \in Positions(d) : d.key_slots[j] <= k})
lower_bound(d, m, k) == ExponentialSearch(d, m, {j \in Positions(d) : d.key_slots[j] < k})

(* get_next_filled_position *)
NextFilled(d, pos) == Min({j \in d.bitmap : j >= pos} \cup {data_capacity(d)})

find_key(d, m, k) ==
  LET pos == upper_bound(d, m, k) - 1
  IN  IF pos < 0 \/ d.key_slots[pos] # k THEN -1 ELSE pos

find_lower(d, m, k) == NextFilled(d, lower_bound(d, m, k))
find_upper(d, m, k) == NextFilled(d, upper_bound(d, m, k))

find_insert_position(d, m, k) ==
  LET pos == upper_bound(d, m, k)
  IN  IF m <= pos \/ check_exists(d, pos) THEN pos
      ELSE Smaller(m, NextFilled(d, pos + 1) - 1)

-----------------------------------------------------------------------------
(* closest_gap, in the version that works on whole bitmap words: each word *)
(* tells its lowest gap (tzcnt) and its highest (lzcnt).                   *)
Bits(w) == w * Word .. w * Word + Word - 1
GapsOf(d, w) == Bits(w) \ d.bitmap
LowGap(d, w) == Min(GapsOf(d, w))
HighGap(d, w) == Max(GapsOf(d, w))

(* Defect: a gap past the capacity is taken. *)
NearerOfUnbounded(d, pos, l, r) == IF pos - l <= r - pos THEN l ELSE r

NearerOf(d, pos, l, r) == IF pos - l <= r - pos \/ r >= data_capacity(d) THEN l ELSE r

(* No gap in pos's word w: adjacent words, ever farther on both sides,     *)
(* then on the side that is left.                                          *)
GapInOtherWord(d, pos, w) ==
  LET bit  == pos - w * Word
      last == (data_capacity(d) - 1) \div Word
      both == Smaller(w, last - w)
      L(n) == GapsOf(d, w - n) # {}
      R(n) == GapsOf(d, w + n) # {}
      near == {n \in 1 .. both : L(n) \/ (R(n) /\ LowGap(d, w + n) < data_capacity(d))}
      n    == Min(near)
  IN  IF near = {}
      THEN IF w > last - w
           THEN HighGap(d, Max({v \in 0 .. w - both - 1 : GapsOf(d, v) # {}}))
           ELSE LowGap(d, Min({v \in w + both + 1 .. last : GapsOf(d, v) # {}}))
      ELSE IF L(n) /\ R(n) THEN NearerOf(d, pos, HighGap(d, w - n), LowGap(d, w + n))
      ELSE IF L(n)
      THEN IF bit > Word \div 2 /\ w + n + 1 <= last /\ R(n + 1)
           THEN NearerOf(d, pos, HighGap(d, w - n), LowGap(d, w + n + 1))
           ELSE HighGap(d, w - n)
      ELSE IF bit < Word \div 2 /\ w - n > 0 /\ L(n + 1)
           THEN NearerOf(d, pos, HighGap(d, w - n - 1), LowGap(d, w + n))
           ELSE LowGap(d, w + n)

(* A gap in the word: also look into the word on either side of it.        *)
GapAroundWord(d, pos, w) ==
  LET last  == (data_capacity(d) - 1) \div Word
      right == {j \in GapsOf(d, w) : j >= pos}
      left  == {j \in GapsOf(d, w) : j < pos}
      r == IF right # {} THEN Min(right) - pos
           ELSE IF w = last THEN Word
           ELSE IF GapsOf(d, w + 1) = {} THEN (w + 2) * Word - pos ELSE LowGap(d, w + 1) - pos
      l == IF left # {} THEN pos - Max(left)
           ELSE IF w = 0 THEN Word
           ELSE IF GapsOf(d, w - 1) = {} THEN pos - (w - 1) * Word + 1 ELSE pos - HighGap(d, w - 1)
  IN  IF r < l /\ pos + r < data_capacity(d) THEN pos + r ELSE pos - l

closest_gap(d, at) ==
  LET pos == Smaller(at, data_capacity(d) - 1)
      w == pos \div Word
  IN  IF GapsOf(d, w) \cap Positions(d) = {} THEN GapInOtherWord(d, pos, w)
      ELSE GapAroundWord(d, pos, w)

-----------------------------------------------------------------------------
(* The loop of bulk_load, bulk_load_from_existing and resize: each entry   *)
(* of s goes where the model predicts, right of the one before, and the    *)
(* rest is packed when space would run out.                                *)
Capacity(n, density) == Larger((n * 10) \div density, n + 1)

(* Defect: the rest is not packed when space runs out. *)
PlacedUnpacked(s, capacity, model) ==
  LET pos[i \in 0 .. Len(s)] ==
        IF i = 0 THEN -1 ELSE Larger(model[s[i].key], pos[i - 1] + 1)
  IN  pos

Placed(s, capacity, model) ==
  LET pos[i \in 0 .. Len(s)] ==
        IF i = 0 THEN -1
        ELSE Smaller(Larger(model[s[i].key], pos[i - 1] + 1), capacity - (Len(s) - i + 1))
  IN  pos

(* Predictions for the keys of s, by a model whose slope is not negative.  *)
Models(s, density) ==
  LET keys == {s[i].key : i \in DOMAIN s}
  IN  {m \in [keys -> 0 .. Capacity(Len(s), density)] :
         \A j, k \in keys : j < k => m[j] <= m[k]}

(* Every gap repeats the key of the entry on its right, the gaps after the *)
(* last entry hold the sentinel.                                           *)
LayOut(s, density, model) ==
  LET n == Len(s)
      capacity == Capacity(n, density)
      pos == Placed(s, capacity, model)
      from(j) == {i \in DOMAIN s : pos[i] >= j}
      filled == {pos[i] : i \in DOMAIN s}
      slots == 0 .. capacity - 1
  IN  [key_slots |-> [j \in slots |->
         IF from(j) = {} THEN kEndSentinel ELSE s[Min(from(j))].key],
       payload_slots |-> [j \in slots |->
         IF j \in filled THEN s[Min(from(j))].payload ELSE NoPayload],
       bitmap |-> filled,
       num_keys |-> n,
       expansion_threshold |->
         IF n = 0 THEN capacity * 10
         ELSE Smaller(Larger(capacity * kMaxDensity, (n + 1) * 10), capacity * 10),
       contraction_threshold |-> IF n = 0 THEN 0 ELSE capacity * kMinDensity,
       is_cold |-> FALSE]

LaidOut(s, density) == {LayOut(s, density, model) : model \in Models(s, density)}

(* The entries at the positions [left, right), as a const_iterator meets   *)
(* them.                                                                   *)
EntriesIn(d, left, right) ==
  LET at == Ordered({j \in d.bitmap : left <= j /\ j < right})
  IN  [i \in DOMAIN at |-> [key |-> d.key_slots[at[i]], payload |-> d.payload_slots[at[i]]]]

Contents(d) == EntriesIn(d, 0, data_capacity(d))

(* resize, which leaves an empty node alone.                               *)
Resized(d, density) ==
  IF d.num_keys = 0 THEN {d}
  ELSE LaidOut(Contents(d), density)

-----------------------------------------------------------------------------
(* The gaps left of a position, back to the entry before it.               *)
GapsBefore(d, pos) == {j \in 0 .. pos - 1 : \A h \in j .. pos - 1 : ~check_exists(d, h)}

(* Defect: the gaps before the entry keep their key. *)
InsertElementOnly(d, k, p, pos) ==
  [d EXCEPT !.key_slots[pos] = k, !.payload_slots[pos] = p, !.bitmap = @ \cup {pos}]

(* insert_element_at overwrites the gaps before the entry with its key.    *)
InsertElementAt(d, k, p, pos) ==
  LET gaps == GapsBefore(d, pos)
  IN  [d EXCEPT !.key_slots = [j \in Positions(d) |-> IF j \in gaps \cup {pos} THEN k ELSE @[j]],
                !.payload_slots[pos] = p,
                !.bitmap = @ \cup {pos}]

(* Defect: payloads are not shifted with their keys. *)
InsertShiftingKeysOnly(d, k, p, pos) ==
  LET gap == closest_gap(d, pos)
      to  == IF gap >= pos THEN pos ELSE pos - 1
      source(j) == IF to < j /\ j <= gap THEN j - 1
                   ELSE IF gap <= j /\ j < to THEN j + 1 ELSE j
  IN  InsertElementAt([d EXCEPT !.key_slots = [j \in Positions(d) |-> @[source(j)]],
                                !.bitmap = @ \cup {gap}], k, p, to)

InsertUsingShifts(d, k, p, pos) ==
  LET gap == closest_gap(d, pos)
      to  == IF gap >= pos THEN pos ELSE pos - 1
      source(j) == IF to < j /\ j <= gap THEN j - 1
                   ELSE IF gap <= j /\ j < to THEN j + 1 ELSE j
      shifted(a) == [j \in Positions(d) |-> a[source(j)]]
  IN  InsertElementAt([d EXCEPT !.key_slots = shifted(@), !.payload_slots = shifted(@),
                                !.bitmap = @ \cup {gap}], k, p, to)

InsertedAt(d, k, p, pos) ==
  LET placed == IF pos < data_capacity(d) /\ ~check_exists(d, pos)
                THEN InsertElementAt(d, k, p, pos) ELSE InsertUsingShifts(d, k, p, pos)
  IN  [placed EXCEPT !.num_keys = @ + 1]

(* insert.  A full node expands first; one that is at its maximum size, or *)
(* whose costs are too high, refuses the key and changes nothing.          *)
Insert(k, p) ==
  LET full == node.num_keys * 10 >= node.expansion_threshold
  IN  /\ ~node.is_cold /\ node.num_keys < MaxKeys
      /\ full => node.num_keys * 10 <= max_slots * kMinDensity
      /\ \E d \in IF full THEN Resized(node, kMinDensity) ELSE {node} :
           \E pos \in {find_insert_position(d, m, k) : m \in Positions(d)} :
             node' = InsertedAt(d, k, p, pos)

(* What erase, erase_range and erase_one leave: the positions S take the   *)
(* next key and lose their bits, and a node that got too sparse contracts. *)
Erase(S, next) ==
  LET left == [node EXCEPT !.key_slots = [j \in Positions(node) |-> IF j \in S THEN next ELSE @[j]],
                           !.payload_slots = [j \in Positions(node) |->
                                                IF j \in S THEN NoPayload ELSE @[j]],
                           !.bitmap = @ \ S,
                           !.num_keys = @ - Cardinality(S \cap node.bitmap)]
  IN  IF left.num_keys * 10 < left.contraction_threshold
      THEN node' \in Resized(left, kMaxDensity) ELSE node' = left

KeyAt(pos) == IF pos = data_capacity(node) THEN kEndSentinel ELSE node.key_slots[pos]

(* erase: from the upper bound leftwards while the key is k.               *)
EraseKey(k) ==
  /\ ~node.is_cold
  /\ \E pos \in {upper_bound(node, m, k) : m \in Positions(node)} :
       LET run == {j \in 0 .. pos - 1 : \A h \in j .. pos - 1 : node.key_slots[h] = k}
       IN  run # {} /\ Erase(run, KeyAt(pos))

EraseRange(start, end, end_key_inclusive) ==
  /\ ~node.is_cold
  /\ \E pos \in {IF end_key_inclusive THEN upper_bound(node, m, end)
                 ELSE lower_bound(node, m, end) : m \in Positions(node)} :
       LET run == {j \in 0 .. pos - 1 : \A h \in j .. pos - 1 : node.key_slots[h] >= start}
       IN  pos # 0 /\ Erase(run, KeyAt(pos))

(* erase_one: the left-most entry with the key, and the gaps before it.    *)
EraseOne(k) ==
  /\ ~node.is_cold
  /\ \E pos \in {find_lower(node, m, k) : m \in Positions(node)} :
       /\ pos < data_capacity(node) /\ node.key_slots[pos] = k
       /\ Erase({pos} \cup GapsBefore(node, pos), KeyAt(pos + 1))

(* A split: the node becomes one of the two that bulk_load_from_existing   *)
(* builds from the positions before and after the boundary.                *)
KeepSide(boundary, side) ==
  /\ ~node.is_cold
  /\ \E pos \in {lower_bound(node, m, boundary) : m \in Positions(node)} :
       node' \in LaidOut(IF side = "left" THEN EntriesIn(node, 0, pos)
                         ELSE EntriesIn(node, pos, data_capacity(node)), kMinDensity)

Cold == [key_slots |-> <<>>, payload_slots |-> <<>>, bitmap |-> {}, num_keys |-> 0,
         expansion_threshold |-> 10, contraction_threshold |-> 0, is_cold |-> TRUE]

switch_to_cold == ~node.is_cold /\ node' = Cold

(* switch_to_hot: bulk_load of what a range search of the B+tree returned. *)
SortedEntries ==
  LET s(n) == {t \in [1 .. n -> [key : Keys, payload : Payloads]] :
                 \A i \in 1 .. n - 1 : t[i].key <= t[i + 1].key}
  IN  UNION {s(n) : n \in 0 .. MaxKeys}

switch_to_hot(values) ==
  /\ node.is_cold
  /\ node' \in LaidOut(values, kInitDensity)

Init == node \in LaidOut(<<>>, kInitDensity)

Next ==
  \/ \E k \in Keys :
       \/ EraseKey(k) \/ EraseOne(k)
       \/ \E p \in Payloads : Insert(k, p)
       \/ \E side \in {"left", "right"} : KeepSide(k, side)
       \/ \E end \in Keys, incl \in BOOLEAN : EraseRange(k, end, incl)
  \/ switch_to_cold
  \/ \E values \in SortedEntries : switch_to_hot(values)

Spec == Init /\ [][Next]_node

-----------------------------------------------------------------------------
TypeOK ==
  /\ node.key_slots \in [Positions(node) -> Keys \cup {kEndSentinel}]
  /\ node.payload_slots \in [Positions(node) -> Payloads \cup {NoPayload}]
  /\ node.bitmap \subseteq Positions(node) /\ node.num_keys \in 0 .. MaxKeys
  /\ node.expansion_threshold \in Nat /\ node.contraction_threshold \in Nat
  /\ node.is_cold \in BOOLEAN

(* validate_structure: the slots are sorted, the last slot of every key is *)
(* an entry, the sentinel never is, and the bitmap agrees with num_keys.   *)
(* A node below its threshold has a gap left for the next insert.          *)
Structure ==
  LET n == data_capacity(node)
      key(j) == node.key_slots[j]
  IN  ~node.is_cold =>
        /\ \A j \in 0 .. n - 2 : key(j) <= key(j + 1)
        /\ \A j \in 0 .. n - 2 : key(j) < key(j + 1) => check_exists(node, j)
        /\ key(n - 1) # kEndSentinel => check_exists(node, n - 1)
        /\ \A j \in node.bitmap : key(j) # kEndSentinel
        /\ Cardinality(node.bitmap) = node.num_keys
        /\ node.num_keys <= n /\ node.expansion_threshold <= n * 10

(* Wherever the model points, every search agrees with its comment: the    *)
(* last entry of a key (find_key), the first entry not less or greater.    *)
SearchesExact ==
  \A m \in Positions(node), k \in Keys :
    LET n == data_capacity(node)
        having(T) == {j \in node.bitmap : node.key_slots[j] \in T}
        some(S) == Min(S \cup {n})
    IN  /\ find_key(node, m, k) = Max(having({k}) \cup {-1})
        /\ find_lower(node, m, k) = some(having({h \in Keys : h >= k}))
        /\ find_upper(node, m, k) = some(having({h \in Keys : h > k}))

(* "Returns position of closest gap to pos": the word-wise search finds a  *)
(* gap and none is closer, wherever the insert would go.                   *)
GapIsClosest ==
  \A at \in 0 .. data_capacity(node) :
    LET pos == Smaller(at, data_capacity(node) - 1)
        gap == closest_gap(node, at)
        far(j) == IF j >= pos THEN j - pos ELSE pos - j
        gaps == Positions(node) \ node.bitmap
    IN  gaps # {} => gap \in gaps /\ \A j \in gaps : far(gap) <= far(j)

(* The arrays behave as a list of entries in key order, equal keys in the  *)
(* order of their insertion.                                               *)
Entries == INSTANCE OrderedEntries WITH entries <- Contents(node)
EntriesSpec == Entries!Spec
=============================================================================
