-------------------------- MODULE FastPage_proofs ---------------------------
(***************************************************************************)
(* A page can be searched after every store of an insert or a removal, in  *)
(* memory and, until the first removal, in persistent memory, and by a     *)
(* search that runs without a lock while the stores are made: for every    *)
(* size of the page and of a cache line, all keys and all values.          *)
(***************************************************************************)
EXTENDS FastPage, FiniteSetTheorems, TLAPS

Ptr == {ValueOf[k] : k \in Keys} \cup {Null}
InsertPcs == {"empty_key", "empty_ptr", "empty_end", "open", "shift", "shift_key",
              "place_key", "place_ptr", "insert_end"}
RemovePcs == {"scan", "pull_key", "pull_ptr", "remove_end"}

(* The slots of S hold the keys K in order, each with its value. *)
Live(r, S, K) ==
  /\ S \subseteq Slots
  /\ \A j \in S : r[j].key \in K /\ r[j].ptr = ValueOf[r[j].key]
  /\ \A j, l \in S : j < l => r[j].key < r[l].key
  /\ \A k \in K : \E j \in S : r[j].key = k

(* No slot from j on is in use. *)
Empty(r, j) == \A l \in j .. Card - 1 : r[l].ptr = Null

(* A search passes slot j, which has the pointer of the slot on its left.  *)
Doubled(r, j) == r[j].ptr = IF j = 0 THEN Null ELSE r[j - 1].ptr

-----------------------------------------------------------------------------
(* The inductive invariant: what the slots hold at each place in the code. *)
Types ==
  /\ rec \in [Slots -> Record] /\ switch \in Nat /\ last_index \in -1 .. Card - 2
  /\ wpc \in {"idle"} \cup InsertPcs \cup RemovePcs
  /\ key \in Keys \cup {Top} /\ i \in -1 .. Card /\ num_entries \in 0 .. Card /\ keys \subseteq Keys

Direction ==
  /\ wpc = "idle" => key = Top
  /\ wpc \in InsertPcs =>
       /\ Forward(switch) /\ key \in Keys \ keys
       /\ num_entries = last_index + 1 /\ num_entries < Card - 1
  /\ wpc \in RemovePcs => ~Forward(switch) /\ key \in keys /\ last_index >= 0

AtRest ==
  wpc \in {"idle", "open", "scan", "empty_key", "empty_ptr"} =>
    /\ Live(rec, 0 .. last_index, keys) /\ Empty(rec, last_index + 1)
    /\ wpc = "open" => num_entries >= 1 /\ i = num_entries - 1
    /\ wpc = "scan" => i >= 0 /\ \A j \in 0 .. i - 1 : rec[j].key # key

FirstKey ==
  /\ wpc \in {"empty_key", "empty_ptr", "empty_end"} => num_entries = 0 /\ i = -1
  /\ wpc = "empty_ptr" => rec[0].key = key

(* Slot i + 1 is being vacated; what it last held is in the next one.      *)
Shifting ==
  wpc \in {"shift", "shift_key", "place_key", "place_ptr"} =>
    /\ num_entries >= 1 /\ i < num_entries
    /\ Live(rec, (0 .. num_entries) \ {i + 1}, keys) /\ Empty(rec, num_entries + 1)
    /\ \A j \in i + 2 .. num_entries : key < rec[j].key
    /\ wpc = "shift" => IF i + 1 = num_entries THEN rec[i + 1].ptr = Null ELSE rec[i + 1] = rec[i + 2]
    /\ wpc = "shift_key" => i >= 0 /\ key < rec[i].key
    /\ wpc \in {"place_key", "place_ptr"} => \A j \in 0 .. i : rec[j].key < key
    /\ wpc # "shift" => Doubled(rec, i + 1)
    /\ wpc = "place_ptr" => rec[i + 1].key = key

Inserted ==
  wpc \in {"empty_end", "insert_end"} =>
    Live(rec, 0 .. num_entries, keys \cup {key}) /\ Empty(rec, num_entries + 1)

(* Slot i is passed by searches; the record right of it moves into it.     *)
Pulling ==
  wpc \in {"pull_key", "pull_ptr"} =>
    /\ i \in 0 .. last_index
    /\ Live(rec, (0 .. last_index) \ {i}, keys \ {key}) /\ Empty(rec, last_index + 1)
    /\ Doubled(rec, i)
    /\ wpc = "pull_ptr" => rec[i].key = rec[i + 1].key

Removed ==
  wpc = "remove_end" => Live(rec, 0 .. last_index - 1, keys \ {key}) /\ Empty(rec, last_index)

PageInv ==
  Types /\ Direction /\ AtRest /\ FirstKey /\ Shifting /\ Inserted /\ Pulling /\ Removed

-----------------------------------------------------------------------------
(* Least and greatest elements. *)
LEMMA LeastIs ==
  ASSUME NEW S, S \subseteq Nat, S # {}
  PROVE  Least(S) \in S /\ \A y \in S : Least(S) <= y
<1> DEFINE I == {0 .. x : x \in S}
<1>1. I \subseteq FiniteSubsetsOf(Int) /\ I # {}
  <2>1. \A x \in S : IsFiniteSet(0 .. x) /\ 0 .. x \subseteq Int
    BY FS_Interval
  <2> QED
    BY <2>1, Zenon DEF FiniteSubsetsOf
<1>2. PICK t \in I : \A u \in I : <<u, t>> \notin StrictSubsetOrdering(Int)
  BY <1>1, WFMin, FS_StrictSubsetOrderingWellFounded
<1>3. PICK x \in S : t = 0 .. x
  OBVIOUS
<1>4. ASSUME NEW y \in S PROVE x <= y
  <2>1. SUFFICES ASSUME y < x PROVE FALSE
    OBVIOUS
  <2>2. 0 .. y \subseteq 0 .. x /\ x \in 0 .. x /\ x \notin 0 .. y
    BY <2>1
  <2>3. <<0 .. y, 0 .. x>> \in StrictSubsetOrdering(Int)
    BY <2>2 DEF StrictSubsetOrdering
  <2> QED
    BY <1>2, <1>3, <2>3
<1> QED
  BY <1>4 DEF Least

LEMMA GreatestIs ==
  ASSUME NEW S, S \subseteq Nat, S # {}, NEW n \in Nat, \A x \in S : x <= n
  PROVE  Greatest(S) \in S /\ \A y \in S : y <= Greatest(S)
<1> DEFINE T == {n - x : x \in S}
<1>1. T \subseteq Nat /\ T # {}
  <2>1. PICK x \in S : TRUE
    OBVIOUS
  <2>2. n - x \in T
    BY <2>1
  <2> QED
    BY <2>2
<1>2. PICK t \in T : \A u \in T : t <= u
  BY <1>1, LeastIs
<1>3. PICK x \in S : t = n - x
  OBVIOUS
<1>4. ASSUME NEW y \in S PROVE x >= y
  <2>1. n - y \in T
    OBVIOUS
  <2>2. n - x <= n - y
    BY <1>2, <1>3, <2>1
  <2> QED
    BY <2>2
<1> QED
  BY <1>4 DEF Greatest

LEMMA LeastOf ==
  ASSUME NEW S, S \subseteq Nat, NEW x \in S, \A y \in S : x <= y
  PROVE  Least(S) = x
<1>1. PICK m \in S : m = Least(S) /\ m <= x
  BY LeastIs
<1> QED
  BY <1>1

LEMMA GreatestOf ==
  ASSUME NEW S, S \subseteq Nat, NEW x \in S, \A y \in S : y <= x
  PROVE  Greatest(S) = x
<1>1. PICK m \in S : m = Greatest(S) /\ x <= m
  BY GreatestIs
<1> QED
  BY <1>1

-----------------------------------------------------------------------------
(* What a store changes. *)
LEMMA StoreKey ==
  ASSUME rec \in [Slots -> Record], NEW j \in Slots, NEW x \in Keys \cup {Top}, Store(j, "key", x)
  PROVE  /\ rec' \in [Slots -> Record] /\ rec'[j].key = x /\ rec'[j].ptr = rec[j].ptr
         /\ \A l \in Slots : l # j => rec'[l] = rec[l]
BY DEF Store, Record

LEMMA StorePtr ==
  ASSUME rec \in [Slots -> Record], NEW j \in Slots, NEW x \in Ptr, Store(j, "ptr", x)
  PROVE  /\ rec' \in [Slots -> Record] /\ rec'[j].ptr = x /\ rec'[j].key = rec[j].key
         /\ \A l \in Slots : l # j => rec'[l] = rec[l]
BY DEF Store, Record, Ptr

LEMMA Values ==
  \A k \in Keys : ValueOf[k] \in Ptr /\ ValueOf[k] # Null
                  /\ \A l \in Keys : ValueOf[k] = ValueOf[l] => k = l
BY ValuesAssumption DEF Ptr

(* count() from a hint that is next to the end of the records.             *)
LEMMA CountIs ==
  ASSUME rec \in [Slots -> Record], last_index \in -1 .. Card - 2, NEW s,
         rec[last_index + 1].ptr = Null
  PROVE  Count(rec, s, last_index) = last_index + 1
<1> DEFINE above == NullsIn(rec, last_index + 1 .. Card - 1)
           below == NullsIn(rec, 0 .. last_index + 1)
<1>1. last_index + 1 \in above /\ above \subseteq Nat /\ \A y \in above : last_index + 1 <= y
  BY CardAssumption DEF NullsIn
<1>2. last_index + 1 \in below /\ below \subseteq Nat /\ \A y \in below : y <= last_index + 1
  BY CardAssumption DEF NullsIn
<1>3. Least(above) = last_index + 1
  BY <1>1, LeastOf
<1>4. Greatest(below) = last_index + 1 /\ below # {}
  BY <1>2, GreatestOf
<1> QED
  BY <1>3, <1>4 DEF Count

(* The end of the records that a search in forward direction finds.        *)
LEMMA EndIs ==
  ASSUME NEW w \in 1 .. Card - 1, rec[w].ptr = Null, \A j \in 1 .. w - 1 : rec[j].ptr # Null
  PROVE  Least(NullsIn(rec, 1 .. Card - 1)) = w
<1> DEFINE S == NullsIn(rec, 1 .. Card - 1)
<1>1. w \in S /\ S \subseteq Nat /\ \A y \in S : w <= y
  BY CardAssumption DEF NullsIn
<1> QED
  BY <1>1, LeastOf

(* A search returns v if every hit in the slots it walks has v.            *)
LEMMA SearchIs ==
  ASSUME NEW w \in Nat, NEW k, NEW v,
         IF Forward(switch) THEN Least(NullsIn(rec, 1 .. Card - 1)) = w
                            ELSE Count(rec, switch, last_index) = w,
         \A j \in 0 .. w - 1 : Hit(rec, k, j) => rec[j].ptr = v,
         v # Null => \E j \in 0 .. w - 1 : Hit(rec, k, j)
  PROVE  Search(rec, switch, last_index, k) = v
<1> DEFINE S == {j \in 0 .. w - 1 : Hit(rec, k, j)}
<1>1. Search(rec, switch, last_index, k) =
        IF S = {} THEN Null ELSE IF Forward(switch) THEN rec[Least(S)].ptr ELSE rec[Greatest(S)].ptr
  BY DEF Search
<1>2. CASE S = {}
  BY <1>1, <1>2
<1>3. CASE S # {}
  <2>1. Least(S) \in S
    <3>1. S \subseteq Nat
      OBVIOUS
    <3> QED
      BY <3>1, <1>3, LeastIs
  <2>2. Greatest(S) \in S
    <3>1. CASE w = 0
      BY <3>1, <1>3
    <3>2. CASE w > 0
      <4>1. S \subseteq Nat /\ w - 1 \in Nat /\ \A x \in S : x <= w - 1
        BY <3>2
      <4> QED
        BY <4>1, <1>3, GreatestIs
    <3> QED
      BY <3>1, <3>2
  <2> QED
    BY <1>1, <1>3, <2>1, <2>2
<1> QED
  BY <1>2, <1>3

(* The hits among the first w slots, of which all but g are live.          *)
LEMMA Hits ==
  ASSUME Types, NEW w \in Nat, w <= Card, NEW g \in Int, NEW K, K \subseteq Keys, NEW k \in Keys,
         Live(rec, (0 .. w - 1) \ {g}, K),
         g \in 0 .. w - 1 => \/ rec[g].ptr = Null \/ Doubled(rec, g)
                             \/ g < w - 1 /\ rec[g] = rec[g + 1]
  PROVE  LET v == IF k \in K THEN ValueOf[k] ELSE Null
         IN  /\ \A j \in 0 .. w - 1 : Hit(rec, k, j) => rec[j].ptr = v
             /\ v # Null => \E j \in 0 .. w - 1 : Hit(rec, k, j)
<1> DEFINE v == IF k \in K THEN ValueOf[k] ELSE Null
           S == (0 .. w - 1) \ {g}
<1>1. \A j \in S : /\ rec[j].key \in K /\ rec[j].ptr = ValueOf[rec[j].key] /\ rec[j].ptr # Null
                   /\ \A l \in S : rec[j].ptr = rec[l].ptr => j = l
  <2>1. \A j \in S : rec[j].key \in K /\ rec[j].ptr = ValueOf[rec[j].key]
    BY DEF Live
  <2>2. \A j, l \in S : j # l => rec[j].key # rec[l].key
    <3>1. \A j \in S : j \in Int /\ rec[j].key \in Nat
      BY <2>1, KeysAssumption
    <3>2. \A j, l \in S : j < l => rec[j].key < rec[l].key
      BY DEF Live
    <3> QED
      BY <3>1, <3>2
  <2> QED
    BY <2>1, <2>2, Values
<1>2. ASSUME NEW j \in 0 .. w - 1, Hit(rec, k, j) PROVE rec[j].ptr = v
  <2>1. CASE j \in S
    BY <1>1, <1>2, <2>1 DEF Hit
  <2>2. CASE j = g
    <3>1. rec[g].ptr # Null /\ ~Doubled(rec, g)
      BY <1>2, <2>2 DEF Hit, Doubled
    <3>2. g < w - 1 /\ rec[g] = rec[g + 1] /\ g + 1 \in S
      BY <3>1, <2>2
    <3> QED
      BY <1>1, <1>2, <2>2, <3>2 DEF Hit
  <2> QED
    BY <2>1, <2>2
<1>3. ASSUME k \in K PROVE \E j \in 0 .. w - 1 : Hit(rec, k, j)
  <2>1. PICK j \in S : rec[j].key = k
    BY <1>3 DEF Live
  <2>2. CASE j = 0 \/ rec[j].ptr # rec[j - 1].ptr
    BY <1>1, <2>1, <2>2 DEF Hit
  <2>3. CASE j # 0 /\ rec[j].ptr = rec[j - 1].ptr
    <3>1. j - 1 = g /\ g \in 0 .. w - 1
      BY <1>1, <2>3
    <3>2. rec[g].ptr # Null
      BY <1>1, <2>1, <2>3, <3>1
    <3>3. ~Doubled(rec, g)
      <4>1. CASE g = 0
        BY <4>1, <3>2 DEF Doubled
      <4>2. CASE g # 0
        <5>1. g - 1 \in S /\ j # g - 1
          BY <4>2, <3>1
        <5>2. rec[g - 1].ptr # rec[j].ptr
          BY <5>1, <1>1
        <5> QED
          BY <5>2, <4>2, <2>3, <3>1 DEF Doubled
      <4> QED
        BY <4>1, <4>2
    <3>4. rec[g] = rec[j]
      <4>1. rec[g] = rec[g + 1]
        BY <3>1, <3>2, <3>3
      <4>2. g + 1 = j
        BY <3>1
      <4> QED
        BY <4>1, <4>2
    <3>5. g = 0 \/ rec[g].ptr # rec[g - 1].ptr
      BY <3>3 DEF Doubled
    <3> QED
      BY <3>1, <3>2, <3>4, <3>5, <2>1 DEF Hit
  <2> QED
    BY <2>2, <2>3
<1> QED
  BY <1>2, <1>3
-----------------------------------------------------------------------------
LEMMA PageInit == Init => PageInv
<1> SUFFICES ASSUME Init PROVE PageInv
  OBVIOUS
<1>1. Types
  BY CardAssumption DEF Init, Types, Slots, Record
<1>2. \A j \in Slots : rec[j].ptr = Null
  BY DEF Init
<1>3. Live(rec, 0 .. -1, {}) /\ Empty(rec, 0)
  BY <1>2 DEF Live, Empty, Slots
<1> QED
  BY <1>1, <1>3 DEF Init, PageInv, Direction, AtRest, FirstKey, Shifting, Inserted, Pulling, Removed,
     InsertPcs, RemovePcs

LEMMA Parity == \A s \in Nat : Forward(s) <=> ~Forward(s + 1)
BY DEF Forward

LEMMA LastSlot ==
  ASSUME Types
  PROVE  /\ last_index + 1 \in Slots /\ last_index \in Int /\ Card - 1 \in Slots /\ Card \in Nat
         /\ num_entries \in Nat /\ i \in Int
         /\ Empty(rec, last_index + 1) => rec[last_index + 1].ptr = Null
BY CardAssumption DEF Types, Slots, Empty

(* The steps that store nothing in the records. *)
LEMMA InsertStep ==
  ASSUME PageInv, NEW k \in Keys, Insert(k)
  PROVE  PageInv'
<1>1. Live(rec, 0 .. last_index, keys) /\ Empty(rec, last_index + 1) /\ Types
  BY DEF PageInv, AtRest, Insert
<1>2. num_entries' = last_index + 1
  <2>1. rec[last_index + 1].ptr = Null
    BY <1>1, LastSlot
  <2>2. Count(rec, switch, last_index) = last_index + 1
    BY <1>1, <2>1, CountIs DEF Types
  <2> QED
    BY <2>2 DEF Insert
<1>3. Forward(switch') /\ switch' \in Nat
  <2>1. switch' = IF Forward(switch) THEN switch ELSE switch + 1
    BY DEF Insert
  <2>2. switch \in Nat
    BY <1>1 DEF Types
  <2> QED
    BY <2>1, <2>2, Parity
<1>4. Types'
  <2>1. num_entries' \in 0 .. Card /\ i' \in -1 .. Card
    BY <1>1, <1>2, CardAssumption DEF Types, Insert
  <2> QED
    BY <1>1, <1>3, <2>1 DEF Types, Insert, InsertPcs
<1>5. (Live(rec, 0 .. last_index, keys) /\ Empty(rec, last_index + 1))'
  BY <1>1 DEF Insert, Live, Empty
<1> QED
  BY <1>1, <1>2, <1>3, <1>4, <1>5 DEF Insert, PageInv, Types, Direction, AtRest, FirstKey, Shifting,
     Inserted, Pulling, Removed, InsertPcs, RemovePcs

LEMMA InsertEndStep ==
  ASSUME PageInv, InsertEnd
  PROVE  PageInv'
<1>1. Types /\ Live(rec, 0 .. num_entries, keys \cup {key}) /\ Empty(rec, num_entries + 1)
      /\ num_entries = last_index + 1 /\ num_entries < Card - 1
  BY DEF PageInv, Direction, Inserted, InsertEnd, Step, InsertPcs
<1>2. Types'
  BY <1>1, CardAssumption DEF PageInv, Direction, Types, InsertEnd, Step, InsertPcs
<1>3. (Live(rec, 0 .. last_index, keys) /\ Empty(rec, last_index + 1))'
  BY <1>1 DEF InsertEnd, Live, Empty
<1> QED
  BY <1>2, <1>3 DEF InsertEnd, Step, PageInv, Direction, AtRest, FirstKey, Shifting,
     Inserted, Pulling, Removed, InsertPcs, RemovePcs

LEMMA RemoveStep ==
  ASSUME PageInv, NEW k \in Keys, Remove(k)
  PROVE  PageInv'
<1>1. Live(rec, 0 .. last_index, keys) /\ Empty(rec, last_index + 1) /\ Types
  BY DEF PageInv, AtRest, Remove
<1>2. ~Forward(switch') /\ switch' \in Nat
  BY <1>1 DEF Remove, Forward, Types
<1>3. Types'
  BY <1>1, <1>2, CardAssumption DEF Types, Remove, RemovePcs
<1>4. (Live(rec, 0 .. last_index, keys) /\ Empty(rec, last_index + 1))'
  BY <1>1 DEF Remove, Live, Empty
<1>5. last_index >= 0
  BY <1>1 DEF Remove, Live, Types
<1> QED
  BY <1>2, <1>3, <1>4, <1>5 DEF Remove, PageInv, Types, Direction, AtRest, FirstKey, Shifting,
     Inserted, Pulling, Removed, InsertPcs, RemovePcs

LEMMA ScanOnStep ==
  ASSUME PageInv, ScanOn
  PROVE  PageInv'
<1>1. Live(rec, 0 .. last_index, keys) /\ Empty(rec, last_index + 1) /\ Types
      /\ i >= 0 /\ key \in keys /\ \A j \in 0 .. i - 1 : rec[j].key # key
  BY DEF PageInv, AtRest, Direction, ScanOn, Step, RemovePcs
<1>2. i <= last_index
  BY <1>1 DEF Live, Types
<1>3. Types'
  BY <1>1, <1>2, CardAssumption DEF Types, ScanOn, Step, Frame
<1>4. (Live(rec, 0 .. last_index, keys) /\ Empty(rec, last_index + 1))'
  BY <1>1 DEF ScanOn, Frame, Live, Empty
<1>5. \A j \in 0 .. i' - 1 : rec'[j].key # key'
  BY <1>1 DEF ScanOn, Frame, Types
<1> QED
  BY <1>1, <1>3, <1>4, <1>5 DEF ScanOn, Step, Frame, PageInv, Types, Direction, AtRest, FirstKey, Shifting,
     Inserted, Pulling, Removed, InsertPcs, RemovePcs

LEMMA RemoveEndStep ==
  ASSUME PageInv, RemoveEnd
  PROVE  PageInv'
<1>1. Types /\ Live(rec, 0 .. last_index - 1, keys \ {key}) /\ Empty(rec, last_index) /\ last_index >= 0
  BY DEF PageInv, Direction, Removed, RemoveEnd, Step, RemovePcs
<1>2. Types'
  BY <1>1, CardAssumption DEF Types, RemoveEnd, Step
<1>3. (Live(rec, 0 .. last_index, keys) /\ Empty(rec, last_index + 1))'
  BY <1>1 DEF RemoveEnd, Live, Empty, Types
<1> QED
  BY <1>2, <1>3 DEF RemoveEnd, Step, PageInv, Direction, AtRest, FirstKey, Shifting,
     Inserted, Pulling, Removed, InsertPcs, RemovePcs

(* The steps of an insert. *)
LEMMA EmptySteps ==
  ASSUME PageInv, EmptyKey \/ EmptyPtr \/ EmptyEnd
  PROVE  PageInv'
<1>1. Types /\ key \in Keys \ keys /\ num_entries = 0 /\ last_index = -1 /\ 0 \in Slots /\ 1 \in Slots
      /\ Forward(switch) /\ i = -1
  <2>1. wpc \in {"empty_key", "empty_ptr", "empty_end"}
    BY DEF EmptyKey, EmptyPtr, EmptyEnd, Step
  <2>2. Types /\ key \in Keys \ keys /\ num_entries = last_index + 1 /\ num_entries < Card - 1
        /\ Forward(switch) /\ num_entries = 0 /\ i = -1
    BY <2>1 DEF PageInv, Direction, FirstKey, InsertPcs
  <2>3. last_index \in Int
    BY <2>2 DEF Types
  <2> QED
    BY <2>2, <2>3, CardAssumption DEF Slots
<1>2. CASE EmptyKey
  <2>1. rec' \in [Slots -> Record] /\ rec'[0].key = key /\ \A j \in Slots : rec'[j].ptr = rec[j].ptr
    BY <1>1, <1>2, StoreKey DEF EmptyKey, Types
  <2>2. Live(rec, 0 .. last_index, keys) /\ Empty(rec, last_index + 1)
    BY <1>2 DEF PageInv, AtRest, EmptyKey, Step
  <2>3. (Live(rec, 0 .. last_index, keys) /\ Empty(rec, last_index + 1))'
    BY <1>1, <1>2, <2>1, <2>2 DEF Live, Empty, EmptyKey, Frame, Slots
  <2> QED
    BY <1>1, <1>2, <2>1, <2>3 DEF EmptyKey, Step, Frame, PageInv, Types, Direction, AtRest, FirstKey,
       Shifting, Inserted, Pulling, Removed, InsertPcs, RemovePcs
<1>3. CASE EmptyPtr
  <2>1. rec' \in [Slots -> Record] /\ rec'[0].key = key /\ rec'[0].ptr = ValueOf[key]
        /\ \A j \in Slots : j # 0 => rec'[j] = rec[j]
    BY <1>1, <1>3, StorePtr, Values DEF EmptyPtr, Types, PageInv, FirstKey, Step
  <2>2. keys = {} /\ Empty(rec, 0)
    BY <1>1, <1>3 DEF PageInv, AtRest, EmptyPtr, Step, Live
  <2>3. (Live(rec, 0 .. num_entries, keys \cup {key}) /\ Empty(rec, num_entries + 1))'
    BY <1>1, <1>3, <2>1, <2>2 DEF Live, Empty, EmptyPtr, Frame, Slots
  <2> QED
    BY <1>1, <1>3, <2>1, <2>3 DEF EmptyPtr, Step, Frame, PageInv, Types, Direction, AtRest, FirstKey,
       Shifting, Inserted, Pulling, Removed, InsertPcs, RemovePcs
<1>4. CASE EmptyEnd
  <2>1. rec' \in [Slots -> Record] /\ rec'[1].ptr = Null
        /\ \A j \in Slots : j # 1 => rec'[j] = rec[j]
    BY <1>1, <1>4, StorePtr DEF EmptyEnd, Types, Ptr
  <2>2. Live(rec, 0 .. num_entries, keys \cup {key}) /\ Empty(rec, num_entries + 1)
    BY <1>4 DEF PageInv, Inserted, EmptyEnd, Step
  <2>3. (Live(rec, 0 .. num_entries, keys \cup {key}) /\ Empty(rec, num_entries + 1))'
    BY <1>1, <1>4, <2>1, <2>2 DEF Live, Empty, EmptyEnd, Frame, Slots
  <2> QED
    BY <1>1, <1>4, <2>1, <2>3 DEF EmptyEnd, Step, Frame, PageInv, Types, Direction, AtRest, FirstKey,
       Shifting, Inserted, Pulling, Removed, InsertPcs, RemovePcs
<1> QED
  BY <1>2, <1>3, <1>4

LEMMA OpenSlotStep ==
  ASSUME PageInv, OpenSlot
  PROVE  PageInv'
<1>1. Types /\ num_entries = last_index + 1 /\ num_entries >= 1 /\ num_entries < Card - 1
      /\ i = num_entries - 1 /\ Live(rec, 0 .. last_index, keys) /\ Empty(rec, num_entries)
      /\ Forward(switch) /\ key \in Keys \ keys
  BY DEF PageInv, Direction, AtRest, OpenSlot, Step, InsertPcs
<1>2. num_entries + 1 \in Slots /\ num_entries \in Slots /\ rec[num_entries].ptr = Null
  BY <1>1, CardAssumption DEF Types, Slots, Empty
<1>3. /\ rec' \in [Slots -> Record] /\ rec'[num_entries + 1].ptr = Null
      /\ \A j \in Slots : j # num_entries + 1 => rec'[j] = rec[j]
  BY <1>1, <1>2, StorePtr DEF OpenSlot, Types, Ptr
<1>4. Live(rec, 0 .. last_index, keys)'
  BY <1>1, <1>3 DEF Live, OpenSlot, Frame, Types, Slots
<1>5. Empty(rec, num_entries)'
  BY <1>1, <1>3 DEF Empty, OpenSlot, Frame, Types, Slots
<1>6. (0 .. num_entries) \ {i + 1} = 0 .. last_index
  BY <1>1 DEF Types
<1>7. Shifting'
  <2>1. num_entries' = num_entries /\ i' = i /\ keys' = keys /\ last_index' = last_index /\ wpc' = "shift"
    BY DEF OpenSlot, Step, Frame
  <2>2. Live(rec, (0 .. num_entries) \ {i + 1}, keys)'
    BY <1>4, <1>6, <2>1 DEF Live
  <2>3. Empty(rec, num_entries + 1)' /\ rec'[i' + 1].ptr = Null
    BY <1>1, <1>2, <1>5, <2>1 DEF Empty, Types, Slots
  <2>4. i' + 1 = num_entries' /\ num_entries' >= 1 /\ i' < num_entries'
    BY <1>1, <2>1 DEF Types
  <2> QED
    BY <1>1, <2>1, <2>2, <2>3, <2>4 DEF Shifting, Types
<1> QED
  BY <1>1, <1>3, <1>7 DEF OpenSlot, Step, Frame, PageInv, Types, Direction, AtRest, FirstKey,
     Inserted, Pulling, Removed, InsertPcs, RemovePcs

(* Records that stay, and one that moves to the free slot next to it.      *)
LEMMA LiveStays ==
  ASSUME NEW r, NEW q, NEW S, NEW K, Live(r, S, K), \A j \in S : q[j] = r[j]
  PROVE  Live(q, S, K)
BY DEF Live

LEMMA EmptyStays ==
  ASSUME NEW r, NEW q, NEW n \in Int, Empty(r, n), \A j \in n .. Card - 1 : q[j] = r[j]
  PROVE  Empty(q, n)
BY DEF Empty

LEMMA LiveMoves ==
  ASSUME NEW r, NEW q, NEW n \in Int, NEW a \in 0 .. n, NEW b \in 0 .. n, b = a + 1 \/ a = b + 1, NEW K,
         Live(r, (0 .. n) \ {b}, K), q[b] = r[a], \A j \in 0 .. n : j # a /\ j # b => q[j] = r[j],
         0 .. n \subseteq Slots
  PROVE  Live(q, (0 .. n) \ {a}, K)
<1>1. \A j \in (0 .. n) \ {a} : q[j] = r[IF j = b THEN a ELSE j] /\ (IF j = b THEN a ELSE j) \in (0 .. n) \ {b}
  OBVIOUS
<1>2. \A j \in (0 .. n) \ {a} : q[j].key \in K /\ q[j].ptr = ValueOf[q[j].key]
  BY <1>1 DEF Live
<1>3. ASSUME NEW j \in (0 .. n) \ {a}, NEW l \in (0 .. n) \ {a}, j < l
      PROVE  q[j].key < q[l].key
  <2>1. (IF j = b THEN a ELSE j) < (IF l = b THEN a ELSE l)
    BY <1>3
  <2> QED
    BY <2>1, <1>1 DEF Live
<1>4. ASSUME NEW k \in K PROVE \E j \in (0 .. n) \ {a} : q[j].key = k
  <2>1. PICK j \in (0 .. n) \ {b} : r[j].key = k
    BY DEF Live
  <2>2. CASE j = a
    <3>1. b \in (0 .. n) \ {a} /\ q[b].key = k
      BY <2>1, <2>2
    <3> QED
      BY <3>1
  <2>3. CASE j # a
    BY <2>1, <2>3
  <2> QED
    BY <2>2, <2>3
<1> QED
  BY <1>2, <1>3, <1>4 DEF Live

LEMMA SameRecord ==
  ASSUME NEW x \in Record, NEW y \in Record, x.key = y.key, x.ptr = y.ptr
  PROVE  x = y
BY DEF Record

(* What all the steps have in common that move records to the right. *)
LEMMA ShiftingIs ==
  ASSUME PageInv, wpc \in {"shift", "shift_key", "place_key", "place_ptr"}
  PROVE  /\ Types /\ Shifting /\ Forward(switch) /\ key \in Keys \ keys
         /\ num_entries = last_index + 1 /\ num_entries < Card - 1 /\ num_entries >= 1
         /\ i \in -1 .. num_entries - 1 /\ num_entries \in Int /\ Card \in Nat
         /\ Live(rec, (0 .. num_entries) \ {i + 1}, keys) /\ Empty(rec, num_entries + 1)
         /\ \A j \in i + 2 .. num_entries : key < rec[j].key
         /\ i + 1 \in Slots /\ (i >= 0 => i \in Slots)
         /\ \A j \in Slots : rec[j].key \in Keys \cup {Top} /\ rec[j].ptr \in Ptr
<1>1. /\ Types /\ Shifting /\ Forward(switch) /\ key \in Keys \ keys
      /\ num_entries = last_index + 1 /\ num_entries < Card - 1 /\ num_entries >= 1
      /\ i < num_entries /\ i \in -1 .. Card /\ num_entries \in 0 .. Card
      /\ Live(rec, (0 .. num_entries) \ {i + 1}, keys) /\ Empty(rec, num_entries + 1)
      /\ \A j \in i + 2 .. num_entries : key < rec[j].key
  BY DEF PageInv, Direction, Shifting, Types, InsertPcs
<1>2. i \in -1 .. num_entries - 1 /\ i + 1 \in Slots /\ (i >= 0 => i \in Slots) /\ num_entries \in Int
      /\ Card \in Nat
  BY <1>1, CardAssumption DEF Slots
<1>3. \A j \in Slots : rec[j].key \in Keys \cup {Top} /\ rec[j].ptr \in Ptr
  BY <1>1 DEF Types, Record, Ptr
<1> QED
  BY <1>1, <1>2, <1>3

(* The rest of the page when only the free slot i + 1 changes. *)
LEMMA OnlyFreeSlot ==
  ASSUME PageInv, wpc \in {"shift", "shift_key", "place_key", "place_ptr"},
         \A j \in Slots : j # i + 1 => rec'[j] = rec[j],
         rec' \in [Slots -> Record], wpc' \in {"shift", "shift_key", "place_key", "place_ptr"},
         UNCHANGED <<i, switch, last_index, key, num_entries, keys>>
  PROVE  /\ Live(rec', (0 .. num_entries) \ {i + 1}, keys) /\ Empty(rec', num_entries + 1)
         /\ \A j \in i + 2 .. num_entries : key < rec'[j].key
         /\ \A j \in 0 .. i : rec'[j] = rec[j]
         /\ Types' /\ Direction'
<1>1. /\ i \in -1 .. num_entries - 1 /\ num_entries \in Int /\ Card \in Nat /\ num_entries < Card - 1
      /\ Live(rec, (0 .. num_entries) \ {i + 1}, keys) /\ Empty(rec, num_entries + 1)
      /\ \A j \in i + 2 .. num_entries : key < rec[j].key
  BY ShiftingIs
<1>2. 0 .. num_entries \subseteq Slots /\ num_entries + 1 .. Card - 1 \subseteq Slots
      /\ i + 2 .. num_entries \subseteq Slots /\ 0 .. i \subseteq Slots
  BY <1>1 DEF Slots
<1>3. Live(rec', (0 .. num_entries) \ {i + 1}, keys)
  BY <1>1, <1>2, LiveStays
<1>4. Empty(rec', num_entries + 1)
  <2>1. \A j \in num_entries + 1 .. Card - 1 : rec'[j] = rec[j]
    BY <1>1, <1>2
  <2> QED
    BY <1>1, <2>1, EmptyStays
<1>5. (\A j \in i + 2 .. num_entries : key < rec'[j].key) /\ \A j \in 0 .. i : rec'[j] = rec[j]
  BY <1>1, <1>2
<1>6. Types' /\ Direction'
  BY DEF PageInv, Types, Direction, InsertPcs, RemovePcs
<1> QED
  BY <1>3, <1>4, <1>5, <1>6

LEMMA ShiftPtrStep ==
  ASSUME PageInv, ShiftPtr
  PROVE  PageInv'
<1>1. wpc = "shift" /\ wpc' = "shift_key" /\ i >= 0 /\ key < rec[i].key
      /\ UNCHANGED <<i, switch, last_index, key, num_entries, keys>>
  BY DEF ShiftPtr, Step, Frame, LeftOfRecord
<1>2. /\ rec' \in [Slots -> Record] /\ rec'[i + 1].ptr = rec[i].ptr
      /\ \A j \in Slots : j # i + 1 => rec'[j] = rec[j]
  BY <1>1, ShiftingIs, StorePtr DEF ShiftPtr, Types
<1>3. /\ Live(rec', (0 .. num_entries) \ {i + 1}, keys) /\ Empty(rec', num_entries + 1)
      /\ (\A j \in i + 2 .. num_entries : key < rec'[j].key) /\ (\A j \in 0 .. i : rec'[j] = rec[j])
      /\ Types' /\ Direction'
  BY <1>1, <1>2, OnlyFreeSlot
<1>4. i \in -1 .. num_entries - 1 /\ num_entries \in Int /\ num_entries >= 1
  BY <1>1, ShiftingIs
<1>5. rec'[i] = rec[i] /\ Doubled(rec', i + 1)
  BY <1>1, <1>2, <1>3, <1>4 DEF Doubled
<1>6. Shifting'
  BY <1>1, <1>3, <1>4, <1>5 DEF Shifting
<1> QED
  BY <1>1, <1>3, <1>6 DEF PageInv, AtRest, FirstKey, Inserted, Pulling, Removed, InsertPcs, RemovePcs

LEMMA ShiftKeyStep ==
  ASSUME PageInv, ShiftKey
  PROVE  PageInv'
<1>1. wpc = "shift_key" /\ wpc' = "shift" /\ i' = i - 1
      /\ UNCHANGED <<switch, last_index, key, num_entries, keys>>
  BY DEF ShiftKey, Step, Frame
<1>2. i >= 0 /\ key < rec[i].key /\ rec[i + 1].ptr = rec[i].ptr
  BY <1>1, ShiftingIs DEF Shifting, Doubled
<1>3. /\ rec' \in [Slots -> Record] /\ rec'[i + 1].key = rec[i].key /\ rec'[i + 1].ptr = rec[i].ptr
      /\ \A j \in Slots : j # i + 1 => rec'[j] = rec[j]
  BY <1>1, <1>2, ShiftingIs, StoreKey DEF ShiftKey, Types
<1>4. /\ i \in 0 .. num_entries - 1 /\ num_entries \in Int /\ num_entries >= 1 /\ Card \in Nat
      /\ num_entries < Card - 1
      /\ Live(rec, (0 .. num_entries) \ {i + 1}, keys) /\ Empty(rec, num_entries + 1)
      /\ \A j \in i + 2 .. num_entries : key < rec[j].key
  BY <1>1, <1>2, ShiftingIs
<1>5. 0 .. num_entries \subseteq Slots /\ num_entries + 1 .. Card - 1 \subseteq Slots
      /\ i + 2 .. num_entries \subseteq Slots /\ i \in Slots /\ i + 1 \in Slots
  BY <1>4 DEF Slots
<1>6. rec'[i + 1] = rec[i] /\ rec'[i] = rec[i]
  <2>1. rec'[i + 1] \in Record /\ rec[i] \in Record
    BY <1>1, <1>3, <1>5, ShiftingIs DEF Types
  <2>2. rec'[i + 1] = rec[i]
    BY <1>3, <2>1, SameRecord
  <2> QED
    BY <1>3, <1>5, <1>4, <2>2
<1>7. Live(rec', (0 .. num_entries) \ {i}, keys)
  <2>1. i \in 0 .. num_entries /\ i + 1 \in 0 .. num_entries
        /\ \A j \in 0 .. num_entries : j # i /\ j # i + 1 => rec'[j] = rec[j]
    BY <1>3, <1>4, <1>5
  <2> QED
    BY <1>4, <1>5, <1>6, <2>1, LiveMoves
<1>8. Empty(rec', num_entries + 1)
  <2>1. \A j \in num_entries + 1 .. Card - 1 : rec'[j] = rec[j]
    BY <1>3, <1>4, <1>5
  <2> QED
    BY <1>4, <2>1, EmptyStays
<1>9. \A j \in i + 1 .. num_entries : key < rec'[j].key
  BY <1>2, <1>3, <1>4, <1>5
<1>10. Types' /\ Direction'
  BY <1>1, <1>3, <1>4 DEF PageInv, Types, Direction, InsertPcs, RemovePcs
<1>11. /\ i' < num_entries' /\ num_entries' >= 1 /\ i' + 1 # num_entries'
       /\ i' + 1 = i /\ i' + 2 = i + 1 /\ rec'[i' + 1] = rec'[i' + 2]
  BY <1>1, <1>4, <1>6
<1>12. Shifting'
  BY <1>1, <1>7, <1>8, <1>9, <1>11 DEF Shifting
<1> QED
  BY <1>1, <1>10, <1>12 DEF PageInv, AtRest, FirstKey, Inserted, Pulling, Removed, InsertPcs, RemovePcs

LEMMA PlaceLeftStep ==
  ASSUME PageInv, PlaceLeft
  PROVE  PageInv'
<1>1. wpc = "shift" /\ wpc' = "place_key" /\ (i >= 0 => ~(key < rec[i].key))
      /\ UNCHANGED <<i, switch, last_index, key, num_entries, keys>>
  BY DEF PlaceLeft, Step, Frame, LeftOfRecord
<1>2. (IF i < 0 THEN Null ELSE rec[i].ptr) \in Ptr
  BY <1>1, ShiftingIs DEF Ptr
<1>3. /\ rec' \in [Slots -> Record] /\ rec'[i + 1].ptr = (IF i < 0 THEN Null ELSE rec[i].ptr)
      /\ \A j \in Slots : j # i + 1 => rec'[j] = rec[j]
  BY <1>1, <1>2, ShiftingIs, StorePtr DEF PlaceLeft, Types
<1>4. /\ Live(rec', (0 .. num_entries) \ {i + 1}, keys) /\ Empty(rec', num_entries + 1)
      /\ (\A j \in i + 2 .. num_entries : key < rec'[j].key) /\ (\A j \in 0 .. i : rec'[j] = rec[j])
      /\ Types' /\ Direction'
  BY <1>1, <1>3, OnlyFreeSlot
<1>5. i \in -1 .. num_entries - 1 /\ num_entries \in Int /\ num_entries >= 1 /\ key \in Keys \ keys
      /\ keys \subseteq Keys /\ Live(rec, (0 .. num_entries) \ {i + 1}, keys)
  BY <1>1, ShiftingIs DEF Types
<1>6. Doubled(rec', i + 1)
  BY <1>3, <1>4, <1>5 DEF Doubled
<1>7. ASSUME NEW j \in 0 .. i PROVE rec'[j].key < key
  <2>1. i \in (0 .. num_entries) \ {i + 1} /\ j \in (0 .. num_entries) \ {i + 1} /\ i >= 0
    BY <1>5
  <2>2. rec[i].key \in keys /\ rec[j].key \in keys /\ (j < i => rec[j].key < rec[i].key)
    BY <2>1, <1>5 DEF Live
  <2>3. rec[i].key \in Nat /\ rec[j].key \in Nat /\ key \in Nat /\ rec[i].key # key
    BY <2>2, <1>5, KeysAssumption
  <2>4. rec[i].key < key /\ (j = i \/ rec[j].key < rec[i].key)
    BY <1>1, <2>1, <2>2, <2>3, <1>5
  <2> QED
    BY <2>3, <2>4, <1>4
<1>8. Shifting'
  BY <1>1, <1>4, <1>5, <1>6, <1>7 DEF Shifting
<1> QED
  BY <1>1, <1>4, <1>8 DEF PageInv, AtRest, FirstKey, Inserted, Pulling, Removed, InsertPcs, RemovePcs

LEMMA PlaceKeyStep ==
  ASSUME PageInv, PlaceKey
  PROVE  PageInv'
<1>1. wpc = "place_key" /\ wpc' = "place_ptr"
      /\ UNCHANGED <<i, switch, last_index, key, num_entries, keys>>
  BY DEF PlaceKey, Step, Frame
<1>2. Doubled(rec, i + 1) /\ \A j \in 0 .. i : rec[j].key < key
  BY <1>1, ShiftingIs DEF Shifting
<1>3. /\ rec' \in [Slots -> Record] /\ rec'[i + 1].key = key /\ rec'[i + 1].ptr = rec[i + 1].ptr
      /\ \A j \in Slots : j # i + 1 => rec'[j] = rec[j]
  BY <1>1, ShiftingIs, StoreKey DEF PlaceKey, Types
<1>4. /\ Live(rec', (0 .. num_entries) \ {i + 1}, keys) /\ Empty(rec', num_entries + 1)
      /\ (\A j \in i + 2 .. num_entries : key < rec'[j].key) /\ (\A j \in 0 .. i : rec'[j] = rec[j])
      /\ Types' /\ Direction'
  BY <1>1, <1>3, OnlyFreeSlot
<1>5. i \in -1 .. num_entries - 1 /\ num_entries \in Int /\ num_entries >= 1
  BY <1>1, ShiftingIs
<1>6. Doubled(rec', i + 1) /\ \A j \in 0 .. i : rec'[j].key < key
  BY <1>2, <1>3, <1>4, <1>5 DEF Doubled
<1>7. Shifting'
  BY <1>1, <1>3, <1>4, <1>5, <1>6 DEF Shifting
<1> QED
  BY <1>1, <1>4, <1>7 DEF PageInv, AtRest, FirstKey, Inserted, Pulling, Removed, InsertPcs, RemovePcs

LEMMA PlacePtrStep ==
  ASSUME PageInv, PlacePtr
  PROVE  PageInv'
<1>1. wpc = "place_ptr" /\ wpc' = "insert_end"
      /\ UNCHANGED <<i, switch, last_index, key, num_entries, keys>>
  BY DEF PlacePtr, Step, Frame
<1>2. rec[i + 1].key = key /\ \A j \in 0 .. i : rec[j].key < key
  BY <1>1, ShiftingIs DEF Shifting
<1>3. /\ rec' \in [Slots -> Record] /\ rec'[i + 1].key = key /\ rec'[i + 1].ptr = ValueOf[key]
      /\ \A j \in Slots : j # i + 1 => rec'[j] = rec[j]
  BY <1>1, <1>2, ShiftingIs, StorePtr, Values DEF PlacePtr, Types
<1>4. /\ i \in -1 .. num_entries - 1 /\ num_entries \in Int /\ Card \in Nat /\ num_entries < Card - 1
      /\ Live(rec, (0 .. num_entries) \ {i + 1}, keys) /\ Empty(rec, num_entries + 1)
      /\ \A j \in i + 2 .. num_entries : key < rec[j].key
  BY <1>1, ShiftingIs
<1>5. 0 .. num_entries \subseteq Slots /\ num_entries + 1 .. Card - 1 \subseteq Slots /\ i + 1 \in 0 .. num_entries
  BY <1>4 DEF Slots
<1>6. Empty(rec', num_entries + 1)
  <2>1. \A j \in num_entries + 1 .. Card - 1 : rec'[j] = rec[j]
    BY <1>3, <1>4, <1>5
  <2> QED
    BY <1>4, <2>1, EmptyStays
<1>7. Live(rec', 0 .. num_entries, keys \cup {key})
  <2> DEFINE S == (0 .. num_entries) \ {i + 1}
  <2>1. Live(rec', S, keys)
    BY <1>3, <1>4, <1>5, LiveStays
  <2>2. \A j \in S : (j < i + 1 => rec'[j].key < key) /\ (j > i + 1 => key < rec'[j].key)
    BY <1>2, <1>3, <1>4, <1>5
  <2>3. \A j \in 0 .. num_entries : j \in S \/ j = i + 1
    OBVIOUS
  <2>4. \A j \in 0 .. num_entries : rec'[j].key \in keys \cup {key} /\ rec'[j].ptr = ValueOf[rec'[j].key]
    BY <1>3, <2>1, <2>3 DEF Live
  <2>5. \A j, l \in 0 .. num_entries : j < l => rec'[j].key < rec'[l].key
    BY <1>3, <1>4, <2>1, <2>2, <2>3 DEF Live
  <2>6. \A k \in keys \cup {key} : \E j \in 0 .. num_entries : rec'[j].key = k
    BY <1>3, <1>5, <2>1 DEF Live
  <2> QED
    BY <1>5, <2>4, <2>5, <2>6 DEF Live
<1>8. Types' /\ Direction'
  BY <1>1, <1>3 DEF PageInv, Types, Direction, InsertPcs, RemovePcs
<1> QED
  BY <1>1, <1>6, <1>7, <1>8 DEF PageInv, Shifting, AtRest, FirstKey, Inserted, Pulling, Removed, InsertPcs, RemovePcs

(* What the steps of a removal have in common. *)
LEMMA RemovingIs ==
  ASSUME PageInv, wpc \in {"pull_key", "pull_ptr"}
  PROVE  /\ Types /\ ~Forward(switch) /\ key \in keys
         /\ last_index \in Nat /\ last_index < Card - 1 /\ Card \in Nat /\ i \in 0 .. last_index
         /\ Live(rec, (0 .. last_index) \ {i}, keys \ {key}) /\ Empty(rec, last_index + 1)
         /\ Doubled(rec, i)
         /\ 0 .. last_index + 1 \subseteq Slots /\ i \in Slots /\ i + 1 \in Slots
         /\ \A j \in Slots : rec[j] \in Record /\ rec[j].key \in Keys \cup {Top} /\ rec[j].ptr \in Ptr
<1>1. /\ Types /\ ~Forward(switch) /\ key \in keys /\ last_index \in -1 .. Card - 2 /\ last_index >= 0
      /\ i \in 0 .. last_index
      /\ Live(rec, (0 .. last_index) \ {i}, keys \ {key}) /\ Empty(rec, last_index + 1)
      /\ Doubled(rec, i)
  BY DEF PageInv, Direction, Pulling, Types, RemovePcs
<1>2. last_index \in Nat /\ last_index < Card - 1 /\ Card \in Nat
  BY <1>1, CardAssumption
<1>3. 0 .. last_index + 1 \subseteq Slots /\ i \in Slots /\ i + 1 \in Slots
  BY <1>1, <1>2 DEF Slots
<1>4. \A j \in Slots : rec[j] \in Record /\ rec[j].key \in Keys \cup {Top} /\ rec[j].ptr \in Ptr
  BY <1>1 DEF Types, Record, Ptr
<1> QED
  BY <1>1, <1>2, <1>3, <1>4

LEMMA UnlinkStep ==
  ASSUME PageInv, Unlink
  PROVE  PageInv'
<1>1. wpc = "scan" /\ wpc' = "pull_key" /\ rec[i].key = key /\ rec[i].ptr # Null
      /\ UNCHANGED <<i, switch, last_index, key, num_entries, keys>>
  BY DEF Unlink, Step, Frame
<1>2. Types /\ Live(rec, 0 .. last_index, keys) /\ Empty(rec, last_index + 1) /\ i >= 0
      /\ key \in keys /\ \A j \in 0 .. i - 1 : rec[j].key # key
  BY <1>1 DEF PageInv, AtRest, Direction, RemovePcs
<1>3. last_index \in Int /\ last_index < Card - 1 /\ Card \in Nat /\ i \in Int /\ keys \subseteq Keys
  BY <1>2, CardAssumption DEF Types
<1>4. i \in 0 .. last_index
  <2>1. PICK j \in 0 .. last_index : rec[j].key = key
    BY <1>2 DEF Live
  <2> QED
    BY <2>1, <1>2, <1>3
<1>5. 0 .. last_index \subseteq Slots /\ last_index + 1 .. Card - 1 \subseteq Slots
  BY <1>2, <1>3, <1>4 DEF Slots
<1>6. (IF i = 0 THEN Null ELSE rec[i - 1].ptr) \in Ptr
  BY <1>2, <1>3, <1>4, <1>5 DEF Types, Record, Ptr
<1>7. /\ rec' \in [Slots -> Record] /\ rec'[i].ptr = (IF i = 0 THEN Null ELSE rec[i - 1].ptr)
      /\ \A j \in Slots : j # i => rec'[j] = rec[j]
  BY <1>2, <1>4, <1>5, <1>6, StorePtr DEF Unlink, Types
<1>8. Live(rec', (0 .. last_index) \ {i}, keys \ {key})
  <2>1. Live(rec, (0 .. last_index) \ {i}, keys \ {key})
    <3>1. \A j \in 0 .. last_index : j # i => rec[j].key # key
      <4> SUFFICES ASSUME NEW j \in 0 .. last_index, j # i, rec[j].key = key PROVE FALSE
        OBVIOUS
      <4>1. rec[i].key \in Nat /\ (j < i \/ i < j)
        BY <1>1, <1>2, <1>3, <1>4, KeysAssumption
      <4>2. rec[j].key < rec[i].key \/ rec[i].key < rec[j].key
        BY <1>2, <1>4, <4>1 DEF Live
      <4> QED
        BY <4>1, <4>2, <1>1
    <3> QED
      BY <1>1, <1>2, <3>1 DEF Live
  <2> QED
    BY <2>1, <1>5, <1>7, LiveStays
<1>9. Empty(rec', last_index + 1)
  <2>1. \A j \in last_index + 1 .. Card - 1 : rec'[j] = rec[j]
    BY <1>3, <1>4, <1>5, <1>7
  <2> QED
    BY <1>2, <1>3, <2>1, EmptyStays
<1>10. Doubled(rec', i)
  <2>1. i # 0 => i - 1 \in 0 .. last_index /\ i - 1 # i
    BY <1>3, <1>4
  <2> QED
    BY <2>1, <1>5, <1>7 DEF Doubled
<1>11. Types' /\ Direction'
  BY <1>1, <1>7 DEF PageInv, Types, Direction, InsertPcs, RemovePcs
<1>12. Pulling'
  BY <1>1, <1>4, <1>8, <1>9, <1>10 DEF Pulling
<1> QED
  BY <1>1, <1>11, <1>12 DEF PageInv, Shifting, AtRest, FirstKey, Inserted, Removed, InsertPcs, RemovePcs

LEMMA PullKeyStep ==
  ASSUME PageInv, PullKey
  PROVE  PageInv'
<1>1. wpc = "pull_key" /\ wpc' = "pull_ptr"
      /\ UNCHANGED <<i, switch, last_index, key, num_entries, keys>>
  BY DEF PullKey, Step, Frame
<1>2. /\ last_index \in Nat /\ last_index < Card - 1 /\ Card \in Nat /\ i \in 0 .. last_index
      /\ Live(rec, (0 .. last_index) \ {i}, keys \ {key}) /\ Empty(rec, last_index + 1)
      /\ Doubled(rec, i) /\ 0 .. last_index + 1 \subseteq Slots /\ i \in Slots /\ i + 1 \in Slots
  BY <1>1, RemovingIs
<1>3. /\ rec' \in [Slots -> Record] /\ rec'[i].key = rec[i + 1].key /\ rec'[i].ptr = rec[i].ptr
      /\ \A j \in Slots : j # i => rec'[j] = rec[j]
  <2>1. Types /\ rec[i + 1].key \in Keys \cup {Top}
    BY <1>1, <1>2, RemovingIs
  <2> QED
    BY <1>2, <2>1, StoreKey DEF PullKey, Types
<1>4. Live(rec', (0 .. last_index) \ {i}, keys \ {key})
  BY <1>2, <1>3, LiveStays
<1>5. Empty(rec', last_index + 1)
  <2>1. \A j \in last_index + 1 .. Card - 1 : rec'[j] = rec[j]
    BY <1>2, <1>3 DEF Slots
  <2> QED
    BY <1>2, <2>1, EmptyStays
<1>6. Doubled(rec', i) /\ rec'[i].key = rec'[i + 1].key
  BY <1>2, <1>3 DEF Doubled
<1>7. Types' /\ Direction'
  BY <1>1, <1>3 DEF PageInv, Types, Direction, InsertPcs, RemovePcs
<1>8. Pulling'
  BY <1>1, <1>2, <1>4, <1>5, <1>6 DEF Pulling
<1> QED
  BY <1>1, <1>7, <1>8 DEF PageInv, Shifting, AtRest, FirstKey, Inserted, Removed, InsertPcs, RemovePcs

LEMMA PullPtrStep ==
  ASSUME PageInv, PullPtr
  PROVE  PageInv'
<1>1. wpc = "pull_ptr" /\ wpc' = (IF rec'[i + 1].ptr = Null THEN "remove_end" ELSE "pull_key") /\ i' = i + 1
      /\ UNCHANGED <<switch, last_index, key, num_entries, keys>>
  BY DEF PullPtr, Frame
<1>2. /\ last_index \in Nat /\ last_index < Card - 1 /\ Card \in Nat /\ i \in 0 .. last_index
      /\ Live(rec, (0 .. last_index) \ {i}, keys \ {key}) /\ Empty(rec, last_index + 1)
      /\ 0 .. last_index + 1 \subseteq Slots /\ i \in Slots /\ i + 1 \in Slots
      /\ \A j \in Slots : rec[j] \in Record /\ rec[j].key \in Keys \cup {Top} /\ rec[j].ptr \in Ptr
      /\ rec[i].key = rec[i + 1].key /\ keys \subseteq Keys
  BY <1>1, RemovingIs DEF PageInv, Pulling, Types
<1>3. /\ rec' \in [Slots -> Record] /\ rec'[i].ptr = rec[i + 1].ptr /\ rec'[i].key = rec[i].key
      /\ \A j \in Slots : j # i => rec'[j] = rec[j]
  <2>1. Types /\ rec[i + 1].ptr \in Ptr
    BY <1>1, <1>2, RemovingIs
  <2> QED
    BY <1>2, <2>1, StorePtr DEF PullPtr, Types
<1>4. rec'[i] = rec[i + 1] /\ rec'[i + 1] = rec[i + 1]
  <2>1. rec'[i] \in Record /\ rec[i + 1] \in Record /\ i + 1 # i
    BY <1>2, <1>3
  <2> QED
    BY <1>2, <1>3, <2>1, SameRecord
<1>5. \A j \in last_index + 1 .. Card - 1 : rec'[j] = rec[j]
  BY <1>2, <1>3 DEF Slots
<1>6. Empty(rec', last_index + 1)
  BY <1>2, <1>5, EmptyStays
<1>7. Types' /\ Direction'
  <2>1. i' \in -1 .. Card
    BY <1>1, <1>2
  <2> QED
    BY <1>1, <1>3, <2>1 DEF PageInv, Types, Direction, InsertPcs, RemovePcs
<1>8. CASE i = last_index
  <2>1. rec'[i + 1].ptr = Null /\ rec'[i].ptr = Null
    BY <1>2, <1>4, <1>8 DEF Empty
  <2>2. Live(rec', 0 .. last_index - 1, keys \ {key})
    <3>1. (0 .. last_index) \ {i} = 0 .. last_index - 1
      BY <1>2, <1>8
    <3>2. \A j \in (0 .. last_index) \ {i} : rec'[j] = rec[j]
      BY <1>2, <1>3
    <3>3. Live(rec', (0 .. last_index) \ {i}, keys \ {key})
      BY <1>2, <3>2, LiveStays
    <3> QED
      BY <3>1, <3>3
  <2>3. Empty(rec', last_index)
    BY <1>2, <1>6, <1>8, <2>1 DEF Empty
  <2>4. Removed'
    BY <1>1, <2>2, <2>3 DEF Removed
  <2> QED
    BY <1>1, <1>7, <2>1, <2>4 DEF PageInv, Shifting, AtRest, FirstKey, Inserted, Pulling, InsertPcs, RemovePcs
<1>9. CASE i # last_index
  <2>1. i + 1 \in (0 .. last_index) \ {i}
    BY <1>2, <1>9
  <2>2. rec'[i + 1].ptr # Null
    BY <1>2, <1>4, <2>1, Values DEF Live
  <2>3. Live(rec', (0 .. last_index) \ {i + 1}, keys \ {key})
    <3>1. 0 .. last_index \subseteq Slots /\ last_index \in Int
          /\ \A j \in 0 .. last_index : j # i /\ j # i + 1 => rec'[j] = rec[j]
      BY <1>2, <1>3
    <3> QED
      BY <1>2, <1>4, <2>1, <3>1, LiveMoves
  <2>4. Doubled(rec', i + 1)
    BY <1>2, <1>4 DEF Doubled
  <2>5. Pulling'
    BY <1>1, <1>6, <2>1, <2>2, <2>3, <2>4 DEF Pulling
  <2> QED
    BY <1>1, <1>7, <2>2, <2>5 DEF PageInv, Shifting, AtRest, FirstKey, Inserted, Removed, InsertPcs, RemovePcs
<1> QED
  BY <1>8, <1>9

-----------------------------------------------------------------------------
LEMMA PageStep ==
  ASSUME PageInv, [Next]_vars
  PROVE  PageInv'
<1>1. CASE UNCHANGED vars
  BY <1>1 DEF vars, wvars, PageInv, Types, Direction, AtRest, FirstKey, Shifting, Inserted, Pulling, Removed
<1>2. CASE \E k \in Keys : Insert(k) \/ Remove(k)
  BY <1>2, InsertStep, RemoveStep
<1>3. CASE WriterStep
  BY <1>3, EmptySteps, OpenSlotStep, ShiftPtrStep, ShiftKeyStep, PlaceLeftStep, PlaceKeyStep,
     PlacePtrStep, InsertEndStep, ScanOnStep, UnlinkStep, PullKeyStep, PullPtrStep, RemoveEndStep
     DEF WriterStep
<1>4. CASE \E j \in Slots : Evict(j)
  BY <1>4 DEF Evict, PageInv, Types, Direction, AtRest, FirstKey, Shifting, Inserted, Pulling, Removed
<1>5. ASSUME NEW r \in Readers, ReaderStep(r) \/ \E k \in Keys : StartSearch(r, k)
      PROVE  PageInv'
  <2>1. UNCHANGED wvars
    BY <1>5 DEF ReaderStep, TestEnd, ReadKey, ReadLeft, ReadPtr, RereadKey, TestSwitch, FinishSearch,
       StartSearch, Begin, Goto, Advance
  <2> QED
    BY <2>1 DEF wvars, PageInv, Types, Direction, AtRest, FirstKey, Shifting, Inserted, Pulling, Removed
<1> QED
  BY <1>1, <1>2, <1>3, <1>4, <1>5 DEF Next

(* A page with records of K in its first w slots, of which at most one, g, *)
(* shows nothing of its own, and no record that a scan takes after them.   *)
Covers(w, g, K) ==
  /\ Live(rec, (0 .. w - 1) \ {g}, K)
  /\ g \in 0 .. w - 1 => \/ rec[g].ptr = Null \/ Doubled(rec, g)
                         \/ g < w - 1 /\ rec[g] = rec[g + 1]
  /\ Forward(switch) => /\ w \in 1 .. Card - 1 /\ rec[w].ptr = Null
                        /\ g \in 1 .. w - 1 => rec[g].ptr # Null
  /\ ~Forward(switch) => w = last_index + 1 /\ rec[w].ptr = Null

(* A search of such a page finds what K says.                              *)
LEMMA Reads ==
  ASSUME Types, NEW w \in Nat, w <= Card, NEW g \in Int, NEW K, K \subseteq Keys, NEW k \in Keys,
         Covers(w, g, K)
  PROVE  Search(rec, switch, last_index, k) = IF k \in K THEN ValueOf[k] ELSE Null
<1> DEFINE v == IF k \in K THEN ValueOf[k] ELSE Null
<1>1. ASSUME Forward(switch) PROVE Least(NullsIn(rec, 1 .. Card - 1)) = w
  <2>1. \A j \in (0 .. w - 1) \ {g} : rec[j].ptr # Null
    BY Values DEF Live, Covers
  <2>2. \A j \in 1 .. w - 1 : rec[j].ptr # Null
    BY <1>1, <2>1 DEF Covers
  <2> QED
    BY <1>1, <2>2, EndIs DEF Covers
<1>2. ASSUME ~Forward(switch) PROVE Count(rec, switch, last_index) = w
  BY <1>2, CountIs DEF Types, Covers
<1>3. IF Forward(switch) THEN Least(NullsIn(rec, 1 .. Card - 1)) = w
                         ELSE Count(rec, switch, last_index) = w
  BY <1>1, <1>2
<1>4. /\ \A j \in 0 .. w - 1 : Hit(rec, k, j) => rec[j].ptr = v
      /\ v # Null => \E j \in 0 .. w - 1 : Hit(rec, k, j)
  BY Hits DEF Covers
<1> HIDE DEF v
<1>5. Search(rec, switch, last_index, k) = v
  BY <1>3, <1>4, SearchIs
<1> QED
  BY <1>5 DEF v

LEMMA Readable ==
  ASSUME PageInv
  PROVE  AlwaysReadable
<1> SUFFICES ASSUME NEW k \in Keys \ {key}
             PROVE  Search(rec, switch, last_index, k) = IF k \in keys THEN ValueOf[k] ELSE Null
  BY DEF AlwaysReadable
<1>1. Types /\ Direction /\ last_index \in -1 .. Card - 2 /\ Card \in Nat /\ Card > 1 /\ keys \subseteq Keys
  BY CardAssumption DEF PageInv, Types
<1>2. CASE wpc \in {"idle", "open", "scan", "empty_key", "empty_ptr"}
  <2>1. Live(rec, 0 .. last_index, keys) /\ Empty(rec, last_index + 1)
    BY <1>2 DEF PageInv, AtRest
  <2>2. rec[last_index + 1].ptr = Null
    BY <1>1, <2>1 DEF Empty
  <2>3. CASE last_index >= 0 \/ ~Forward(switch)
    <3> DEFINE w == last_index + 1
    <3>1. w \in Nat /\ w <= Card /\ (0 .. w - 1) \ {-1} = 0 .. last_index /\ -1 \notin 0 .. w - 1
          /\ (Forward(switch) => w \in 1 .. Card - 1) /\ -1 \notin 1 .. w - 1 /\ -1 \in Int
          /\ w = last_index + 1
      BY <1>1, <2>3
    <3>2. Live(rec, (0 .. w - 1) \ {-1}, keys) /\ rec[w].ptr = Null
      BY <2>1, <2>2, <3>1
    <3>3. -1 \in 0 .. w - 1 => \/ rec[-1].ptr = Null \/ Doubled(rec, -1)
                               \/ -1 < w - 1 /\ rec[-1] = rec[-1 + 1]
      BY <3>1
    <3>4. Forward(switch) => /\ w \in 1 .. Card - 1 /\ rec[w].ptr = Null
                             /\ -1 \in 1 .. w - 1 => rec[-1].ptr # Null
      BY <3>1, <3>2
    <3>5. ~Forward(switch) => w = last_index + 1 /\ rec[w].ptr = Null
      BY <3>1, <3>2
    <3>6. w \in Nat /\ w <= Card /\ -1 \in Int /\ Live(rec, (0 .. w - 1) \ {-1}, keys)
      BY <3>1, <3>2
    <3> HIDE DEF w
    <3>7. k \in Keys
      OBVIOUS
    <3>8. Covers(w, -1, keys)
      BY <3>3, <3>4, <3>5, <3>6 DEF Covers
    <3>9. Search(rec, switch, last_index, k) = IF k \in keys THEN ValueOf[k] ELSE Null
      BY <1>1, <3>6, <3>7, <3>8, Reads
    <3> QED
      BY <3>9
  <2>4. CASE last_index = -1 /\ Forward(switch)
    <3>1. Live(rec, (0 .. 1 - 1) \ {0}, keys)
      <4>1. (0 .. 1 - 1) \ {0} = 0 .. last_index
        BY <2>4
      <4> QED
        BY <4>1, <2>1
    <3>2. rec[0].ptr = Null /\ rec[1].ptr = Null /\ 1 \in 1 .. Card - 1
      BY <1>1, <2>1, <2>4 DEF Empty
    <3>3. Covers(1, 0, keys)
      BY <2>4, <3>1, <3>2 DEF Covers
    <3> QED
      BY <1>1, <3>3, Reads
  <2> QED
    BY <1>1, <2>3, <2>4
<1>3. CASE wpc \in {"empty_end", "insert_end"}
  <2>1. Live(rec, 0 .. num_entries, keys \cup {key}) /\ Empty(rec, num_entries + 1)
        /\ Forward(switch) /\ num_entries < Card - 1 /\ key \in Keys /\ num_entries \in Nat
    BY <1>1, <1>3 DEF PageInv, Inserted, Direction, InsertPcs, Types
  <2> DEFINE w == num_entries + 1
  <2>2. w \in Nat /\ w <= Card /\ (0 .. w - 1) \ {-1} = 0 .. num_entries /\ -1 \notin 0 .. w - 1
        /\ w \in 1 .. Card - 1 /\ -1 \notin 1 .. w - 1 /\ -1 \in Int /\ keys \cup {key} \subseteq Keys
    BY <1>1, <2>1
  <2>3. rec[w].ptr = Null
    BY <1>1, <2>1, <2>2 DEF Empty
  <2>5. Live(rec, (0 .. w - 1) \ {-1}, keys \cup {key})
    BY <2>1, <2>2
  <2> HIDE DEF w
  <2>4. Covers(w, -1, keys \cup {key})
    BY <2>1, <2>2, <2>3, <2>5 DEF Covers
  <2>6. Search(rec, switch, last_index, k) = IF k \in keys \cup {key} THEN ValueOf[k] ELSE Null
    BY <1>1, <2>2, <2>4, Reads
  <2> QED
    BY <2>6
<1>4. CASE wpc \in {"shift", "shift_key", "place_key", "place_ptr"}
  <2>1. /\ Forward(switch) /\ num_entries < Card - 1 /\ num_entries >= 1 /\ i \in -1 .. num_entries - 1
        /\ num_entries \in Int /\ Shifting
        /\ Live(rec, (0 .. num_entries) \ {i + 1}, keys) /\ Empty(rec, num_entries + 1)
    BY <1>4, ShiftingIs
  <2>2. CASE wpc = "shift" /\ i + 1 = num_entries
    <3> DEFINE w == num_entries
               g == num_entries
    <3>1. w \in Nat /\ w <= Card /\ (0 .. w - 1) \ {g} = (0 .. num_entries) \ {i + 1} /\ g \notin 0 .. w - 1
          /\ w \in 1 .. Card - 1 /\ g \notin 1 .. w - 1 /\ g \in Int
      BY <1>1, <2>1, <2>2
    <3>2. rec[w].ptr = Null /\ Live(rec, (0 .. w - 1) \ {g}, keys)
      BY <2>1, <2>2, <3>1 DEF Shifting
    <3>3. g \in 0 .. w - 1 => \/ rec[g].ptr = Null \/ Doubled(rec, g)
                              \/ g < w - 1 /\ rec[g] = rec[g + 1]
      BY <3>1
    <3>4. Forward(switch) => /\ w \in 1 .. Card - 1 /\ rec[w].ptr = Null
                             /\ g \in 1 .. w - 1 => rec[g].ptr # Null
      BY <3>1, <3>2
    <3> HIDE DEF w, g
    <3>5. Covers(w, g, keys)
      BY <2>1, <3>2, <3>3, <3>4 DEF Covers
    <3>6. Search(rec, switch, last_index, k) = IF k \in keys THEN ValueOf[k] ELSE Null
      BY <1>1, <3>1, <3>5, Reads
    <3> QED
      BY <3>6
  <2>3. CASE ~(wpc = "shift" /\ i + 1 = num_entries)
    <3> DEFINE w == num_entries + 1
               g == i + 1
    <3>1. w \in Nat /\ w <= Card /\ w - 1 = num_entries /\ w \in 1 .. Card - 1 /\ g \in 0 .. w - 1
          /\ g \in Int
      BY <1>1, <2>1
    <3>2. rec[w].ptr = Null
      BY <1>1, <2>1, <3>1 DEF Empty
    <3>3. \A j \in (0 .. num_entries) \ {g} : rec[j].ptr # Null
      BY <1>1, <2>1, Values DEF Live
    <3>4. Doubled(rec, g) \/ (g < w - 1 /\ rec[g] = rec[g + 1])
      BY <1>4, <2>1, <2>3 DEF Shifting
    <3>5. g \in 1 .. w - 1 => rec[g].ptr # Null
      <4> SUFFICES ASSUME g \in 1 .. w - 1 PROVE rec[g].ptr # Null
        OBVIOUS
      <4>1. CASE Doubled(rec, g)
        <5>1. g - 1 \in (0 .. num_entries) \ {g} /\ g # 0
          BY <3>1
        <5> QED
          BY <4>1, <5>1, <3>3 DEF Doubled
      <4>2. CASE g < w - 1 /\ rec[g] = rec[g + 1]
        <5>1. g + 1 \in (0 .. num_entries) \ {g}
          BY <4>2, <3>1
        <5> QED
          BY <4>2, <5>1, <3>3
      <4> QED
        BY <3>4, <4>1, <4>2
    <3>6. Live(rec, (0 .. w - 1) \ {g}, keys)
      BY <2>1, <3>1
    <3>7. g \in 0 .. w - 1 => \/ rec[g].ptr = Null \/ Doubled(rec, g)
                              \/ g < w - 1 /\ rec[g] = rec[g + 1]
      BY <3>4
    <3>8. Forward(switch) => /\ w \in 1 .. Card - 1 /\ rec[w].ptr = Null
                             /\ g \in 1 .. w - 1 => rec[g].ptr # Null
      BY <3>1, <3>2, <3>5
    <3> HIDE DEF w, g
    <3>9. k \in Keys /\ w \in Nat /\ w <= Card /\ g \in Int
      BY <3>1
    <3>10. ~Forward(switch) => w = last_index + 1 /\ rec[w].ptr = Null
      BY <2>1
    <3>11. Covers(w, g, keys)
      BY <3>6, <3>7, <3>8, <3>10 DEF Covers
    <3>12. Search(rec, switch, last_index, k) = IF k \in keys THEN ValueOf[k] ELSE Null
      BY <1>1, <3>9, <3>11, Reads
    <3> QED
      BY <3>12
  <2> QED
    BY <2>2, <2>3
<1>5. CASE wpc \in {"pull_key", "pull_ptr"}
  <2>1. /\ ~Forward(switch) /\ i \in 0 .. last_index /\ last_index \in Nat
        /\ Live(rec, (0 .. last_index) \ {i}, keys \ {key}) /\ Empty(rec, last_index + 1) /\ Doubled(rec, i)
    BY <1>5, RemovingIs
  <2> DEFINE w == last_index + 1
  <2>2. w \in Nat /\ w <= Card /\ w - 1 = last_index /\ rec[w].ptr = Null
    BY <1>1, <2>1 DEF Empty
  <2>3. Live(rec, (0 .. w - 1) \ {i}, keys \ {key}) /\ i \in Int
    BY <2>1, <2>2
  <2>4. Covers(w, i, keys \ {key})
    BY <2>1, <2>2, <2>3 DEF Covers
  <2>5. Search(rec, switch, last_index, k) = IF k \in keys \ {key} THEN ValueOf[k] ELSE Null
    BY <1>1, <2>2, <2>3, <2>4, Reads
  <2> QED
    BY <2>5
<1>6. CASE wpc = "remove_end"
  <2>1. /\ ~Forward(switch) /\ last_index \in Nat
        /\ Live(rec, 0 .. last_index - 1, keys \ {key}) /\ Empty(rec, last_index)
    BY <1>1, <1>6 DEF PageInv, Removed, Direction, RemovePcs
  <2> DEFINE w == last_index + 1
  <2>2. w \in Nat /\ w <= Card /\ (0 .. w - 1) \ {last_index} = 0 .. last_index - 1
        /\ rec[w].ptr = Null /\ rec[last_index].ptr = Null
    BY <1>1, <2>1 DEF Empty
  <2>3. Live(rec, (0 .. w - 1) \ {last_index}, keys \ {key}) /\ last_index \in Int
    <3>1. (0 .. w - 1) \ {last_index} = 0 .. last_index - 1
      BY <2>2
    <3>2. last_index \in Int
      BY <1>1
    <3> HIDE DEF w
    <3> QED
      BY <2>1, <3>1, <3>2, Zenon
  <2>4. Covers(w, last_index, keys \ {key})
    BY <2>1, <2>2, <2>3 DEF Covers
  <2>5. Search(rec, switch, last_index, k) = IF k \in keys \ {key} THEN ValueOf[k] ELSE Null
    BY <1>1, <2>2, <2>3, <2>4, Reads
  <2> QED
    BY <2>5
<1> QED
  BY <1>1, <1>2, <1>3, <1>4, <1>5, <1>6 DEF Types, InsertPcs, RemovePcs

LEMMA Rested ==
  ASSUME PageInv
  PROVE  RestingOrder
<1> SUFFICES ASSUME wpc = "idle"
             PROVE  LET n == Cardinality(keys)
                    IN  /\ {rec[j].key : j \in 0 .. n - 1} = keys
                        /\ \A j \in 1 .. n - 1 : rec[j - 1].key < rec[j].key
                        /\ Count(rec, 0, last_index) = n /\ Count(rec, 1, last_index) = n
  BY DEF RestingOrder
<1> DEFINE n == last_index + 1
<1>1. Live(rec, 0 .. last_index, keys) /\ Empty(rec, last_index + 1) /\ Types /\ n \in Nat
      /\ n - 1 = last_index /\ keys \subseteq Keys /\ last_index < Card - 1 /\ Card \in Nat
  BY CardAssumption DEF PageInv, AtRest, Types
<1>2. Cardinality(keys) = n
  <2> DEFINE f == [j \in 1 .. n |-> rec[j - 1].key]
  <2>1. \A j \in 1 .. n : f[j] = rec[j - 1].key /\ j - 1 \in 0 .. last_index
    BY <1>1
  <2>2. f \in [1 .. n -> keys]
    BY <1>1, <2>1 DEF Live
  <2>3. \A j, l \in 1 .. n : f[j] = f[l] => j = l
    <3> SUFFICES ASSUME NEW j \in 1 .. n, NEW l \in 1 .. n, j < l PROVE f[j] # f[l]
      BY <1>1
    <3>1. j - 1 \in 0 .. last_index /\ l - 1 \in 0 .. last_index /\ j - 1 < l - 1
      BY <1>1
    <3>2. rec[j - 1].key < rec[l - 1].key /\ rec[j - 1].key \in Nat /\ rec[l - 1].key \in Nat
      BY <3>1, <1>1, KeysAssumption DEF Live
    <3> QED
      BY <3>2, <2>1
  <2>4. \A k \in keys : \E j \in 1 .. n : f[j] = k
    <3> SUFFICES ASSUME NEW k \in keys PROVE \E j \in 1 .. n : f[j] = k
      OBVIOUS
    <3>1. PICK l \in 0 .. last_index : rec[l].key = k
      BY <1>1 DEF Live
    <3>2. l + 1 \in 1 .. n /\ (l + 1) - 1 = l
      BY <1>1
    <3> QED
      BY <3>1, <3>2, <2>1
  <2>5. f \in Bijection(1 .. n, keys)
    BY <2>2, <2>3, <2>4 DEF Bijection, Injection, Surjection, IsInjective
  <2>6. ExistsBijection(1 .. n, keys)
    BY <2>5 DEF ExistsBijection
  <2> QED
    BY <2>6, <1>1, FS_CountingElements
<1>3. Count(rec, 0, last_index) = n /\ Count(rec, 1, last_index) = n
  <2>1. rec[last_index + 1].ptr = Null
    BY <1>1, LastSlot
  <2> QED
    BY <2>1, <1>1, CountIs DEF Types
<1>4. {rec[j].key : j \in 0 .. n - 1} = keys /\ \A j \in 1 .. n - 1 : rec[j - 1].key < rec[j].key
  BY <1>1 DEF Live
<1> QED
  BY <1>2, <1>3, <1>4

-----------------------------------------------------------------------------
(* The readers, and what persistent memory holds.                          *)
Words == {"idle", "test_end", "key", "left", "ptr", "again", "switch", "done"}
ReaderType == [key : Keys \cup {Top}, i : Slots, prev : Nat, left : Ptr, t : Ptr, ret : Ptr,
               met : SUBSET (0 .. MaxOps)]

(* A reader that has passed the end test is left of the last slot.         *)
ReaderTypes ==
  /\ pm \in [Slots -> Record] /\ ops \in 0 .. MaxOps /\ last_key \in Keys \cup {Top}
  /\ rpc \in [Readers -> Words] /\ reader \in [Readers -> ReaderType]
  /\ \A r \in Readers :
       /\ rpc[r] \in {"key", "left", "ptr", "again"} => reader[r].i < Card - 1
       /\ rpc[r] = "left" => reader[r].i > 0

(* The last slot never has a pointer: it ends every forward search.        *)
LEMMA LastNull ==
  ASSUME PageInv
  PROVE  rec[Card - 1].ptr = Null
<1>1. Types /\ Direction /\ Card \in Nat /\ Card - 1 \in Slots
  BY LastSlot DEF PageInv
<1>2. \A j \in Int : Empty(rec, j) /\ j <= Card - 1 => rec[Card - 1].ptr = Null
  BY <1>1 DEF Empty
<1>3. last_index + 1 <= Card - 1 /\ last_index <= Card - 1 /\ last_index + 1 \in Int /\ last_index \in Int
  BY <1>1 DEF Types
<1>4. CASE wpc \in {"idle", "open", "scan", "empty_key", "empty_ptr"}
  BY <1>2, <1>3, <1>4 DEF PageInv, AtRest
<1>5. CASE wpc \in {"shift", "shift_key", "place_key", "place_ptr", "empty_end", "insert_end"}
  <2>1. num_entries + 1 \in Int /\ num_entries + 1 <= Card - 1
    BY <1>1, <1>3, <1>5 DEF Direction, InsertPcs, Types
  <2>2. Empty(rec, num_entries + 1)
    BY <1>5 DEF PageInv, Shifting, Inserted
  <2> QED BY <1>2, <2>1, <2>2
<1>6. CASE wpc \in {"pull_key", "pull_ptr"}
  BY <1>2, <1>3, <1>6 DEF PageInv, Pulling
<1>7. CASE wpc = "remove_end"
  BY <1>2, <1>3, <1>7 DEF PageInv, Removed
<1> QED BY <1>1, <1>4, <1>5, <1>6, <1>7 DEF Types, InsertPcs, RemovePcs

(* count() gives a slot without a pointer, whatever the writer is at.      *)
LEMMA CountInSlots ==
  ASSUME PageInv
  PROVE  Count(rec, switch, last_index) \in Slots
<1>1. Types /\ Card \in Nat /\ Card - 1 \in Slots /\ rec[Card - 1].ptr = Null
  BY LastSlot, LastNull DEF PageInv
<1> DEFINE above == NullsIn(rec, last_index + 1 .. Card - 1)
           below == NullsIn(rec, 0 .. last_index + 1)
           all   == NullsIn(rec, Slots)
<1>2. above \subseteq Slots /\ above # {} /\ below \subseteq Slots /\ all \subseteq Slots /\ all # {}
  BY <1>1 DEF NullsIn, Types, Slots
<1>3. Slots \subseteq Nat /\ \A x \in Slots : x <= Card - 1
  BY <1>1 DEF Slots
<1>4. Least(above) \in Slots /\ Least(all) \in Slots
  BY <1>2, <1>3, LeastIs
<1>5. below # {} => Greatest(below) \in Slots
  <2>1. below # {} => Greatest(below) \in below
    <3> HIDE DEF below
    <3>1. Card - 1 \in Nat /\ below \subseteq Nat /\ \A x \in below : x <= Card - 1
      BY <1>1, <1>2, <1>3 DEF Slots
    <3> QED BY <3>1, GreatestIs
  <2> QED BY <1>2, <2>1
<1> QED BY <1>4, <1>5 DEF Count

(* What a reader's step does to it.                                        *)
LEMMA BeginTypes ==
  ASSUME PageInv, ReaderTypes, NEW r \in Readers, NEW k \in Keys \cup {Top}, Begin(r, k)
  PROVE  ReaderTypes'
<1>1. UNCHANGED <<rec, pm, switch, ops, last_key>>
  BY DEF Begin, wvars
<1>2. PICK c : c = Count(rec, switch, last_index)
  OBVIOUS
<1>3. PICK from : from = IF Forward(switch) THEN 0 ELSE c - 1
  OBVIOUS
<1>4. PICK at : at = IF from < 0 THEN 0 ELSE from
  OBVIOUS
<1>5. at \in Slots /\ at < Card - 1
  BY <1>2, <1>3, <1>4, CountInSlots, CardAssumption DEF Slots
<1>6. PICK m : m = reader[r].met \cup (IF wpc = "idle" THEN {} ELSE {ops})
  OBVIOUS
<1>7. m \in SUBSET (0 .. MaxOps) /\ switch \in Nat /\ Null \in Ptr
  BY <1>6 DEF ReaderTypes, ReaderType, PageInv, Types, Ptr
<1>8. PICK new : new = [key |-> k, i |-> at, prev |-> switch, left |-> Null, t |-> Null, ret |-> Null, met |-> m]
  OBVIOUS
<1>9. new \in ReaderType /\ new.i = at
  BY <1>5, <1>7, <1>8 DEF ReaderType
<1>10. reader' = [reader EXCEPT ![r] = new] /\ rpc' = [rpc EXCEPT ![r] = "key"]
  BY <1>2, <1>3, <1>4, <1>6, <1>8 DEF Begin
<1> QED BY <1>1, <1>5, <1>9, <1>10 DEF ReaderTypes, Words

(* A step of the search that changes its own locals only.                  *)
LEMMA GotoTypes ==
  ASSUME ReaderTypes, NEW r \in Readers, NEW label \in Words, NEW new \in ReaderType, Goto(r, label, new),
         label \in {"key", "left", "ptr", "again"} => new.i < Card - 1,
         label = "left" => new.i > 0
  PROVE  ReaderTypes'
<1>1. UNCHANGED <<pm, ops, last_key>>
  BY DEF Goto, wvars
<1> QED BY <1>1 DEF ReaderTypes, Goto

(* Going on to the next slot stays on the page: the end test comes first.  *)
LEMMA AdvanceTypes ==
  ASSUME ReaderTypes, NEW r \in Readers, reader[r].i < Card - 1, Advance(r)
  PROVE  ReaderTypes'
<1>1. PICK s : s = reader[r]
  OBVIOUS
<1>2. s \in ReaderType /\ s.i \in 0 .. Card - 2 /\ Card \in Nat
  BY <1>1, CardAssumption DEF ReaderTypes, ReaderType, Slots
<1>3. CASE Forward(s.prev)
  <2>1. Goto(r, "test_end", [s EXCEPT !.i = @ + 1])
    BY <1>1, <1>3 DEF Advance
  <2>2. [s EXCEPT !.i = @ + 1] \in ReaderType
    BY <1>2 DEF ReaderType, Slots
  <2> QED BY <2>1, <2>2, GotoTypes DEF Words
<1>4. CASE ~Forward(s.prev) /\ s.i > 0
  <2>1. Goto(r, "key", [s EXCEPT !.i = @ - 1])
    BY <1>1, <1>4 DEF Advance
  <2>2. PICK new : new = [s EXCEPT !.i = @ - 1]
    OBVIOUS
  <2>3. new \in ReaderType /\ new.i < Card - 1
    BY <1>2, <1>4, <2>2 DEF ReaderType, Slots
  <2> QED BY <2>1, <2>2, <2>3, GotoTypes DEF Words
<1>5. CASE ~Forward(s.prev) /\ ~(s.i > 0)
  <2>1. Goto(r, "switch", s)
    BY <1>1, <1>5 DEF Advance
  <2> QED BY <1>2, <2>1, GotoTypes DEF Words
<1> QED BY <1>3, <1>4, <1>5

(* No step of a search leaves the page.                                    *)
LEMMA ReaderStepTypes ==
  ASSUME PageInv, ReaderTypes, NEW r \in Readers, ReaderStep(r)
  PROVE  ReaderTypes'
<1>1. PICK s : s = reader[r]
  OBVIOUS
<1>2. s \in ReaderType /\ s.i \in Slots /\ Null \in Ptr /\ \A j \in Slots : rec[j].ptr \in Ptr
  <2>1. s \in ReaderType
    BY <1>1 DEF ReaderTypes
  <2>2. \A j \in Slots : rec[j] \in Record
    BY DEF PageInv, Types
  <2> QED BY <2>1, <2>2 DEF ReaderType, Record, Ptr
<1>3. rec[Card - 1].ptr = Null /\ Slots = 0 .. Card - 1 /\ Card \in Nat
  BY LastNull, CardAssumption DEF Slots
<1>4. CASE TestEnd(r)
  <2>1. Goto(r, IF rec[s.i].ptr = Null THEN "switch" ELSE "key", s)
    BY <1>1, <1>4 DEF TestEnd
  <2>2. rec[s.i].ptr # Null => s.i < Card - 1
    BY <1>2, <1>3
  <2>3. CASE rec[s.i].ptr = Null
    BY <2>1, <2>3, <1>2, GotoTypes DEF Words
  <2>4. CASE rec[s.i].ptr # Null
    BY <2>1, <2>2, <2>4, <1>2, GotoTypes DEF Words
  <2> QED BY <2>3, <2>4
<1>5. CASE ReadKey(r)
  <2>1. s.i < Card - 1
    BY <1>1, <1>5 DEF ReadKey, ReaderTypes
  <2>2. PICK new : new = [s EXCEPT !.left = Null]
    OBVIOUS
  <2>3. new \in ReaderType /\ new.i = s.i
    BY <1>2, <2>2 DEF ReaderType
  <2>4. CASE rec[s.i].key = s.key /\ s.i = 0
    <3>1. Goto(r, "ptr", new)
      BY <1>1, <1>5, <2>2, <2>4 DEF ReadKey
    <3> QED BY <3>1, <2>1, <2>3, GotoTypes DEF Words
  <2>5. CASE rec[s.i].key = s.key /\ s.i # 0
    <3>1. Goto(r, "left", new) /\ s.i > 0
      BY <1>1, <1>2, <1>3, <1>5, <2>2, <2>5 DEF ReadKey
    <3> QED BY <3>1, <2>1, <2>3, GotoTypes DEF Words
  <2>6. CASE rec[s.i].key # s.key
    BY <1>1, <1>5, <2>1, <2>6, AdvanceTypes DEF ReadKey
  <2> QED BY <2>4, <2>5, <2>6
<1>6. CASE ReadLeft(r)
  <2>1. s.i < Card - 1 /\ s.i > 0
    BY <1>1, <1>6 DEF ReadLeft, ReaderTypes
  <2>2. PICK new : new = [s EXCEPT !.left = rec[s.i - 1].ptr]
    OBVIOUS
  <2>3. s.i - 1 \in Slots
    BY <1>2, <1>3, <2>1
  <2>4. new \in ReaderType /\ new.i = s.i
    BY <1>2, <2>2, <2>3 DEF ReaderType
  <2>5. Goto(r, "ptr", new)
    BY <1>1, <1>6, <2>2 DEF ReadLeft
  <2> QED BY <2>1, <2>4, <2>5, GotoTypes DEF Words
<1>7. CASE ReadPtr(r)
  <2>1. s.i < Card - 1
    BY <1>1, <1>7 DEF ReadPtr, ReaderTypes
  <2>2. PICK new : new = [s EXCEPT !.t = rec[s.i].ptr]
    OBVIOUS
  <2>3. new \in ReaderType /\ new.i = s.i
    BY <1>2, <2>2 DEF ReaderType
  <2>4. Goto(r, "again", new) \/ Advance(r)
    BY <1>1, <1>7, <2>2 DEF ReadPtr
  <2> QED BY <1>1, <2>1, <2>3, <2>4, GotoTypes, AdvanceTypes DEF Words
<1>8. CASE RereadKey(r)
  <2>1. s.i < Card - 1
    BY <1>1, <1>8 DEF RereadKey, ReaderTypes
  <2>2. PICK new : new = [s EXCEPT !.ret = s.t]
    OBVIOUS
  <2>3. new \in ReaderType
    BY <1>2, <2>2 DEF ReaderType
  <2>4. Goto(r, "switch", new) \/ Advance(r)
    BY <1>1, <1>8, <2>2 DEF RereadKey
  <2> QED BY <1>1, <2>1, <2>3, <2>4, GotoTypes, AdvanceTypes DEF Words
<1>9. CASE TestSwitch(r)
  <2>1. Goto(r, "done", s) \/ Begin(r, s.key)
    BY <1>1, <1>9 DEF TestSwitch
  <2>2. s.key \in Keys \cup {Top}
    BY <1>2 DEF ReaderType
  <2> QED BY <2>1, <2>2, <1>2, GotoTypes, BeginTypes DEF Words
<1>10. CASE FinishSearch(r)
  <2>1. IdleReader \in ReaderType /\ Goto(r, "idle", IdleReader)
    BY <1>2, <1>3, <1>10, CardAssumption DEF IdleReader, ReaderType, FinishSearch
  <2> QED BY <2>1, GotoTypes DEF Words
<1> QED BY <1>4, <1>5, <1>6, <1>7, <1>8, <1>9, <1>10 DEF ReaderStep

(* An operation that begins is met by the searches under way.              *)
LEMMA MeetTypes ==
  ASSUME ReaderTypes, Meet, ops' \in 0 .. MaxOps, last_key' \in Keys, UNCHANGED <<pm, rpc>>
  PROVE  ReaderTypes'
<1>1. \A r \in Readers : /\ reader'[r] \in ReaderType /\ reader'[r].i = reader[r].i
  <2> SUFFICES ASSUME NEW r \in Readers PROVE reader'[r] \in ReaderType /\ reader'[r].i = reader[r].i
    OBVIOUS
  <2>1. reader[r] \in ReaderType
    BY DEF ReaderTypes
  <2>2. reader'[r] = IF rpc[r] = "idle" THEN reader[r] ELSE [reader[r] EXCEPT !.met = @ \cup {ops'}]
    BY DEF Meet
  <2> QED BY <2>1, <2>2 DEF ReaderType
<1>2. reader' \in [Readers -> ReaderType]
  <2>1. reader' = [r \in Readers |-> reader'[r]]
    BY DEF Meet
  <2> QED BY <1>1, <2>1
<1> QED BY <1>1, <1>2 DEF ReaderTypes

(* Writing lines back leaves records in persistent memory.                 *)
LEMMA WriteBackTypes ==
  ASSUME PageInv', pm \in [Slots -> Record], NEW S, WriteBack(S)
  PROVE  pm' \in [Slots -> Record]
BY DEF WriteBack, PageInv, Types

(* Every step keeps the readers, and persistent memory, well formed.       *)
LEMMA ReaderTypesStep ==
  ASSUME PageInv, PageInv', ReaderTypes, [Next]_vars
  PROVE  ReaderTypes'
<1>1. CASE UNCHANGED vars
  BY <1>1 DEF vars, wvars, rvars, ReaderTypes
<1>2. ASSUME NEW k \in Keys, Insert(k) \/ Remove(k)
      PROVE  ReaderTypes'
  <2>1. ops' \in 0 .. MaxOps
    BY <1>2, MaxOpsAssumption DEF Insert, Remove, ReaderTypes
  <2> QED BY <1>2, <2>1, MeetTypes DEF Insert, Remove
<1>3. CASE WriterStep
  <2>1. UNCHANGED <<ops, last_key, rpc, reader>> /\ (UNCHANGED pm \/ \E S : WriteBack(S))
    BY <1>3 DEF WriterStep, EmptyKey, EmptyPtr, EmptyEnd, OpenSlot, ShiftPtr, ShiftKey, PlaceLeft, PlaceKey,
       PlacePtr, InsertEnd, ScanOn, Unlink, PullKey, PullPtr, RemoveEnd, Frame, Unflushed, FlushAtLineStart,
       rvars
  <2>2. pm' \in [Slots -> Record]
    BY <2>1, WriteBackTypes DEF ReaderTypes
  <2> QED BY <2>1, <2>2 DEF ReaderTypes
<1>4. ASSUME NEW j \in Slots, Evict(j)
      PROVE  ReaderTypes'
  <2>1. UNCHANGED <<ops, last_key, rpc, reader>> /\ WriteBack(LineOf(j))
    BY <1>4 DEF Evict, rvars
  <2>2. pm' \in [Slots -> Record]
    BY <2>1, WriteBackTypes DEF ReaderTypes
  <2> QED BY <2>1, <2>2 DEF ReaderTypes
<1>5. ASSUME NEW r \in Readers, NEW k \in Keys, StartSearch(r, k)
      PROVE  ReaderTypes'
  BY <1>5, BeginTypes DEF StartSearch
<1>6. ASSUME NEW r \in Readers, ReaderStep(r)
      PROVE  ReaderTypes'
  BY <1>6, ReaderStepTypes
<1> QED BY <1>1, <1>2, <1>3, <1>4, <1>5, <1>6 DEF Next

(* At first no search is under way.                                        *)
LEMMA ReaderTypesInit == Init => ReaderTypes
<1> SUFFICES ASSUME Init PROVE ReaderTypes
  OBVIOUS
<1>1. IdleReader \in ReaderType
  BY CardAssumption DEF IdleReader, ReaderType, Slots, Ptr
<1>2. pm \in [Slots -> Record]
  BY DEF Init, Record
<1> QED BY <1>1, <1>2, MaxOpsAssumption DEF Init, ReaderTypes, Words

-----------------------------------------------------------------------------
(* Persistent memory until the first removal: it agrees with the records   *)
(* but for the cache line of the slot that is being stored to.             *)
Off(L) == \A x \in Slots \ L : pm[x] = rec[x]

Lines ==
  switch = 0 =>
    /\ wpc \in {"idle", "open", "empty_key", "insert_end"} => pm = rec
    /\ wpc \in {"empty_ptr", "empty_end"} => Off(LineOf(0))
    /\ wpc \in {"shift", "shift_key", "place_key", "place_ptr"} => Off(LineOf(i + 1))

(* A slot that starts no line is in the line of its left neighbour, and    *)
(* lines do not overlap.                                                   *)
LEMMA SameLine ==
  ASSUME NEW j \in Slots, j - 1 \in Slots, ~StartsLine(j)
  PROVE  LineOf(j - 1) = LineOf(j)
<1>1. PICK a \in Nat, b \in Nat \ {0} : a = j - 1 + HeaderSlots /\ b = PerLine
  <2>1. j - 1 + HeaderSlots \in Nat /\ PerLine \in Nat \ {0}
    BY LineAssumption, CardAssumption DEF Slots
  <2> QED BY <2>1
<1>2. (a + 1) % b # 0
  <2>1. j + HeaderSlots = a + 1
    BY <1>1, LineAssumption, CardAssumption DEF Slots
  <2> QED BY <1>1, <2>1 DEF StartsLine
<1>3. a \div b = (a + 1) \div b
  <2>1. PICK q \in Int : q = a \div b
    OBVIOUS
  <2>2. PICK r \in Int : r = a % b
    OBVIOUS
  <2>3. a = b * q + r /\ 0 <= r /\ r < b
    BY <2>1, <2>2
  <2>4. CASE r + 1 = b
    <3>1. a + 1 = b * (q + 1)
      BY <2>3, <2>4
    <3> QED BY <3>1, <1>2
  <2>5. CASE r + 1 < b
    <3>1. a + 1 = b * q + (r + 1) /\ 0 <= r + 1
      BY <2>3
    <3> QED BY <3>1, <2>1, <2>5
  <2> QED BY <2>3, <2>4, <2>5
<1>4. j + HeaderSlots = a + 1 /\ (j - 1) + HeaderSlots = a
  BY <1>1, LineAssumption, CardAssumption DEF Slots
<1> QED BY <1>1, <1>3, <1>4 DEF LineOf

LEMMA LinesApart ==
  ASSUME NEW j \in Slots, NEW l \in Slots
  PROVE  j \in LineOf(j) /\ (LineOf(j) = LineOf(l) \/ \A x \in LineOf(j) : x \notin LineOf(l))
BY DEF LineOf

(* A store to line L, with or without writing it back.                     *)
LEMMA StoreInLine ==
  ASSUME NEW L, NEW j \in L, NEW field, NEW x, Off(L), Store(j, field, x), UNCHANGED pm,
         rec \in [Slots -> Record]
  PROVE  Off(L)'
BY DEF Off, Store

(* Writing the line back after the store brings the copy up to date.       *)
LEMMA StoreThrough ==
  ASSUME NEW L, NEW j \in L, NEW field, NEW x, Off(L), Store(j, field, x), WriteBack(L),
         rec \in [Slots -> Record], rec' \in [Slots -> Record]
  PROVE  pm' = rec'
<1>1. \A l \in Slots : pm'[l] = rec'[l]
  BY DEF Off, Store, WriteBack
<1>2. pm' = [l \in Slots |-> pm'[l]] /\ rec' = [l \in Slots |-> rec'[l]]
  BY DEF WriteBack
<1> QED BY <1>1, <1>2

(* A slot beyond the records is cleared once more.                         *)
LEMMA ClearedAgain ==
  ASSUME rec \in [Slots -> Record], NEW j \in Slots, rec[j].ptr = Null, Store(j, "ptr", Null)
  PROVE  rec' = rec
<1>1. rec[j] \in Record
  OBVIOUS
<1>2. [rec[j] EXCEPT !.ptr = Null] = rec[j]
  BY <1>1 DEF Record
<1>3. rec' = [rec EXCEPT ![j] = [rec[j] EXCEPT !.ptr = Null]]
  BY DEF Store
<1> QED BY <1>2, <1>3

(* A store touches one cache line, and the line is written back before the *)
(* writer goes on to the next one.                                         *)
LEMMA LinesStep ==
  ASSUME PageInv, PageInv', ReaderTypes, ReaderTypes', Lines, [Next]_vars
  PROVE  Lines' /\ (switch' = 0 => UNCHANGED pm \/ pm' = rec')
<1> SUFFICES ASSUME switch' = 0 PROVE Lines' /\ (UNCHANGED pm \/ pm' = rec')
  BY DEF Lines
<1>1. rec \in [Slots -> Record] /\ rec' \in [Slots -> Record] /\ switch \in Nat /\ pm \in [Slots -> Record]
  BY DEF PageInv, Types, ReaderTypes
<1>2. Forward(0)
  BY DEF Forward
<1>3. CASE UNCHANGED vars
  BY <1>3 DEF vars, wvars, Lines, Off
<1>4. ASSUME NEW k \in Keys, Insert(k) \/ Remove(k)
      PROVE  Lines' /\ (UNCHANGED pm \/ pm' = rec')
  <2>1. switch = 0 /\ Insert(k)
    BY <1>1, <1>2, <1>4 DEF Insert, Remove
  <2>2. pm' = rec'
    BY <2>1 DEF Insert, Lines
  <2> QED BY <2>2 DEF Lines, Off
<1>5. ASSUME NEW r \in Readers, ReaderStep(r) \/ \E k \in Keys : StartSearch(r, k)
      PROVE  Lines' /\ (UNCHANGED pm \/ pm' = rec')
  <2>1. UNCHANGED wvars
    BY <1>5 DEF ReaderStep, TestEnd, ReadKey, ReadLeft, ReadPtr, RereadKey, TestSwitch, FinishSearch,
       StartSearch, Begin, Goto, Advance
  <2> QED BY <2>1 DEF wvars, Lines, Off
<1>6. ASSUME NEW j \in Slots, Evict(j)
      PROVE  Lines' /\ (UNCHANGED pm \/ pm' = rec')
  <2>1. UNCHANGED <<rec, switch, wpc, i>> /\ \A x \in Slots : pm'[x] \in {pm[x], rec'[x]}
    BY <1>6 DEF Evict, WriteBack
  <2>2. pm = rec => pm' = rec'
    BY <1>1, <1>6 DEF Evict
  <2>3. ASSUME NEW L, NEW l \in Slots, L = LineOf(l), Off(L)
        PROVE  Off(L)' /\ (UNCHANGED pm \/ pm' = rec')
    <3>1. \A x \in Slots : pm'[x] = IF x \in LineOf(j) THEN rec'[x] ELSE pm[x]
      BY <1>6 DEF Evict, WriteBack
    <3>2. CASE L = LineOf(j)
      <4>1. \A x \in Slots : pm'[x] = rec'[x]
        BY <2>1, <2>3, <3>1, <3>2 DEF Off
      <4>2. pm' = rec'
        BY <1>1, <1>6, <4>1 DEF Evict, WriteBack
      <4> QED BY <4>2 DEF Off
    <3>3. CASE L # LineOf(j)
      <4>1. \A x \in LineOf(j) : x \notin L
        BY <2>3, <3>3, LinesApart
      <4>2. \A x \in Slots : pm'[x] = pm[x]
        BY <2>1, <2>3, <3>1, <4>1 DEF Off
      <4>3. pm' = pm
        BY <1>1, <1>6, <4>2 DEF Evict, WriteBack
      <4> QED BY <2>1, <2>3, <4>3 DEF Off
    <3> QED BY <3>2, <3>3
  <2>4. CASE wpc \in {"idle", "open", "empty_key", "insert_end"}
    BY <2>1, <2>2, <2>4 DEF Lines
  <2>5. CASE wpc \in {"empty_ptr", "empty_end"}
    <3>1. PICK L : L = LineOf(0)
      OBVIOUS
    <3>2. 0 \in Slots /\ Off(L)
      BY <2>1, <2>5, <3>1, CardAssumption DEF Lines, Slots
    <3>3. Off(L)' /\ (UNCHANGED pm \/ pm' = rec')
      BY <2>3, <3>1, <3>2
    <3> QED BY <2>1, <2>5, <3>1, <3>3 DEF Lines
  <2>6. CASE wpc \in {"shift", "shift_key", "place_key", "place_ptr"}
    <3>1. PICK L : L = LineOf(i + 1)
      OBVIOUS
    <3>2. i + 1 \in Slots /\ Off(L)
      <4>1. i \in -1 .. Card /\ i < num_entries /\ num_entries < Card - 1 /\ num_entries \in Nat
        BY <2>6 DEF PageInv, Types, Shifting, Direction, InsertPcs
      <4> QED BY <2>1, <2>6, <3>1, <4>1, CardAssumption DEF Lines, Slots
    <3>3. Off(L)' /\ (UNCHANGED pm \/ pm' = rec')
      BY <2>3, <3>1, <3>2
    <3>4. LineOf(i + 1)' = L
      BY <2>1, <3>1
    <3> QED BY <2>1, <2>6, <3>3, <3>4 DEF Lines
  <2>7. wpc \notin RemovePcs /\ wpc \in {"idle"} \cup InsertPcs \cup RemovePcs
    BY <1>2, <2>1 DEF PageInv, Direction, Types
  <2> QED BY <2>4, <2>5, <2>6, <2>7 DEF InsertPcs
<1>7. CASE WriterStep
  <2>1. switch = 0
    BY <1>7 DEF WriterStep, EmptyKey, EmptyPtr, EmptyEnd, OpenSlot, ShiftPtr, ShiftKey, PlaceLeft, PlaceKey,
       PlacePtr, InsertEnd, ScanOn, Unlink, PullKey, PullPtr, RemoveEnd, Frame
  <2>2. wpc \notin RemovePcs /\ wpc' \notin RemovePcs
    BY <1>2, <2>1 DEF PageInv, Direction
  <2>3. PICK L : L = LineOf(i + 1)
    OBVIOUS
  <2>4. PICK j : j = i + 1
    OBVIOUS
  <2>5. PICK M : M = LineOf(0)
    OBVIOUS
  <2>6. 0 \in M /\ 0 \in Slots /\ 1 \in Slots /\ Slots \subseteq Nat
    BY <2>5, CardAssumption DEF LineOf, Slots
  <2>7. wpc \in {"shift", "shift_key", "place_key", "place_ptr"} => j \in Slots /\ j \in L
    <3>1. wpc \in {"shift", "shift_key", "place_key", "place_ptr"} =>
            i \in -1 .. Card /\ i < num_entries /\ num_entries < Card - 1 /\ num_entries \in Nat
      BY DEF PageInv, Types, Shifting, Direction, InsertPcs
    <3>2. wpc \in {"shift", "shift_key", "place_key", "place_ptr"} => j \in Slots
      BY <2>4, <3>1, CardAssumption DEF Slots
    <3> QED BY <2>3, <2>4, <3>2 DEF LineOf
  <2>8. CASE EmptyKey
    <3>1. Off(M) /\ Store(0, "key", key) /\ UNCHANGED pm /\ wpc' = "empty_ptr"
      BY <2>1, <2>8 DEF EmptyKey, Step, Unflushed, Lines, Off
    <3>2. PICK x : x = key
      OBVIOUS
    <3>3. Off(M)'
      BY <1>1, <2>6, <3>1, <3>2, StoreInLine
    <3> QED BY <3>1, <3>3, <2>5 DEF Lines
  <2>9. CASE EmptyPtr
    <3>1. Off(M) /\ UNCHANGED pm /\ wpc' = "empty_end"
      BY <2>1, <2>5, <2>9 DEF EmptyPtr, Step, Unflushed, Lines
    <3>2. PICK x : x = ValueOf[key]
      OBVIOUS
    <3>3. Store(0, "ptr", x)
      BY <2>9, <3>2 DEF EmptyPtr
    <3>4. Off(M)'
      BY <1>1, <2>6, <3>1, <3>3, StoreInLine
    <3> QED BY <3>1, <3>4, <2>5 DEF Lines
  <2>10. CASE EmptyEnd
    <3>1. rec[1].ptr = Null
      <4>1. Empty(rec, num_entries + 1) /\ num_entries = 0
        BY <2>10 DEF EmptyEnd, Step, PageInv, Inserted, FirstKey
      <4> QED BY <4>1, CardAssumption DEF Empty
    <3>2. rec' = rec
      BY <1>1, <2>6, <2>10, <3>1, ClearedAgain DEF EmptyEnd
    <3>3. Off(M) /\ WriteBack(M) /\ wpc' = "insert_end"
      BY <2>1, <2>5, <2>10 DEF EmptyEnd, Step, Lines
    <3>4. \A x \in Slots : pm'[x] = rec'[x]
      BY <3>2, <3>3 DEF Off, WriteBack
    <3>5. pm' = rec'
      BY <1>1, <3>3, <3>4 DEF WriteBack
    <3> QED BY <3>3, <3>5 DEF Lines, Off
  <2>11. CASE OpenSlot
    <3>1. num_entries + 1 \in Slots /\ rec[num_entries + 1].ptr = Null /\ rec[num_entries].ptr = Null
      <4>1. Empty(rec, last_index + 1) /\ num_entries = last_index + 1 /\ num_entries < Card - 1
            /\ num_entries \in Nat
        BY <2>11 DEF OpenSlot, Step, PageInv, AtRest, Direction, InsertPcs, Types
      <4> QED BY <4>1, CardAssumption DEF Empty, Slots
    <3>2. rec' = rec
      BY <1>1, <2>11, <3>1, ClearedAgain DEF OpenSlot
    <3>3. pm = rec /\ wpc' = "shift"
      BY <2>1, <2>11 DEF OpenSlot, Step, Lines
    <3>4. UNCHANGED pm \/ \E S : WriteBack(S)
      BY <2>11 DEF OpenSlot, FlushAtLineStart
    <3>5. \A x \in Slots : pm'[x] = rec'[x]
      BY <3>2, <3>3, <3>4 DEF WriteBack
    <3>6. pm' = rec'
      <4>1. pm' = [l \in Slots |-> pm'[l]] /\ rec' = [l \in Slots |-> rec'[l]]
        BY <1>1, <3>4 DEF WriteBack
      <4> QED BY <3>5, <4>1
    <3> QED BY <3>3, <3>6 DEF Lines, Off
  <2>12. CASE ShiftPtr \/ PlaceLeft \/ PlaceKey
    <3>1. Off(L) /\ UNCHANGED <<pm, i>> /\ wpc \in {"shift", "place_key"}
          /\ wpc' \in {"shift_key", "place_key", "place_ptr"}
      BY <2>1, <2>3, <2>12 DEF ShiftPtr, PlaceLeft, PlaceKey, Step, Unflushed, Lines
    <3>2. \E field, x : Store(j, field, x)
      BY <2>4, <2>12 DEF ShiftPtr, PlaceLeft, PlaceKey
    <3>3. Off(L)'
      BY <1>1, <2>7, <3>1, <3>2, StoreInLine
    <3> QED BY <3>1, <3>3, <2>3 DEF Lines
  <2>13. CASE ShiftKey
    <3>1. Off(L) /\ wpc = "shift_key" /\ wpc' = "shift" /\ i' = i - 1 /\ i \in Int
      BY <2>1, <2>3, <2>13 DEF ShiftKey, Step, Lines, PageInv, Types
    <3>2. PICK x : x = rec[i].key
      OBVIOUS
    <3>3. Store(j, "key", x)
      BY <2>4, <2>13, <3>2 DEF ShiftKey
    <3>4. CASE StartsLine(j)
      <4>1. WriteBack(L)
        BY <2>3, <2>4, <2>13, <3>4 DEF ShiftKey, FlushAtLineStart
      <4>2. pm' = rec'
        BY <1>1, <2>7, <3>1, <3>3, <4>1, StoreThrough
      <4> QED BY <3>1, <4>2 DEF Lines, Off
    <3>5. CASE ~StartsLine(j)
      <4>1. UNCHANGED pm
        BY <2>4, <2>13, <3>5 DEF ShiftKey, FlushAtLineStart
      <4>2. Off(L)'
        BY <1>1, <2>7, <3>1, <3>3, <4>1, StoreInLine
      <4>3. j - 1 \in Slots /\ j \in Slots /\ j - 1 = i /\ i' + 1 = i /\ j = i + 1
        <5>1. i >= 0
          BY <3>1 DEF PageInv, Shifting
        <5> QED BY <2>4, <2>7, <3>1, <5>1, CardAssumption DEF Slots
      <4>4. LineOf(i) = L
        BY <2>3, <3>5, <4>3, SameLine
      <4>5. LineOf(i + 1)' = L
        BY <4>3, <4>4
      <4> QED BY <3>1, <4>1, <4>2, <4>5 DEF Lines
    <3> QED BY <3>4, <3>5
  <2>14. CASE PlacePtr
    <3>1. Off(L) /\ wpc = "place_ptr" /\ wpc' = "insert_end" /\ WriteBack(L)
      BY <2>1, <2>3, <2>14 DEF PlacePtr, Step, Lines
    <3>2. \E x : Store(j, "ptr", x)
      BY <2>4, <2>14 DEF PlacePtr
    <3>3. pm' = rec'
      BY <1>1, <2>7, <3>1, <3>2, StoreThrough
    <3> QED BY <3>1, <3>3 DEF Lines
  <2>15. CASE InsertEnd
    BY <2>1, <2>15 DEF InsertEnd, Step, Lines
  <2>16. CASE ScanOn \/ Unlink \/ PullKey \/ PullPtr \/ RemoveEnd
    BY <2>2, <2>16 DEF ScanOn, Unlink, PullKey, PullPtr, RemoveEnd, Step, RemovePcs
  <2> QED BY <1>7, <2>8, <2>9, <2>10, <2>11, <2>12, <2>13, <2>14, <2>15, <2>16 DEF WriterStep
<1> QED BY <1>3, <1>4, <1>5, <1>6, <1>7 DEF Next

(* A forward search does not use the hint.                                 *)
LEMMA NoHint ==
  \A p, l, m, k : Search(p, 0, l, k) = Search(p, 0, m, k)
<1>1. Forward(0)
  BY DEF Forward
<1> QED BY <1>1 DEF Search

(* What is written back is a page that can be searched; in between the     *)
(* copy stays as it is.                                                    *)
LEMMA PersistStep ==
  ASSUME PageInv, PageInv', ReaderTypes, ReaderTypes', AlwaysReadable', Lines, InsertsPersist, [Next]_vars
  PROVE  InsertsPersist'
<1> SUFFICES ASSUME switch' = 0, NEW k \in Keys, k # key'
             PROVE  Search(pm, switch, last_index, k)' = IF k \in keys' THEN ValueOf[k] ELSE Null
  BY DEF InsertsPersist
<1>1. UNCHANGED pm \/ pm' = rec'
  BY LinesStep
<1>2. CASE pm' = rec'
  BY <1>2 DEF AlwaysReadable
<1>3. CASE UNCHANGED pm /\ pm' # rec'
  <2>1. switch = 0
    <3>1. UNCHANGED switch \/ \E l \in Keys : Insert(l) \/ Remove(l)
      BY DEF Next, vars, wvars, WriterStep, EmptyKey, EmptyPtr, EmptyEnd, OpenSlot, ShiftPtr, ShiftKey,
         PlaceLeft, PlaceKey, PlacePtr, InsertEnd, ScanOn, Unlink, PullKey, PullPtr, RemoveEnd, Frame,
         Evict, ReaderStep, TestEnd, ReadKey, ReadLeft, ReadPtr, RereadKey, TestSwitch, FinishSearch,
         StartSearch, Begin, Goto, Advance
    <3>2. switch \in Nat
      BY DEF PageInv, Types
    <3> QED BY <3>1, <3>2 DEF Insert, Remove
  <2>2. Forward(0)
    BY DEF Forward
  <2>3. wpc \notin RemovePcs /\ wpc' \notin RemovePcs
    BY <2>1, <2>2 DEF PageInv, Direction
  <2>4. UNCHANGED <<keys, key>>
    <3>1. ~(\E l \in Keys : Insert(l) \/ Remove(l))
      BY <1>3, <2>1, <2>3 DEF Insert, Remove, Lines, RemovePcs
    <3>2. ~InsertEnd
      BY <1>3, <2>1 DEF InsertEnd, Step, Lines
    <3>3. ~RemoveEnd
      BY <2>3 DEF RemoveEnd, Step, RemovePcs
    <3> QED BY <3>1, <3>2, <3>3 DEF Next, vars, wvars, WriterStep, EmptyKey, EmptyPtr, EmptyEnd, OpenSlot,
         ShiftPtr, ShiftKey, PlaceLeft, PlaceKey, PlacePtr, ScanOn, Unlink, PullKey, PullPtr, Frame,
         Evict, ReaderStep, TestEnd, ReadKey, ReadLeft, ReadPtr, RereadKey, TestSwitch, FinishSearch,
         StartSearch, Begin, Goto, Advance
  <2>5. Search(pm, switch, last_index, k)' = Search(pm, 0, last_index', k)
    BY <1>3
  <2>6. Search(pm, 0, last_index', k) = Search(pm, 0, last_index, k)
    BY NoHint
  <2>7. Search(pm, 0, last_index, k) = IF k \in keys THEN ValueOf[k] ELSE Null
    BY <2>1, <2>4 DEF InsertsPersist
  <2> QED BY <2>4, <2>5, <2>6, <2>7
<1> QED BY <1>1, <1>2, <1>3

-----------------------------------------------------------------------------
(* Searches without a lock.  Slot j holds key k with its value.            *)
Here(j, k) == rec[j].key = k /\ rec[j].ptr = ValueOf[k]

(* The key is not left of slot x, where a forward search is, nor right of  *)
(* it for a backward search.  An insert moves keys right and a removal     *)
(* moves them left, the way the search goes.                               *)
Ahead(x, k) ==
  /\ \E j \in Slots : x <= j /\ Here(j, k)
  /\ x > 0 => rec[x - 1].ptr # ValueOf[k]
Behind(x, k) == \E j \in Slots : j <= x /\ Here(j, k)

(* The search met one operation at most, the latest, on another key.       *)
Clear(s) == s.met = {} \/ (s.met = {ops} /\ s.key # last_key)

(* The insert has not reached the slot on the left of the search's.        *)
Untouched(s) ==
  \/ wpc = "idle" /\ s.met = {}
  \/ wpc = "open"
  \/ wpc \in {"shift", "shift_key", "place_key", "place_ptr"} /\ s.i <= i + 1

(* The removal changes the key of the search's slot no more.               *)
Finished(s) ==
  /\ s.met # {}
  /\ \/ wpc \in {"idle", "remove_end"}
     \/ wpc = "pull_key" /\ s.i < i
     \/ wpc = "pull_ptr" /\ s.i <= i

AtSlot == {"key", "left", "ptr", "again"}

(* What the search takes from its slot is the value of its key.            *)
Takes(s) ==
  rec[s.i].key = s.key => \/ rec[s.i].ptr \in {s.left, Null}
                          \/ s.key \in keys /\ rec[s.i].ptr = ValueOf[s.key]
Took(s) == rec[s.i].key = s.key => s.key \in keys /\ s.t = ValueOf[s.key]

ForwardSearch(at, s) ==
  /\ s.key \in keys => Ahead(s.i, s.key)
  /\ at = "test_end" => s.i > 0
  /\ at \in AtSlot /\ s.i > 0 => rec[s.i].ptr # Null
  /\ at = "ptr" => /\ s.key \in keys => s.left # ValueOf[s.key]
                   /\ s.i = 0 => s.left = Null
                   /\ s.i > 0 /\ Untouched(s) => s.left = rec[s.i - 1].ptr
                   /\ Takes(s)
  /\ at = "again" => Took(s)

BackwardSearch(at, s) ==
  /\ at \in AtSlot
  /\ s.key \in keys => Behind(s.i, s.key)
  /\ at # "key" /\ rec[s.i].key # s.key => Finished(s)
  /\ at = "ptr" => /\ s.left = ValueOf[s.key] => s.i > 0 /\ Behind(s.i - 1, s.key)
                   /\ Takes(s)
  /\ at = "again" => Took(s)

Right(s) == s.ret = IF s.key \in keys THEN ValueOf[s.key] ELSE Null

Scan(at, s) ==
  Clear(s) =>
    /\ at \in AtSlot \cup {"test_end"} /\ s.prev = switch =>
         IF Forward(switch) THEN ForwardSearch(at, s) ELSE BackwardSearch(at, s)
    /\ at = "switch" /\ s.prev = switch => Right(s)
    /\ at = "done" => Right(s)

(* The calls under way.                                                    *)
Calls(at, s) ==
  /\ at = "idle" => s.met = {}
  /\ at # "idle" =>
       /\ s.key \in Keys /\ s.prev <= switch /\ s.met \subseteq 0 .. ops
       /\ wpc # "idle" => ops \in s.met
       /\ at \in AtSlot \cup {"test_end"} => s.ret = Null

SearchInv ==
  /\ wpc # "idle" => key = last_key
  /\ \A r \in Readers : Calls(rpc[r], reader[r]) /\ Scan(rpc[r], reader[r])

(* A slot with a pointer holds a key of the page with its value, or has    *)
(* the pointer of the slot on its left, which does.                        *)
Holds(j) == rec[j].key \in Keys /\ rec[j].key \in keys \cup {key} /\ rec[j].ptr = ValueOf[rec[j].key]

LEMMA SlotHolds ==
  ASSUME PageInv, NEW x \in Slots, rec[x].ptr # Null
  PROVE  Holds(x) \/ (x > 0 /\ x - 1 \in Slots /\ rec[x].ptr = rec[x - 1].ptr /\ Holds(x - 1))
<1>1. Types /\ Card \in Nat /\ Slots = 0 .. Card - 1 /\ keys \subseteq Keys /\ x \in 0 .. Card - 1
  BY CardAssumption DEF PageInv, Types, Slots
<1>2. ASSUME NEW S, NEW K, Live(rec, S, K), K \subseteq Keys, K \subseteq keys \cup {key}
      PROVE  \A j \in S : Holds(j)
  BY <1>2 DEF Live, Holds
<1>3. ASSUME NEW n \in Int, Empty(rec, n) PROVE x < n
  BY <1>1, <1>3 DEF Empty
<1>4. CASE wpc \in {"idle", "open", "scan", "empty_key", "empty_ptr"}
  <2>1. Live(rec, 0 .. last_index, keys) /\ Empty(rec, last_index + 1) /\ last_index \in Int
    BY <1>1, <1>4 DEF PageInv, AtRest, Types
  <2>2. x \in 0 .. last_index
    BY <1>1, <1>3, <2>1
  <2> QED BY <1>1, <1>2, <2>1, <2>2
<1>5. CASE wpc \in {"empty_end", "insert_end"}
  <2>1. Live(rec, 0 .. num_entries, keys \cup {key}) /\ Empty(rec, num_entries + 1) /\ num_entries \in Int
        /\ key \in Keys
    BY <1>1, <1>5 DEF PageInv, Inserted, Types, Direction, InsertPcs
  <2>2. x \in 0 .. num_entries
    BY <1>1, <1>3, <2>1
  <2>3. keys \cup {key} \subseteq Keys
    BY <1>1, <2>1
  <2> QED BY <1>2, <2>1, <2>2, <2>3
<1>6. CASE wpc \in {"shift", "shift_key", "place_key", "place_ptr"}
  <2>1. Live(rec, (0 .. num_entries) \ {i + 1}, keys) /\ Empty(rec, num_entries + 1) /\ num_entries \in Int
        /\ i \in Int /\ i < num_entries
    BY <1>1, <1>6 DEF PageInv, Shifting, Types
  <2>2. x \in 0 .. num_entries
    BY <1>1, <1>3, <2>1
  <2>3. \A j \in (0 .. num_entries) \ {i + 1} : Holds(j)
    BY <1>1, <1>2, <2>1
  <2>4. CASE x # i + 1
    BY <2>2, <2>3, <2>4
  <2>5. CASE x = i + 1 /\ wpc # "shift"
    <3>1. Doubled(rec, x)
      BY <1>6, <2>5 DEF PageInv, Shifting
    <3>2. x > 0 /\ rec[x].ptr = rec[x - 1].ptr
      BY <1>1, <3>1 DEF Doubled
    <3>3. x - 1 \in (0 .. num_entries) \ {i + 1} /\ x - 1 \in Slots
      BY <1>1, <2>1, <2>2, <2>5, <3>2
    <3> QED BY <2>3, <3>2, <3>3
  <2>6. CASE x = i + 1 /\ wpc = "shift"
    <3>1. i + 1 # num_entries /\ rec[i + 1] = rec[i + 2]
      BY <2>6 DEF PageInv, Shifting
    <3>2. i + 2 \in (0 .. num_entries) \ {i + 1}
      BY <1>1, <2>1, <2>2, <2>6, <3>1
    <3>3. Holds(i + 2)
      BY <2>3, <3>2
    <3> QED BY <2>6, <3>1, <3>3 DEF Holds
  <2> QED BY <2>4, <2>5, <2>6
<1>7. CASE wpc \in {"pull_key", "pull_ptr"}
  <2>1. Live(rec, (0 .. last_index) \ {i}, keys \ {key}) /\ Empty(rec, last_index + 1) /\ last_index \in Int
        /\ i \in Int /\ Doubled(rec, i)
    BY <1>1, <1>7 DEF PageInv, Pulling, Types
  <2>2. x \in 0 .. last_index
    BY <1>1, <1>3, <2>1
  <2>3. \A j \in (0 .. last_index) \ {i} : Holds(j)
    BY <1>1, <1>2, <2>1
  <2>4. CASE x # i
    BY <2>2, <2>3, <2>4
  <2>5. CASE x = i
    <3>1. x > 0 /\ rec[x].ptr = rec[x - 1].ptr
      BY <1>1, <2>1, <2>5 DEF Doubled
    <3>2. x - 1 \in (0 .. last_index) \ {i} /\ x - 1 \in Slots
      BY <1>1, <2>1, <2>2, <2>5, <3>1
    <3> QED BY <2>3, <3>1, <3>2
  <2> QED BY <2>4, <2>5
<1>8. CASE wpc = "remove_end"
  <2>1. Live(rec, 0 .. last_index - 1, keys \ {key}) /\ Empty(rec, last_index) /\ last_index \in Int
    BY <1>1, <1>8 DEF PageInv, Removed, Types
  <2>2. x \in 0 .. last_index - 1
    BY <1>1, <1>3, <2>1
  <2> QED BY <1>1, <1>2, <2>1, <2>2
<1> QED BY <1>1, <1>4, <1>5, <1>6, <1>7, <1>8 DEF Types, InsertPcs, RemovePcs

(* Below a slot with a pointer a forward search meets no end.              *)
LEMMA NoGap ==
  ASSUME PageInv, Forward(switch), NEW x \in Slots, NEW j \in Slots, 0 < x, x <= j, rec[j].ptr # Null
  PROVE  rec[x].ptr # Null
<1>1. Types /\ Card \in Nat /\ Slots = 0 .. Card - 1 /\ keys \subseteq Keys /\ x \in Int /\ j \in Int
      /\ j <= Card - 1 /\ wpc \notin RemovePcs
  BY CardAssumption DEF PageInv, Types, Slots, Direction
<1>2. ASSUME NEW S, NEW K, Live(rec, S, K), K \subseteq Keys
      PROVE  \A l \in S : rec[l].ptr # Null
  BY <1>2, Values DEF Live
<1>3. ASSUME NEW n \in Int, Empty(rec, n) PROVE j < n
  BY <1>1, <1>3 DEF Empty
<1>4. CASE wpc \in {"idle", "open", "scan", "empty_key", "empty_ptr"}
  <2>1. Live(rec, 0 .. last_index, keys) /\ Empty(rec, last_index + 1) /\ last_index \in Int
    BY <1>1, <1>4 DEF PageInv, AtRest, Types
  <2>2. x \in 0 .. last_index
    BY <1>1, <1>3, <2>1
  <2> QED BY <1>1, <1>2, <2>1, <2>2
<1>5. CASE wpc \in {"empty_end", "insert_end"}
  <2>1. Live(rec, 0 .. num_entries, keys \cup {key}) /\ Empty(rec, num_entries + 1) /\ num_entries \in Int
        /\ key \in Keys
    BY <1>1, <1>5 DEF PageInv, Inserted, Types, Direction, InsertPcs
  <2>2. x \in 0 .. num_entries
    BY <1>1, <1>3, <2>1
  <2>3. keys \cup {key} \subseteq Keys
    BY <1>1, <2>1
  <2> QED BY <1>2, <2>1, <2>2, <2>3
<1>6. CASE wpc \in {"shift", "shift_key", "place_key", "place_ptr"}
  <2>1. Live(rec, (0 .. num_entries) \ {i + 1}, keys) /\ Empty(rec, num_entries + 1) /\ num_entries \in Int
        /\ i \in Int /\ i < num_entries
    BY <1>1, <1>6 DEF PageInv, Shifting, Types
  <2>2. x \in 0 .. num_entries /\ j \in 0 .. num_entries
    BY <1>1, <1>3, <2>1
  <2>3. \A l \in (0 .. num_entries) \ {i + 1} : rec[l].ptr # Null
    BY <1>1, <1>2, <2>1
  <2>4. CASE x # i + 1
    BY <2>2, <2>3, <2>4
  <2>5. CASE x = i + 1 /\ wpc # "shift"
    <3>1. rec[x].ptr = rec[x - 1].ptr
      BY <1>6, <2>5 DEF PageInv, Shifting, Doubled
    <3>2. x - 1 \in (0 .. num_entries) \ {i + 1}
      BY <1>1, <2>1, <2>2, <2>5
    <3> QED BY <2>3, <3>1, <3>2
  <2>6. CASE x = i + 1 /\ wpc = "shift"
    <3>1. CASE i + 1 = num_entries
      BY <2>2, <2>6, <3>1, <1>1
    <3>2. CASE i + 1 # num_entries
      <4>1. rec[i + 1] = rec[i + 2]
        BY <2>6, <3>2 DEF PageInv, Shifting
      <4>2. i + 2 \in (0 .. num_entries) \ {i + 1}
        BY <1>1, <2>1, <2>2, <2>6, <3>2
      <4> QED BY <2>3, <2>6, <4>1, <4>2
    <3> QED BY <3>1, <3>2
  <2> QED BY <2>4, <2>5, <2>6
<1> QED BY <1>1, <1>4, <1>5, <1>6 DEF Types, InsertPcs

(* Each key the writer is not at is in a slot, not right of last_index for *)
(* a backward search.                                                      *)
LEMMA KeyIsHere ==
  ASSUME PageInv, NEW k \in keys, k # key
  PROVE  \E j \in Slots : Here(j, k) /\ (~Forward(switch) => j <= last_index)
<1>1. ASSUME NEW S, NEW K, Live(rec, S, K), k \in K
      PROVE  \E j \in S : j \in Slots /\ Here(j, k)
  BY <1>1 DEF Live, Here
<1>2. Types /\ last_index \in Int /\ k \in keys \ {key} /\ k \in keys \cup {key}
  BY DEF PageInv, Types
<1>3. CASE wpc \in {"idle", "open", "scan", "empty_key", "empty_ptr"}
  <2>1. Live(rec, 0 .. last_index, keys)
    BY <1>3 DEF PageInv, AtRest
  <2> QED BY <1>1, <1>2, <2>1
<1>4. CASE wpc \in {"empty_end", "insert_end"}
  <2>1. Live(rec, 0 .. num_entries, keys \cup {key}) /\ Forward(switch)
    BY <1>4 DEF PageInv, Inserted, Direction, InsertPcs
  <2> QED BY <1>1, <1>2, <2>1
<1>5. CASE wpc \in {"shift", "shift_key", "place_key", "place_ptr"}
  <2>1. Live(rec, (0 .. num_entries) \ {i + 1}, keys) /\ Forward(switch)
    BY <1>5 DEF PageInv, Shifting, Direction, InsertPcs
  <2> QED BY <1>1, <1>2, <2>1
<1>6. CASE wpc \in {"pull_key", "pull_ptr"}
  <2>1. Live(rec, (0 .. last_index) \ {i}, keys \ {key})
    BY <1>6 DEF PageInv, Pulling
  <2> QED BY <1>1, <1>2, <2>1
<1>7. CASE wpc = "remove_end"
  <2>1. Live(rec, 0 .. last_index - 1, keys \ {key})
    BY <1>7 DEF PageInv, Removed
  <2> QED BY <1>1, <1>2, <2>1
<1> QED BY <1>2, <1>3, <1>4, <1>5, <1>6, <1>7 DEF Types, InsertPcs, RemovePcs

(* What a store of an insert does to slot i + 1: it takes the pointer of   *)
(* the slot on its left, then its key, and in the end the key inserted.    *)
FromLeft(w) ==
  /\ wpc = "shift"
  /\ rec[w].ptr = Null \/ (w + 1 \in Slots /\ rec[w] = rec[w + 1])
  /\ rec'[w].key = rec[w].key
  /\ IF w > 0 THEN rec'[w].ptr = rec[w - 1].ptr ELSE rec'[w].ptr = Null
KeyFromLeft(w) ==
  w > 0 /\ rec[w].ptr = rec[w - 1].ptr /\ rec'[w].ptr = rec[w].ptr /\ rec'[w].key = rec[w - 1].key
OwnKey(w) ==
  /\ Doubled(rec, w) /\ rec'[w].key = key
  /\ rec'[w].ptr = rec[w].ptr \/ rec'[w].ptr = ValueOf[key]

LEMMA InsertStore ==
  ASSUME PageInv, PageInv', Forward(switch), WriterStep
  PROVE  \/ rec' = rec
         \/ /\ i + 1 \in Slots /\ key \in Keys /\ \A j \in Slots : j # i + 1 => rec'[j] = rec[j]
            /\ FromLeft(i + 1) \/ KeyFromLeft(i + 1) \/ OwnKey(i + 1)
            /\ i + 1 > 0 => i \in Slots /\ Holds(i) /\ rec[i].key # key
                            /\ \A j \in Slots : i + 1 < j /\ rec[j].ptr # Null => rec[j].key # rec[i].key
<1>1. Types /\ rec \in [Slots -> Record] /\ Card \in Nat /\ Slots = 0 .. Card - 1 /\ keys \subseteq Keys
      /\ last_index + 1 \in Slots /\ i \in Int /\ num_entries \in Nat /\ wpc \notin RemovePcs
  BY LastSlot DEF PageInv, Types, Slots, Direction
<1>2. CASE OpenSlot
  <2>1. Empty(rec, last_index + 1) /\ num_entries = last_index + 1 /\ num_entries < Card - 1
    BY <1>1, <1>2 DEF OpenSlot, Step, PageInv, AtRest, Direction, InsertPcs
  <2>2. num_entries + 1 \in Slots /\ rec[num_entries + 1].ptr = Null /\ rec[num_entries].ptr = Null
    BY <1>1, <2>1 DEF Empty
  <2> QED BY <1>1, <1>2, <2>2, ClearedAgain DEF OpenSlot
<1>3. CASE EmptyEnd
  <2>1. Empty(rec, num_entries + 1) /\ num_entries = 0
    BY <1>3 DEF EmptyEnd, Step, PageInv, Inserted, FirstKey
  <2>2. 1 \in Slots /\ rec[1].ptr = Null
    BY <1>1, <2>1, CardAssumption DEF Empty
  <2> QED BY <1>1, <1>3, <2>2, ClearedAgain DEF EmptyEnd
<1>4. CASE EmptyKey \/ EmptyPtr
  <2>1. i + 1 = 0 /\ key \in Keys /\ 0 \in Slots /\ (EmptyPtr => rec[0].key = key)
    BY <1>1, <1>4, CardAssumption DEF EmptyKey, EmptyPtr, Step, PageInv, FirstKey, Direction, InsertPcs
  <2>2. rec[0].ptr = Null
    <3>1. Empty(rec, last_index + 1) /\ num_entries = last_index + 1 /\ num_entries = 0
      BY <1>1, <1>4 DEF EmptyKey, EmptyPtr, Step, PageInv, AtRest, FirstKey, Direction, InsertPcs
    <3> QED BY <1>1, <3>1, CardAssumption DEF Empty
  <2>3. ValueOf[key] \in Ptr
    BY <2>1, Values
  <2>4. OwnKey(0) /\ \A j \in Slots : j # 0 => rec'[j] = rec[j]
    <3>1. CASE EmptyKey
      BY <1>1, <2>1, <2>2, <3>1, StoreKey DEF EmptyKey, OwnKey, Doubled
    <3>2. CASE EmptyPtr
      BY <1>1, <2>1, <2>2, <2>3, <3>2, StorePtr DEF EmptyPtr, OwnKey, Doubled
    <3> QED BY <1>4, <3>1, <3>2
  <2> QED BY <2>1, <2>4
<1>5. CASE InsertEnd
  BY <1>5 DEF InsertEnd
<1>6. CASE ScanOn \/ Unlink \/ PullKey \/ PullPtr \/ RemoveEnd
  BY <1>1, <1>6 DEF ScanOn, Unlink, PullKey, PullPtr, RemoveEnd, Step, RemovePcs
<1>7. CASE ShiftPtr \/ ShiftKey \/ PlaceLeft \/ PlaceKey \/ PlacePtr
  <2>1. wpc \in {"shift", "shift_key", "place_key", "place_ptr"}
    BY <1>7 DEF ShiftPtr, ShiftKey, PlaceLeft, PlaceKey, PlacePtr, Step
  <2>2. /\ key \in Keys \ keys /\ num_entries < Card - 1 /\ i \in -1 .. num_entries - 1
        /\ Live(rec, (0 .. num_entries) \ {i + 1}, keys) /\ Empty(rec, num_entries + 1)
        /\ i + 1 \in Slots /\ Shifting
    BY <2>1, ShiftingIs
  <2>3. PICK w : w = i + 1
    OBVIOUS
  <2>4. w \in Slots /\ w - 1 = i /\ w \in Int
    BY <1>1, <2>2, <2>3
  <2>5. w > 0 => i \in Slots /\ Holds(i) /\ rec[i].key # key
    <3>1. w > 0 => i \in (0 .. num_entries) \ {w} /\ i \in Slots
      BY <1>1, <2>2, <2>4
    <3> QED BY <1>1, <2>2, <2>3, <3>1 DEF Live, Holds
  <2>6. ASSUME NEW j \in Slots, w > 0, w < j, rec[j].ptr # Null
        PROVE  rec[j].key # rec[i].key
    <3>1. j \in Int /\ j <= Card - 1
      BY <1>1
    <3>2. j <= num_entries
      BY <1>1, <2>2, <2>6, <3>1 DEF Empty
    <3>3. j \in (0 .. num_entries) \ {w} /\ i \in (0 .. num_entries) \ {w} /\ i < j
      BY <1>1, <2>2, <2>4, <2>6, <3>1, <3>2
    <3>4. rec[i].key < rec[j].key /\ rec[i].key \in keys /\ rec[j].key \in keys
      BY <2>2, <2>3, <3>3 DEF Live
    <3>5. rec[i].key \in Nat /\ rec[j].key \in Nat
      BY <1>1, <3>4, KeysAssumption
    <3> QED BY <3>4, <3>5
  <2>7. Null \in Ptr /\ \A j \in Slots : rec[j].key \in Keys \cup {Top} /\ rec[j].ptr \in Ptr
    BY <2>1, ShiftingIs DEF Ptr
  <2>8. ValueOf[key] \in Ptr /\ key \in Keys
    BY <2>2, Values
  <2>9. wpc = "shift" => rec[w].ptr = Null \/ (w + 1 \in Slots /\ rec[w] = rec[w + 1])
    <3>1. i + 2 = w + 1 /\ w <= num_entries
      BY <1>1, <2>2, <2>3
    <3>2. w # num_entries => w + 1 \in Slots
      BY <1>1, <2>2, <2>4, <3>1
    <3> QED BY <2>2, <2>3, <3>1, <3>2 DEF Shifting
  <2>10. wpc # "shift" => Doubled(rec, w)
    BY <2>1, <2>2, <2>3 DEF Shifting
  <2>11. CASE ShiftPtr
    <3>1. Store(w, "ptr", rec[i].ptr) /\ i >= 0 /\ wpc = "shift"
      BY <2>3, <2>11 DEF ShiftPtr, Step, LeftOfRecord
    <3>2. w > 0 /\ i \in Slots
      BY <2>4, <3>1, <2>5
    <3>3. FromLeft(w) /\ \A j \in Slots : j # w => rec'[j] = rec[j]
      BY <1>1, <2>4, <2>7, <2>9, <3>1, <3>2, StorePtr DEF FromLeft
    <3> QED BY <2>3, <2>4, <2>5, <2>6, <2>8, <3>3
  <2>12. CASE ShiftKey
    <3>1. Store(w, "key", rec[i].key) /\ wpc = "shift_key" /\ i >= 0
      BY <2>2, <2>3, <2>12 DEF ShiftKey, Step, Shifting
    <3>2. w > 0 /\ i \in Slots /\ rec[w].ptr = rec[w - 1].ptr
      BY <2>4, <2>5, <2>10, <3>1 DEF Doubled
    <3>3. KeyFromLeft(w) /\ \A j \in Slots : j # w => rec'[j] = rec[j]
      BY <1>1, <2>4, <2>7, <3>1, <3>2, StoreKey DEF KeyFromLeft
    <3> QED BY <2>3, <2>4, <2>5, <2>6, <2>8, <3>3
  <2>13. CASE PlaceLeft
    <3>1. Store(w, "ptr", IF i < 0 THEN Null ELSE rec[i].ptr) /\ wpc = "shift"
      BY <2>3, <2>13 DEF PlaceLeft, Step
    <3>2. i < 0 <=> ~(w > 0)
      BY <1>1, <2>4
    <3>3. (IF i < 0 THEN Null ELSE rec[i].ptr) \in Ptr
      BY <2>5, <2>7, <3>2
    <3>4. FromLeft(w) /\ \A j \in Slots : j # w => rec'[j] = rec[j]
      BY <1>1, <2>4, <2>9, <3>1, <3>2, <3>3, StorePtr DEF FromLeft
    <3> QED BY <2>3, <2>4, <2>5, <2>6, <2>8, <3>4
  <2>14. CASE PlaceKey
    <3>1. Store(w, "key", key) /\ wpc # "shift"
      BY <2>3, <2>14 DEF PlaceKey, Step
    <3>2. OwnKey(w) /\ \A j \in Slots : j # w => rec'[j] = rec[j]
      BY <1>1, <2>4, <2>8, <2>10, <3>1, StoreKey DEF OwnKey
    <3> QED BY <2>3, <2>4, <2>5, <2>6, <2>8, <3>2
  <2>15. CASE PlacePtr
    <3>1. Store(w, "ptr", ValueOf[key]) /\ wpc = "place_ptr" /\ rec[w].key = key
      BY <2>2, <2>3, <2>15 DEF PlacePtr, Step, Shifting
    <3>2. OwnKey(w) /\ \A j \in Slots : j # w => rec'[j] = rec[j]
      BY <1>1, <2>4, <2>8, <2>10, <3>1, StorePtr DEF OwnKey
    <3> QED BY <2>3, <2>4, <2>5, <2>6, <2>8, <3>2
  <2> QED BY <1>7, <2>11, <2>12, <2>13, <2>14, <2>15
<1> QED BY <1>1, <1>2, <1>3, <1>4, <1>5, <1>6, <1>7 DEF WriterStep

(* What is ahead of a search stays ahead.                                  *)
LEMMA AheadKept ==
  ASSUME PageInv, PageInv', Forward(switch), WriterStep, NEW k \in Keys, k # key, NEW x \in Slots, Ahead(x, k)
  PROVE  Ahead(x, k)'
<1>1. CASE rec' = rec
  BY <1>1 DEF Ahead, Here
<1>2. CASE rec' # rec
  <2>1. PICK w : w = i + 1
    OBVIOUS
  <2>2. /\ w \in Slots /\ key \in Keys /\ (\A j \in Slots : j # w => rec'[j] = rec[j])
        /\ FromLeft(w) \/ KeyFromLeft(w) \/ OwnKey(w)
        /\ w > 0 => w - 1 \in Slots /\ Holds(w - 1)
                    /\ \A j \in Slots : w < j /\ rec[j].ptr # Null => rec[j].key # rec[w - 1].key
    <3>1. w - 1 = i
      BY <2>1 DEF PageInv, Types
    <3>2. /\ i + 1 \in Slots /\ key \in Keys /\ (\A j \in Slots : j # i + 1 => rec'[j] = rec[j])
          /\ FromLeft(i + 1) \/ KeyFromLeft(i + 1) \/ OwnKey(i + 1)
          /\ i + 1 > 0 => i \in Slots /\ Holds(i)
                          /\ \A j \in Slots : i + 1 < j /\ rec[j].ptr # Null => rec[j].key # rec[i].key
      BY <1>2, InsertStore
    <3> QED BY <2>1, <3>1, <3>2
  <2>3. ValueOf[k] # Null /\ ValueOf[k] # ValueOf[key] /\ Slots \subseteq Int
        /\ \A l \in Keys : ValueOf[l] = ValueOf[k] => l = k
    BY <2>2, Values DEF Slots
  <2>4. w > 0 /\ rec[w - 1].ptr = ValueOf[k] => rec[w - 1].key = k /\ Here(w - 1, k)'
    BY <2>2, <2>3 DEF Holds, Here
  <2>5. PICK j \in Slots : x <= j /\ Here(j, k)
    BY DEF Ahead
  <2>6. rec[j].ptr # Null /\ rec[j].key = k
    BY <2>3, <2>5 DEF Here
  <2>7. \E l \in Slots : x <= l /\ Here(l, k)'
    <3>1. CASE j # w
      BY <2>2, <2>5, <3>1 DEF Here
    <3>2. CASE j = w /\ FromLeft(w)
      <4>1. w + 1 \in Slots /\ rec[w] = rec[w + 1] /\ w + 1 # w
        BY <2>3, <2>6, <2>2, <3>2 DEF FromLeft
      <4>2. Here(w + 1, k)'
        BY <2>2, <2>5, <3>2, <4>1 DEF Here
      <4>3. x <= w + 1
        BY <2>3, <2>5, <3>2
      <4> QED BY <4>1, <4>2, <4>3
    <3>3. CASE j = w /\ KeyFromLeft(w)
      <4>1. rec[w - 1].key = k
        BY <2>4, <2>5, <3>3 DEF KeyFromLeft, Here
      <4>2. Here(w, k)'
        BY <2>5, <3>3, <4>1 DEF KeyFromLeft, Here
      <4> QED BY <2>5, <3>3, <4>2
    <3>4. CASE j = w /\ OwnKey(w)
      <4>1. w > 0 /\ rec[w - 1].ptr = ValueOf[k]
        BY <2>2, <2>3, <2>5, <3>4 DEF OwnKey, Doubled, Here, Slots
      <4>2. x # w
        BY <4>1 DEF Ahead
      <4>3. x <= w - 1 /\ w - 1 \in Slots
        BY <2>2, <2>3, <2>5, <3>4, <4>1, <4>2
      <4> QED BY <2>4, <4>1, <4>3
    <3> QED BY <2>2, <3>1, <3>2, <3>3, <3>4
  <2>8. x > 0 => rec'[x - 1].ptr # ValueOf[k]
    <3> SUFFICES ASSUME x > 0 PROVE rec'[x - 1].ptr # ValueOf[k]
      OBVIOUS
    <3>1. rec[x - 1].ptr # ValueOf[k] /\ x - 1 \in Slots
      BY CardAssumption DEF Ahead, Slots
    <3>2. CASE x - 1 # w
      BY <2>2, <3>1, <3>2
    <3>3. CASE x - 1 = w /\ FromLeft(w)
      <4>1. w < j
        BY <2>3, <2>5, <3>3
      <4>2. w > 0 => rec[w - 1].ptr # ValueOf[k]
        BY <2>2, <2>4, <2>6, <4>1
      <4> QED BY <2>3, <3>3, <4>2 DEF FromLeft
    <3>4. CASE x - 1 = w /\ (KeyFromLeft(w) \/ OwnKey(w))
      BY <2>3, <3>1, <3>4 DEF KeyFromLeft, OwnKey
    <3> QED BY <2>2, <3>2, <3>3, <3>4
  <2> QED BY <2>7, <2>8 DEF Ahead
<1> QED BY <1>1, <1>2

(* A forward search at rest: what its steps rely on.                       *)
LEMMA AheadFacts ==
  ASSUME PageInv, Forward(switch), NEW k \in Keys, k # key, NEW x \in Slots, Ahead(x, k)
  PROVE  /\ x > 0 => rec[x].ptr # Null
         /\ rec[x].ptr = ValueOf[k] => rec[x].key = k
         /\ x + 1 \in Slots /\ ~Here(x, k) /\ rec[x].ptr # ValueOf[k] => Ahead(x + 1, k)
<1>1. PICK j \in Slots : x <= j /\ Here(j, k)
  BY DEF Ahead
<1>2. ValueOf[k] # Null /\ Slots \subseteq Int /\ \A l \in Keys : ValueOf[l] = ValueOf[k] => l = k
  BY Values DEF Slots
<1>3. rec[j].ptr # Null
  BY <1>1, <1>2 DEF Here
<1>4. x > 0 => rec[x].ptr # Null
  BY <1>1, <1>3, NoGap
<1>5. ASSUME rec[x].ptr = ValueOf[k] PROVE rec[x].key = k
  <2>1. Holds(x) \/ (x > 0 /\ rec[x].ptr = rec[x - 1].ptr)
    BY <1>2, <1>5, SlotHolds
  <2>2. ~(x > 0 /\ rec[x].ptr = rec[x - 1].ptr)
    BY <1>5 DEF Ahead
  <2> QED BY <1>2, <1>5, <2>1, <2>2 DEF Holds
<1>6. ASSUME x + 1 \in Slots, ~Here(x, k), rec[x].ptr # ValueOf[k]
      PROVE  Ahead(x + 1, k)
  <2>1. PICK y : y = x + 1
    OBVIOUS
  <2>2. y <= j /\ y - 1 = x
    BY <1>1, <1>2, <1>6, <2>1
  <2>3. Ahead(y, k)
    BY <1>1, <1>6, <2>2 DEF Ahead
  <2> QED BY <2>1, <2>3
<1> QED BY <1>4, <1>5, <1>6

(* A store of an insert keeps what a forward search knows.                 *)
LEMMA ForwardKept ==
  ASSUME PageInv, PageInv', Forward(switch), WriterStep,
         NEW at, NEW s \in ReaderType, s.key \in Keys, s.key # key, s.key # key', wpc # "idle" => s.met # {},
         at \in AtSlot => s.i < Card - 1,
         at \in AtSlot \cup {"test_end"}, ForwardSearch(at, s)
  PROVE  ForwardSearch(at, s)'
<1> DEFINE k == s.key
           x == s.i
<1>1. k \in Keys /\ k # key /\ x \in Slots /\ Slots \subseteq Int /\ x >= 0
  BY DEF ReaderType, Slots
<1>2. k \in keys' <=> k \in keys
  BY <1>1 DEF WriterStep, EmptyKey, EmptyPtr, EmptyEnd, OpenSlot, ShiftPtr, ShiftKey, PlaceLeft, PlaceKey,
     PlacePtr, InsertEnd, ScanOn, Unlink, PullKey, PullPtr, RemoveEnd, Frame
<1>3. k \in keys => Ahead(x, k)
  BY DEF ForwardSearch
<1>4. k \in keys => Ahead(x, k)'
  <2> HIDE DEF k, x
  <2> QED BY <1>1, <1>3, AheadKept
<1>5. ASSUME Untouched(s)' PROVE Untouched(s)
  <2> DEFINE shifting == {"shift", "shift_key", "place_key", "place_ptr"}
  <2>1. wpc # "idle" /\ wpc' # "open"
    BY DEF WriterStep, EmptyKey, EmptyPtr, EmptyEnd, OpenSlot, ShiftPtr, ShiftKey, PlaceLeft,
       PlaceKey, PlacePtr, InsertEnd, ScanOn, Unlink, PullKey, PullPtr, RemoveEnd, Step
  <2>4. wpc' \in shifting => wpc = "open" \/ (wpc \in shifting /\ (i' = i \/ i' = i - 1))
    BY DEF WriterStep, EmptyKey, EmptyPtr, EmptyEnd, OpenSlot, ShiftPtr, ShiftKey, PlaceLeft,
       PlaceKey, PlacePtr, InsertEnd, ScanOn, Unlink, PullKey, PullPtr, RemoveEnd, Step
  <2>5. i \in Int /\ i' \in Int
    <3>1. i \in -1 .. Card /\ i' \in -1 .. Card
      BY DEF PageInv, Types
    <3> QED BY <3>1, CardAssumption
  <2>6. x \in Int
    <3> HIDE DEF x
    <3> QED BY <1>1
  <2>2. wpc' \in shifting /\ x <= i' + 1
    BY <1>5, <2>1, Zenon DEF Untouched
  <2>3. wpc = "open" \/ (wpc \in shifting /\ x <= i + 1)
    BY <2>2, <2>4, <2>5, <2>6
  <2> QED BY <2>3 DEF Untouched
<1>6. CASE rec' = rec
  BY <1>2, <1>4, <1>5, <1>6 DEF ForwardSearch, Takes, Took
<1>7. CASE rec' # rec
  <2>1. PICK w : w = i + 1
    OBVIOUS
  <2>2. /\ w \in Slots /\ w - 1 = i /\ key \in Keys /\ (\A j \in Slots : j # w => rec'[j] = rec[j])
        /\ FromLeft(w) \/ KeyFromLeft(w) \/ OwnKey(w)
        /\ w > 0 => w - 1 \in Slots /\ Holds(w - 1) /\ rec[w - 1].key # key
    <3>1. w - 1 = i
      BY <2>1 DEF PageInv, Types
    <3>2. /\ i + 1 \in Slots /\ key \in Keys /\ (\A j \in Slots : j # i + 1 => rec'[j] = rec[j])
          /\ FromLeft(i + 1) \/ KeyFromLeft(i + 1) \/ OwnKey(i + 1)
          /\ i + 1 > 0 => i \in Slots /\ Holds(i) /\ rec[i].key # key
      BY <1>7, InsertStore
    <3> QED BY <2>1, <3>1, <3>2
  <2>3. ValueOf[key] # Null /\ w >= 0 /\ (w > 0 => rec[w - 1].ptr # Null)
    BY <2>2, Values DEF Slots, Holds
  <2>4. at \in AtSlot /\ x > 0 => rec'[x].ptr # Null
    <3>1. at \in AtSlot /\ x > 0 => rec[x].ptr # Null
      BY DEF ForwardSearch
    <3> QED BY <1>1, <2>2, <2>3, <3>1 DEF FromLeft, KeyFromLeft, OwnKey
  <2>5. rec[x].key # k => rec'[x].key # k
    <3> SUFFICES ASSUME rec[x].key # k, rec'[x].key = k, x = w PROVE FALSE
      BY <1>1, <2>2
    <3>1. KeyFromLeft(w)
      BY <2>2 DEF FromLeft, OwnKey
    <3>2. rec[w - 1].key = k /\ w > 0
      BY <3>1 DEF KeyFromLeft
    <3>3. k \in keys /\ rec[w - 1].ptr = ValueOf[k]
      BY <2>2, <3>2 DEF Holds
    <3> QED BY <1>3, <3>2, <3>3 DEF Ahead
  <2>6. at = "ptr" => Takes(s)'
    <3> SUFFICES ASSUME at = "ptr", rec'[x].key = k
                 PROVE  rec'[x].ptr \in {s.left, Null} \/ (k \in keys /\ rec'[x].ptr = ValueOf[k])
      BY <1>2 DEF Takes
    <3>1. rec[x].key = k
      BY <2>5
    <3>2. rec[x].ptr \in {s.left, Null} \/ (k \in keys /\ rec[x].ptr = ValueOf[k])
      BY <3>1 DEF ForwardSearch, Takes
    <3>3. CASE rec'[x].ptr = rec[x].ptr
      BY <3>2, <3>3
    <3>4. CASE rec'[x].ptr # rec[x].ptr
      <4>1. x = w /\ FromLeft(w)
        BY <1>1, <2>2, <3>4 DEF KeyFromLeft, OwnKey
      <4>2. Untouched(s)
        <5>1. wpc = "shift" /\ s.i <= i + 1
          <6>1. x = i + 1 /\ x \in Int
            BY <1>1, <2>1, <4>1
          <6> QED BY <4>1, <6>1 DEF FromLeft
        <5> QED BY <5>1 DEF Untouched
      <4>3. x > 0 => s.left = rec[x - 1].ptr
        BY <4>2 DEF ForwardSearch
      <4>4. x = 0 => s.left = Null
        BY DEF ForwardSearch
      <4> QED BY <1>1, <4>1, <4>3, <4>4 DEF FromLeft
    <3> QED BY <3>3, <3>4
  <2>7. at = "ptr" /\ x > 0 /\ Untouched(s)' => s.left = rec'[x - 1].ptr
    <3> SUFFICES ASSUME at = "ptr", x > 0, Untouched(s)' PROVE s.left = rec'[x - 1].ptr
      OBVIOUS
    <3>1. Untouched(s) /\ s.left = rec[x - 1].ptr
      BY <1>5 DEF ForwardSearch
    <3>2. x - 1 # w /\ x - 1 \in Slots
      <4>1. wpc \in {"idle", "open"} => rec' = rec
        <5>1. wpc = "open" => OpenSlot
          BY DEF WriterStep, EmptyKey, EmptyPtr, EmptyEnd, ShiftPtr, ShiftKey, PlaceLeft, PlaceKey,
             PlacePtr, InsertEnd, ScanOn, Unlink, PullKey, PullPtr, RemoveEnd, Step
        <5>2. wpc # "idle"
          BY DEF WriterStep, EmptyKey, EmptyPtr, EmptyEnd, OpenSlot, ShiftPtr, ShiftKey, PlaceLeft, PlaceKey,
             PlacePtr, InsertEnd, ScanOn, Unlink, PullKey, PullPtr, RemoveEnd, Step
        <5>3. wpc = "open" => rec[num_entries + 1].ptr = Null /\ rec[num_entries].ptr = Null
                              /\ num_entries + 1 \in Slots
          <6>1. wpc = "open" => Empty(rec, last_index + 1) /\ num_entries = last_index + 1
                                /\ num_entries < Card - 1 /\ num_entries \in Nat
            BY DEF PageInv, AtRest, Direction, InsertPcs, Types
          <6> QED BY <6>1, CardAssumption DEF Empty, Slots
        <5> QED BY <5>1, <5>2, <5>3, ClearedAgain DEF OpenSlot, PageInv, Types
      <4>2. x <= w
        BY <1>7, <2>1, <3>1, <4>1 DEF Untouched
      <4> QED BY <1>1, <2>2, <4>2, CardAssumption DEF Slots
    <3> QED BY <2>2, <3>1, <3>2
  <2>8. at = "again" => Took(s)'
    BY <1>2, <2>5 DEF ForwardSearch, Took
  <2> QED BY <1>2, <1>4, <2>4, <2>6, <2>7, <2>8 DEF ForwardSearch
<1> QED BY <1>6, <1>7

(* What a store of a removal does to slot i: the slot with the key is      *)
(* unlinked; then each slot takes the key of the slot on its right, and    *)
(* then its pointer.                                                       *)
Unlinked(w) == rec[w].key = key /\ rec'[w].key = key
KeyPulled(w) ==
  /\ wpc = "pull_key" /\ wpc' = "pull_ptr" /\ i' = i
  /\ Doubled(rec, w) /\ rec'[w].ptr = rec[w].ptr
PtrPulled(w) ==
  /\ wpc = "pull_ptr" /\ Doubled(rec, w) /\ rec'[w].key = rec[w].key
  /\ rec'[w].ptr = Null \/ (rec[w].key \in keys /\ rec'[w].ptr = ValueOf[rec[w].key])

LEMMA RemoveStore ==
  ASSUME PageInv, PageInv', ~Forward(switch), WriterStep
  PROVE  \/ rec' = rec
         \/ /\ i \in Slots /\ \A j \in Slots : j # i => rec'[j] = rec[j]
            /\ Unlinked(i) \/ KeyPulled(i) \/ PtrPulled(i)
            /\ KeyPulled(i) \/ PtrPulled(i) => (i > 0 => i - 1 \in Slots /\ Holds(i - 1))
<1>1. Types /\ rec \in [Slots -> Record] /\ Card \in Nat /\ Slots = 0 .. Card - 1 /\ keys \subseteq Keys
      /\ last_index + 1 \in Slots /\ last_index \in Int /\ i \in Int /\ wpc \notin InsertPcs
  BY LastSlot DEF PageInv, Types, Slots, Direction
<1>2. CASE Unlink
  <2>1. wpc = "scan" /\ rec[i].key = key /\ rec[i].ptr # Null
    BY <1>2 DEF Unlink, Step
  <2>2. Live(rec, 0 .. last_index, keys) /\ i >= 0 /\ key \in keys /\ \A j \in 0 .. i - 1 : rec[j].key # key
    BY <2>1 DEF PageInv, AtRest, Direction, RemovePcs
  <2>3. i \in Slots
    <3>1. PICK j \in 0 .. last_index : rec[j].key = key
      BY <2>2 DEF Live
    <3> QED BY <1>1, <2>2, <3>1
  <2>4. i = 0 \/ i - 1 \in Slots
    BY <1>1, <2>3
  <2>5. (IF i = 0 THEN Null ELSE rec[i - 1].ptr) \in Ptr
    BY <1>1, <2>4 DEF Record, Ptr
  <2>6. rec'[i].key = rec[i].key /\ \A j \in Slots : j # i => rec'[j] = rec[j]
    BY <1>1, <1>2, <2>3, <2>5, StorePtr DEF Unlink
  <2>7. wpc' = "pull_key"
    BY <1>2 DEF Unlink, Step
  <2> QED BY <2>1, <2>3, <2>6, <2>7, <1>2 DEF Unlinked, KeyPulled, PtrPulled, Unlink
<1>3. ASSUME wpc \in {"pull_key", "pull_ptr"}
      PROVE  /\ last_index \in Nat /\ i \in 0 .. last_index /\ i \in Slots /\ i + 1 \in Slots
             /\ Live(rec, (0 .. last_index) \ {i}, keys \ {key}) /\ Empty(rec, last_index + 1)
             /\ Doubled(rec, i)
             /\ \A j \in Slots : rec[j].key \in Keys \cup {Top} /\ rec[j].ptr \in Ptr
             /\ i > 0 => i - 1 \in Slots /\ Holds(i - 1)
  <2>1. /\ last_index \in Nat /\ last_index < Card - 1 /\ i \in 0 .. last_index
        /\ Live(rec, (0 .. last_index) \ {i}, keys \ {key}) /\ Empty(rec, last_index + 1)
        /\ Doubled(rec, i) /\ i \in Slots /\ i + 1 \in Slots
        /\ \A j \in Slots : rec[j].key \in Keys \cup {Top} /\ rec[j].ptr \in Ptr
    BY <1>3, RemovingIs
  <2>2. i > 0 => i - 1 \in Slots /\ i - 1 \in (0 .. last_index) \ {i}
    BY <1>1, <2>1
  <2> QED BY <1>1, <2>1, <2>2 DEF Live, Holds
<1>4. CASE PullKey
  <2>1. wpc = "pull_key" /\ wpc' = "pull_ptr" /\ i' = i /\ Store(i, "key", rec[i + 1].key)
    BY <1>4 DEF PullKey, Step
  <2>2. rec'[i].ptr = rec[i].ptr /\ \A j \in Slots : j # i => rec'[j] = rec[j]
    BY <1>1, <1>3, <2>1, StoreKey
  <2> QED BY <1>3, <2>1, <2>2 DEF KeyPulled
<1>5. CASE PullPtr
  <2>1. wpc = "pull_ptr" /\ Store(i, "ptr", rec[i + 1].ptr)
    BY <1>5 DEF PullPtr
  <2>2. rec'[i].ptr = rec[i + 1].ptr /\ rec'[i].key = rec[i].key /\ \A j \in Slots : j # i => rec'[j] = rec[j]
    BY <1>1, <1>3, <2>1, StorePtr
  <2>3. rec[i].key = rec[i + 1].key
    BY <2>1 DEF PageInv, Pulling
  <2>4. rec[i + 1].ptr = Null \/ (rec[i + 1].key \in keys /\ rec[i + 1].ptr = ValueOf[rec[i + 1].key])
    <3>1. CASE i = last_index
      BY <1>1, <1>3, <2>1, <3>1 DEF Empty
    <3>2. CASE i # last_index
      <4>1. i + 1 \in (0 .. last_index) \ {i}
        BY <1>3, <2>1, <3>2
      <4> QED BY <1>3, <2>1, <4>1 DEF Live
    <3> QED BY <3>1, <3>2
  <2> QED BY <1>3, <2>1, <2>2, <2>3, <2>4 DEF PtrPulled
<1>6. CASE ScanOn \/ InsertEnd \/ RemoveEnd
  BY <1>6 DEF ScanOn, InsertEnd, RemoveEnd
<1>7. CASE EmptyKey \/ EmptyPtr \/ EmptyEnd \/ OpenSlot \/ ShiftPtr \/ ShiftKey \/ PlaceLeft \/ PlaceKey \/ PlacePtr
  BY <1>1, <1>7 DEF EmptyKey, EmptyPtr, EmptyEnd, OpenSlot, ShiftPtr, ShiftKey, PlaceLeft, PlaceKey, PlacePtr,
     Step, InsertPcs
<1> QED BY <1>2, <1>4, <1>5, <1>6, <1>7 DEF WriterStep

(* What is behind a backward search stays behind.                          *)
LEMMA BehindKept ==
  ASSUME PageInv, PageInv', ~Forward(switch), WriterStep, NEW k \in Keys, k # key, NEW x \in Int, Behind(x, k)
  PROVE  Behind(x, k)'
<1>1. CASE rec' = rec
  BY <1>1 DEF Behind, Here
<1>2. CASE rec' # rec
  <2>1. PICK w : w = i
    OBVIOUS
  <2>2. /\ w \in Slots /\ \A j \in Slots : j # w => rec'[j] = rec[j]
        /\ Unlinked(w) \/ KeyPulled(w) \/ PtrPulled(w)
        /\ KeyPulled(w) \/ PtrPulled(w) => (w > 0 => w - 1 \in Slots /\ Holds(w - 1))
    BY <1>2, <2>1, RemoveStore
  <2>3. PICK j \in Slots : j <= x /\ Here(j, k)
    BY DEF Behind
  <2>4. CASE j # w
    BY <2>2, <2>3, <2>4 DEF Behind, Here
  <2>5. CASE j = w
    <3>1. ~Unlinked(w)
      BY <2>3, <2>5 DEF Unlinked, Here
    <3>2. Doubled(rec, w) /\ rec[w].ptr = ValueOf[k] /\ ValueOf[k] # Null
      BY <2>2, <2>3, <2>5, <3>1, Values DEF KeyPulled, PtrPulled, Here
    <3>3. w > 0 /\ w - 1 \in Slots /\ Holds(w - 1) /\ rec[w - 1].ptr = ValueOf[k]
      BY <2>2, <3>1, <3>2 DEF Doubled, Slots
    <3>4. rec[w - 1].key = k
      BY <3>3, Values DEF Holds
    <3>5. w - 1 # w
      BY <3>3 DEF Slots
    <3>6. Here(w - 1, k)'
      BY <2>2, <3>3, <3>4, <3>5 DEF Here
    <3>7. w - 1 <= j
      BY <2>5, <3>3 DEF Slots
    <3> QED
      <4>1. PICK y : y = w - 1
        OBVIOUS
      <4>2. y \in Slots /\ Here(y, k)' /\ y <= j /\ j <= x
        BY <2>3, <3>3, <3>6, <3>7, <4>1
      <4> QED BY <4>2 DEF Behind, Slots
  <2> QED BY <2>4, <2>5
<1> QED BY <1>1, <1>2

(* What a backward search relies on.                                       *)
LEMMA BehindFacts ==
  ASSUME PageInv, NEW k \in Keys, k # key, NEW x \in Slots
  PROVE  /\ rec[x].ptr = ValueOf[k] => k \in keys /\ Behind(x, k)
         /\ Behind(x, k) /\ ~Here(x, k) => x > 0 /\ x - 1 \in Slots /\ Behind(x - 1, k)
<1>1. ValueOf[k] # Null /\ Slots \subseteq Int /\ x >= 0 /\ \A l \in Keys : ValueOf[l] = ValueOf[k] => l = k
  BY Values DEF Slots
<1>2. ASSUME rec[x].ptr = ValueOf[k] PROVE k \in keys /\ Behind(x, k)
  <2>1. CASE Holds(x)
    BY <1>1, <1>2, <2>1 DEF Holds, Behind, Here
  <2>2. CASE x > 0 /\ x - 1 \in Slots /\ rec[x].ptr = rec[x - 1].ptr /\ Holds(x - 1)
    <3>1. PICK y : y = x - 1
      OBVIOUS
    <3>2. y \in Slots /\ y <= x /\ Holds(y) /\ rec[y].ptr = ValueOf[k]
      BY <1>1, <1>2, <2>2, <3>1
    <3> QED BY <1>1, <3>2 DEF Holds, Behind, Here
  <2> QED BY <1>1, <1>2, <2>1, <2>2, SlotHolds
<1>3. ASSUME Behind(x, k), ~Here(x, k)
      PROVE  x > 0 /\ x - 1 \in Slots /\ Behind(x - 1, k)
  <2>1. PICK j \in Slots : j <= x /\ Here(j, k) /\ j # x
    BY <1>3 DEF Behind
  <2>2. j <= x - 1 /\ x > 0 /\ x - 1 \in Slots
    BY <2>1, CardAssumption DEF Slots
  <2> QED BY <2>1, <2>2 DEF Behind
<1> QED BY <1>2, <1>3

(* What a slot with the key can have for a pointer.                        *)
LEMMA SlotTakes ==
  ASSUME PageInv, NEW k \in Keys, k # key, NEW x \in Slots, rec[x].key = k
  PROVE  \/ rec[x].ptr = Null
         \/ k \in keys /\ rec[x].ptr = ValueOf[k]
         \/ x > 0 /\ rec[x].ptr = rec[x - 1].ptr
BY SlotHolds DEF Holds

(* A store of a removal keeps what a backward search knows.                *)
LEMMA BackwardKept ==
  ASSUME PageInv, PageInv', ~Forward(switch), WriterStep,
         NEW at, NEW s \in ReaderType, s.key \in Keys, s.key # key, s.key # key', s.met # {},
         BackwardSearch(at, s)
  PROVE  BackwardSearch(at, s)'
<1> DEFINE k == s.key
           x == s.i
<1>1. k \in Keys /\ k # key /\ x \in Slots /\ x \in Int /\ x - 1 \in Int
  BY DEF ReaderType, Slots
<1>2. k \in keys' <=> k \in keys
  BY <1>1 DEF WriterStep, EmptyKey, EmptyPtr, EmptyEnd, OpenSlot, ShiftPtr, ShiftKey, PlaceLeft, PlaceKey,
     PlacePtr, InsertEnd, ScanOn, Unlink, PullKey, PullPtr, RemoveEnd, Frame
<1>3. \A y \in Int : Behind(y, k) => Behind(y, k)'
  <2> HIDE DEF k, x
  <2> QED BY <1>1, BehindKept
<1>4. ASSUME Finished(s) PROVE Finished(s)'
  <2>1. wpc \notin InsertPcs /\ i \in Int
    BY DEF PageInv, Direction, Types
  <2>2. CASE PullKey
    BY <1>1, <1>4, <2>1, <2>2 DEF Finished, PullKey, Step
  <2>3. CASE PullPtr
    <3>1. wpc = "pull_ptr" /\ i' = i + 1 /\ wpc' \in {"pull_key", "remove_end"}
      BY <2>3 DEF PullPtr
    <3>2. x <= i
      BY <1>4, <3>1 DEF Finished
    <3>3. x < i'
      BY <1>1, <2>1, <3>1, <3>2
    <3> QED BY <1>4, <3>1, <3>3 DEF Finished
  <2>4. CASE RemoveEnd
    BY <1>4, <2>4 DEF Finished, RemoveEnd, Step
  <2>5. CASE ScanOn \/ Unlink
    BY <1>4, <2>5 DEF Finished, ScanOn, Unlink, Step
  <2>6. CASE EmptyKey \/ EmptyPtr \/ EmptyEnd \/ OpenSlot \/ ShiftPtr \/ ShiftKey \/ PlaceLeft \/ PlaceKey
             \/ PlacePtr \/ InsertEnd
    BY <2>1, <2>6 DEF EmptyKey, EmptyPtr, EmptyEnd, OpenSlot, ShiftPtr, ShiftKey, PlaceLeft, PlaceKey, PlacePtr,
       InsertEnd, Step, InsertPcs
  <2> QED BY <2>2, <2>3, <2>4, <2>5, <2>6 DEF WriterStep
<1>5. PICK w : w = i
  OBVIOUS
<1>6. \/ rec' = rec
      \/ /\ w \in Slots /\ \A j \in Slots : j # w => rec'[j] = rec[j]
         /\ Unlinked(w) \/ KeyPulled(w) \/ PtrPulled(w)
  BY <1>5, RemoveStore
<1>7. rec[x].key = k /\ rec'[x].key # k => Finished(s)'
  <2> SUFFICES ASSUME rec[x].key = k, rec'[x].key # k PROVE Finished(s)'
    OBVIOUS
  <2>1. x = w /\ KeyPulled(w)
    BY <1>1, <1>6 DEF Unlinked, PtrPulled
  <2>2. wpc' = "pull_ptr" /\ i' = x
    BY <1>5, <2>1 DEF KeyPulled
  <2>3. x <= i'
    BY <1>1, <2>2
  <2> QED BY <2>2, <2>3 DEF Finished
<1>8. Finished(s) /\ rec'[x].key = k => rec[x].key = k
  <2> SUFFICES ASSUME Finished(s), rec'[x].key = k, rec[x].key # k PROVE FALSE
    OBVIOUS
  <2>1. x = w /\ KeyPulled(w)
    BY <1>1, <1>6 DEF Unlinked, PtrPulled
  <2>2. wpc = "pull_key" /\ x < i
    BY <2>1 DEF KeyPulled, Finished
  <2> QED BY <1>1, <1>5, <2>1, <2>2
<1>9. at # "key" /\ rec'[x].key = k => rec[x].key = k
  BY <1>8 DEF BackwardSearch
<1>10. at # "key" /\ rec'[x].key # k => Finished(s)'
  BY <1>4, <1>7 DEF BackwardSearch
<1>11. at = "ptr" => Takes(s)'
  <2> SUFFICES ASSUME at = "ptr", rec'[x].key = k
               PROVE  rec'[x].ptr \in {s.left, Null} \/ (k \in keys /\ rec'[x].ptr = ValueOf[k])
    BY <1>2 DEF Takes
  <2>1. rec[x].key = k
    BY <1>9
  <2>2. rec[x].ptr \in {s.left, Null} \/ (k \in keys /\ rec[x].ptr = ValueOf[k])
    BY <2>1 DEF BackwardSearch, Takes
  <2>3. CASE rec'[x].ptr = rec[x].ptr
    BY <2>2, <2>3
  <2>4. CASE rec'[x].ptr # rec[x].ptr
    <3>1. x = w /\ PtrPulled(w)
      BY <1>1, <1>6, <2>1, <2>4 DEF Unlinked, KeyPulled
    <3> QED BY <2>1, <3>1 DEF PtrPulled
  <2> QED BY <2>3, <2>4
<1>12. at = "ptr" => (s.left = ValueOf[k] => x > 0 /\ Behind(x - 1, k)')
  BY <1>1, <1>3 DEF BackwardSearch
<1>13. at = "again" => Took(s)'
  BY <1>2, <1>9 DEF BackwardSearch, Took
<1>14. k \in keys' => Behind(x, k)'
  BY <1>1, <1>2, <1>3 DEF BackwardSearch
<1> QED
  <2>1. at \in AtSlot
    BY DEF BackwardSearch
  <2> QED BY <2>1, <1>10, <1>11, <1>12, <1>13, <1>14 DEF BackwardSearch

-----------------------------------------------------------------------------
(* A search that has met one operation at most, on another key, is not     *)
(* after the key that is being written.                                    *)
LEMMA OtherKey ==
  ASSUME PageInv, wpc # "idle" => key = last_key, NEW at, at # "idle", NEW s, Calls(at, s), Clear(s)
  PROVE  s.key \in Keys /\ s.key # key /\ s.key # Top
<1>1. s.key \in Keys /\ s.key # Top
  BY KeysAssumption DEF Calls
<1>2. wpc = "idle" => key = Top
  BY DEF PageInv, Direction
<1>3. wpc # "idle" => s.key # key
  BY DEF Calls, Clear
<1> QED BY <1>1, <1>2, <1>3

(* The writer's steps keep what the searches know.                         *)
LEMMA WriterKeepsScan ==
  ASSUME PageInv, PageInv', WriterStep, wpc # "idle" => key = last_key,
         NEW at, NEW s \in ReaderType, at \in AtSlot => s.i < Card - 1, Calls(at, s), Scan(at, s)
  PROVE  Calls(at, s)' /\ Scan(at, s)' /\ (wpc' # "idle" => key' = last_key')
<1>1. UNCHANGED <<switch, ops, last_key>> /\ wpc # "idle" /\ (key' = key \/ (key' = Top /\ wpc' = "idle"))
      /\ (keys' = keys \/ keys' = keys \cup {key} \/ keys' = keys \ {key})
  BY DEF WriterStep, EmptyKey, EmptyPtr, EmptyEnd, OpenSlot, ShiftPtr, ShiftKey, PlaceLeft, PlaceKey,
     PlacePtr, InsertEnd, ScanOn, Unlink, PullKey, PullPtr, RemoveEnd, Frame, Step
<1>2. Calls(at, s)' /\ (wpc' # "idle" => key' = last_key')
  BY <1>1 DEF Calls
<1>3. ASSUME Clear(s)', at # "idle"
      PROVE  Clear(s) /\ s.key \in Keys /\ s.key # key /\ s.key # key' /\ s.met # {}
             /\ (s.key \in keys' <=> s.key \in keys)
  <2>1. Clear(s) /\ s.met # {}
    BY <1>1, <1>3 DEF Clear, Calls
  <2> QED BY <1>1, <1>3, <2>1, OtherKey
<1>4. ASSUME Clear(s)', at \in AtSlot \cup {"test_end"}, s.prev = switch
      PROVE  IF Forward(switch) THEN ForwardSearch(at, s)' ELSE BackwardSearch(at, s)'
  <2>1. at # "idle"
    BY <1>4 DEF AtSlot
  <2>2. Clear(s) /\ s.key \in Keys /\ s.key # key /\ s.key # key' /\ s.met # {}
    BY <1>3, <1>4, <2>1
  <2>3. IF Forward(switch) THEN ForwardSearch(at, s) ELSE BackwardSearch(at, s)
    BY <1>4, <2>2 DEF Scan
  <2>4. CASE Forward(switch)
    BY <1>4, <2>2, <2>3, <2>4, ForwardKept
  <2>5. CASE ~Forward(switch)
    BY <1>4, <2>2, <2>3, <2>5, BackwardKept
  <2> QED BY <2>4, <2>5
<1>5. ASSUME Clear(s)', at = "done" \/ (at = "switch" /\ s.prev = switch)
      PROVE  Right(s)'
  <2>1. Clear(s) /\ (s.key \in keys' <=> s.key \in keys)
    BY <1>3, <1>5
  <2>2. Right(s)
    BY <1>5, <2>1 DEF Scan
  <2> QED BY <2>1, <2>2 DEF Right
<1>6. Forward(switch)' <=> Forward(switch)
  BY <1>1
<1> QED BY <1>1, <1>2, <1>4, <1>5, <1>6 DEF Scan

(* An operation that begins keeps what the searches know: one that met an  *)
(* operation before is not answered for any more, and for one in the other *)
(* direction the search is repeated.                                       *)
LEMMA BeginKeepsScan ==
  ASSUME PageInv, PageInv', NEW k \in Keys, Insert(k) \/ Remove(k),
         NEW at, NEW s \in ReaderType, NEW t, t = IF at = "idle" THEN s ELSE [s EXCEPT !.met = @ \cup {ops'}],
         ops \in Nat, Calls(at, s), Scan(at, s)
  PROVE  Calls(at, t)' /\ Scan(at, t)' /\ key' = last_key'
<1>1. /\ UNCHANGED <<rec, keys>> /\ wpc = "idle" /\ ops' = ops + 1 /\ key' = k /\ last_key' = k
      /\ switch' = switch \/ switch' = switch + 1
      /\ switch' = switch => (Forward(switch) <=> Insert(k)) /\ (Insert(k) => wpc' \in {"open", "empty_key"})
  <2>1. switch # switch + 1
    BY DEF PageInv, Types
  <2>2. CASE Insert(k)
    BY <2>1, <2>2 DEF Insert
  <2>3. CASE Remove(k)
    <3>1. ~Insert(k)
      BY <2>3 DEF Insert, Remove
    <3> QED BY <2>1, <2>3, <3>1 DEF Remove
  <2> QED BY <2>2, <2>3
<1>2. CASE at = "idle"
  BY <1>1, <1>2 DEF Calls, Scan, AtSlot
<1>3. CASE at # "idle"
  <2>1. s.prev \in Nat /\ switch \in Nat /\ s.met \subseteq 0 .. ops /\ s.prev <= switch /\ s.key \in Keys
        /\ (at \in AtSlot \cup {"test_end"} => s.ret = Null)
    BY <1>3 DEF ReaderType, PageInv, Types, Calls
  <2>2. /\ t.key = s.key /\ t.i = s.i /\ t.prev = s.prev /\ t.left = s.left /\ t.t = s.t /\ t.ret = s.ret
        /\ t.met = s.met \cup {ops'}
    BY <1>3 DEF ReaderType
  <2>3. Calls(at, t)'
    BY <1>1, <2>1, <2>2 DEF Calls
  <2>4. ASSUME Clear(t)' PROVE s.met = {} /\ Clear(s)
    <3>1. s.met \cup {ops'} = {ops'} /\ ops' \notin s.met
      BY <1>1, <2>1, <2>2, <2>4 DEF Clear
    <3> QED BY <3>1 DEF Clear
  <2>5. ASSUME Clear(t)', at \in AtSlot \cup {"test_end"}, t.prev = switch'
        PROVE  IF Forward(switch') THEN ForwardSearch(at, t)' ELSE BackwardSearch(at, t)'
    <3>1. switch' = switch /\ s.prev = switch
      BY <1>1, <2>1, <2>2, <2>5
    <3>2. IF Forward(switch) THEN ForwardSearch(at, s) ELSE BackwardSearch(at, s)
      BY <2>4, <2>5, <3>1 DEF Scan
    <3>3. CASE Forward(switch)
      <4>1. Untouched(s)
        BY <1>1, <2>4, <2>5 DEF Untouched
      <4>2. (Ahead(s.i, s.key) => Ahead(t.i, t.key)') /\ (Took(s) => Took(t)') /\ (Takes(s) => Takes(t)')
        BY <1>1, <2>2 DEF Ahead, Here, Took, Takes
      <4> QED BY <1>1, <2>2, <3>1, <3>2, <3>3, <4>1, <4>2 DEF ForwardSearch
    <3>4. CASE ~Forward(switch)
      <4>1. ~Finished(s)
        BY <2>4, <2>5 DEF Finished
      <4>2. (Took(s) => Took(t)') /\ (Takes(s) => Takes(t)') /\ \A x : Behind(x, s.key) => Behind(x, t.key)'
        BY <1>1, <2>2 DEF Behind, Here, Took, Takes
      <4> QED BY <1>1, <2>2, <3>1, <3>2, <3>4, <4>1, <4>2 DEF BackwardSearch
    <3> QED BY <3>1, <3>3, <3>4
  <2>6. ASSUME Clear(t)', at = "done" \/ (at = "switch" /\ t.prev = switch')
        PROVE  Right(t)'
    <3>1. at = "done" \/ (at = "switch" /\ s.prev = switch)
      BY <1>1, <2>1, <2>2, <2>6
    <3>2. Right(s)
      BY <2>4, <2>6, <3>1 DEF Scan
    <3> QED BY <1>1, <2>2, <3>2 DEF Right
  <2> QED BY <1>1, <2>3, <2>5, <2>6 DEF Scan
<1> QED BY <1>2, <1>3

(* What is known of a search depends on the page and the search only.      *)
LEMMA SamePage ==
  ASSUME UNCHANGED wvars, NEW at, NEW s, Calls(at, s), Scan(at, s)
  PROVE  Calls(at, s)' /\ Scan(at, s)'
<1>1. UNCHANGED <<rec, switch, wpc, key, i, last_key, keys, ops>>
  BY DEF wvars
<1>2. (Clear(s)' <=> Clear(s)) /\ (Right(s)' <=> Right(s)) /\ (Forward(switch)' <=> Forward(switch))
  BY <1>1 DEF Clear, Right
<1>3. /\ Untouched(s)' <=> Untouched(s)
      /\ Finished(s)' <=> Finished(s)
      /\ Takes(s)' <=> Takes(s)
      /\ Took(s)' <=> Took(s)
  BY <1>1 DEF Untouched, Finished, Takes, Took
<1>4. \A x : (Ahead(x, s.key)' <=> Ahead(x, s.key)) /\ (Behind(x, s.key)' <=> Behind(x, s.key))
  BY <1>1 DEF Ahead, Behind, Here
<1>5. ForwardSearch(at, s) => ForwardSearch(at, s)'
  BY <1>1, <1>3, <1>4 DEF ForwardSearch
<1>6. BackwardSearch(at, s) => BackwardSearch(at, s)'
  BY <1>1, <1>3, <1>4 DEF BackwardSearch
<1>7. Calls(at, s)'
  BY <1>1 DEF Calls
<1> QED BY <1>1, <1>2, <1>5, <1>6, <1>7 DEF Scan

(* A step of one search, to a place and with locals that fit what the page *)
(* holds.                                                                  *)
LEMMA ReaderMoves ==
  ASSUME ReaderTypes, SearchInv, NEW r \in Readers, NEW label, NEW new,
         UNCHANGED wvars, rpc' = [rpc EXCEPT ![r] = label], reader' = [reader EXCEPT ![r] = new],
         Calls(label, new), Scan(label, new)
  PROVE  SearchInv'
<1>1. ASSUME NEW l \in Readers
      PROVE  (Calls(rpc[l], reader[l]) /\ Scan(rpc[l], reader[l]))'
  <2>1. PICK at, s : at = rpc'[l] /\ s = reader'[l]
    OBVIOUS
  <2>2. CASE l = r
    <3>1. at = label /\ s = new
      BY <2>1, <2>2 DEF ReaderTypes
    <3>2. Calls(at, s) /\ Scan(at, s)
      BY <3>1
    <3>3. Calls(at, s)' /\ Scan(at, s)'
      BY <3>2, SamePage
    <3> QED BY <2>1, <3>3
  <2>3. CASE l # r
    <3>1. at = rpc[l] /\ s = reader[l]
      BY <2>1, <2>3 DEF ReaderTypes
    <3>2. Calls(at, s) /\ Scan(at, s)
      BY <3>1 DEF SearchInv
    <3>3. Calls(at, s)' /\ Scan(at, s)'
      BY <3>2, SamePage
    <3> QED BY <2>1, <3>3
  <2> QED BY <2>2, <2>3
<1>2. (wpc # "idle" => key = last_key)'
  BY DEF wvars, SearchInv
<1> QED BY <1>1, <1>2 DEF SearchInv

(* A search begins, or is repeated.                                        *)
LEMMA BeginScan ==
  ASSUME PageInv, ReaderTypes, SearchInv, NEW r \in Readers, NEW k \in Keys, Begin(r, k),
         reader[r].met \subseteq 0 .. ops
  PROVE  SearchInv'
<1>1. PICK c : c = Count(rec, switch, last_index)
  OBVIOUS
<1>2. PICK from : from = IF Forward(switch) THEN 0 ELSE c - 1
  OBVIOUS
<1>3. PICK at : at = IF from < 0 THEN 0 ELSE from
  OBVIOUS
<1>4. PICK m : m = reader[r].met \cup (IF wpc = "idle" THEN {} ELSE {ops})
  OBVIOUS
<1>5. PICK new : new = [key |-> k, i |-> at, prev |-> switch, left |-> Null, t |-> Null, ret |-> Null, met |-> m]
  OBVIOUS
<1>6. new.key = k /\ new.i = at /\ new.prev = switch /\ new.ret = Null /\ new.met = m
  BY <1>5
<1>7. reader' = [reader EXCEPT ![r] = new] /\ rpc' = [rpc EXCEPT ![r] = "key"] /\ UNCHANGED wvars
  BY <1>1, <1>2, <1>3, <1>4, <1>5 DEF Begin
<1>8. Calls("key", new)
  <2>1. switch <= switch /\ ops \in 0 .. ops
    BY MaxOpsAssumption DEF PageInv, Types, ReaderTypes
  <2> QED BY <1>4, <1>6, <2>1 DEF Calls
<1>9. ASSUME Clear(new), k \in keys
      PROVE  \E j \in Slots : Here(j, k) /\ (~Forward(switch) => j <= last_index)
  <2>1. "key" # "idle" /\ (wpc # "idle" => key = last_key)
    BY DEF SearchInv
  <2>2. k # key
    BY <1>6, <1>8, <1>9, <2>1, OtherKey
  <2> QED BY <1>9, <2>2, KeyIsHere
<1>10. CASE Forward(switch)
  <2>1. at = 0
    BY <1>2, <1>3, <1>10
  <2>2. Clear(new) /\ k \in keys => Ahead(0, k)
    BY <1>9 DEF Ahead, Slots
  <2>3. Clear(new) => ForwardSearch("key", new)
    BY <1>6, <2>1, <2>2 DEF ForwardSearch
  <2>4. Scan("key", new)
    BY <1>10, <2>3 DEF Scan
  <2> QED BY <1>7, <1>8, <2>4, ReaderMoves
<1>11. CASE ~Forward(switch)
  <2>1. rec[last_index + 1].ptr = Null
    <3>1. Types /\ last_index \in Int /\ Card - 1 \in Slots /\ Card \in Nat /\ last_index + 1 <= Card - 1
      BY LastSlot DEF PageInv, Slots
    <3>2. wpc \in {"idle"} \cup RemovePcs
      BY <1>11, <3>1 DEF PageInv, Direction, Types
    <3>3. Empty(rec, last_index + 1) \/ Empty(rec, last_index)
      BY <3>2 DEF PageInv, AtRest, Pulling, Removed, RemovePcs
    <3> QED BY <3>1, <3>3 DEF Empty
  <2>2. c = last_index + 1 /\ last_index \in Int /\ c - 1 = last_index
    BY <1>1, <2>1, CountIs DEF PageInv, Types
  <2>3. last_index <= at
    BY <1>2, <1>3, <1>11, <2>2
  <2>4. Clear(new) /\ k \in keys => Behind(at, k)
    <3> SUFFICES ASSUME Clear(new), k \in keys PROVE Behind(at, k)
      OBVIOUS
    <3>1. PICK j \in Slots : Here(j, k) /\ j <= last_index
      BY <1>9, <1>11
    <3>2. j <= at
      BY <1>2, <1>3, <2>2, <2>3, <3>1 DEF Slots
    <3> QED BY <3>1, <3>2 DEF Behind
  <2>5. Clear(new) => BackwardSearch("key", new)
    BY <1>6, <2>4 DEF BackwardSearch, AtSlot
  <2>6. Scan("key", new)
    BY <1>11, <2>5 DEF Scan
  <2> QED BY <1>7, <1>8, <2>6, ReaderMoves
<1> QED BY <1>10, <1>11

(* A step that changes one search's locals only.                           *)
LEMMA GotoScan ==
  ASSUME ReaderTypes, SearchInv, NEW r \in Readers, NEW label, NEW new, Goto(r, label, new),
         Calls(label, new), Scan(label, new)
  PROVE  SearchInv'
BY ReaderMoves DEF Goto

(* A search leaves a slot that does not have its key.                      *)
LEMMA AdvanceScan ==
  ASSUME PageInv, ReaderTypes, SearchInv, NEW r \in Readers, NEW s, s = reader[r],
         rpc[r] \in {"key", "ptr", "again"}, Advance(r),
         Clear(s) /\ s.prev = switch /\ s.key \in keys =>
           IF Forward(switch) THEN Ahead(s.i + 1, s.key) ELSE s.i > 0 /\ Behind(s.i - 1, s.key)
  PROVE  SearchInv'
<1>1. /\ s \in ReaderType /\ s.i \in 0 .. Card - 2 /\ Card \in Nat /\ Null = 0
      /\ Calls(rpc[r], s) /\ rpc[r] # "idle" /\ s.ret = Null
  BY CardAssumption DEF ReaderTypes, ReaderType, Slots, SearchInv, Calls, AtSlot, Null
<1>2. \A label \in AtSlot \cup {"test_end", "switch"}, new \in ReaderType :
        new.key = s.key /\ new.prev = s.prev /\ new.met = s.met /\ new.ret = Null => Calls(label, new)
  BY <1>1 DEF Calls, AtSlot
<1>3. CASE Forward(s.prev)
  <2>1. PICK new : new = [s EXCEPT !.i = @ + 1]
    OBVIOUS
  <2>2. Goto(r, "test_end", new)
    BY <1>3, <2>1 DEF Advance
  <2>3. /\ new \in ReaderType /\ new.key = s.key /\ new.prev = s.prev /\ new.met = s.met /\ new.ret = Null
        /\ new.i = s.i + 1 /\ new.i > 0
    BY <1>1, <2>1 DEF ReaderType, Slots
  <2>4. Calls("test_end", new)
    BY <1>2, <2>3
  <2>5. Clear(new) /\ new.prev = switch => Forward(switch) /\ ForwardSearch("test_end", new)
    BY <1>3, <2>3 DEF ForwardSearch, Clear, AtSlot
  <2>6. Scan("test_end", new)
    BY <2>5 DEF Scan
  <2> QED BY <2>2, <2>4, <2>6, GotoScan
<1>4. CASE ~Forward(s.prev) /\ s.i > 0
  <2>1. PICK new : new = [s EXCEPT !.i = @ - 1]
    OBVIOUS
  <2>2. Goto(r, "key", new)
    BY <1>4, <2>1 DEF Advance
  <2>3. /\ new \in ReaderType /\ new.key = s.key /\ new.prev = s.prev /\ new.met = s.met /\ new.ret = Null
        /\ new.i = s.i - 1
    BY <1>1, <1>4, <2>1 DEF ReaderType, Slots
  <2>4. Calls("key", new)
    BY <1>2, <2>3 DEF AtSlot
  <2>5. Clear(new) /\ new.prev = switch => ~Forward(switch) /\ BackwardSearch("key", new)
    BY <1>4, <2>3 DEF BackwardSearch, Clear, AtSlot
  <2>6. Scan("key", new)
    BY <2>5 DEF Scan
  <2> QED BY <2>2, <2>4, <2>6, GotoScan
<1>5. CASE ~Forward(s.prev) /\ ~(s.i > 0)
  <2>1. Goto(r, "switch", s)
    BY <1>5 DEF Advance
  <2>2. Calls("switch", s)
    BY <1>1, <1>2
  <2>3. Clear(s) /\ s.prev = switch => Right(s)
    BY <1>1, <1>5 DEF Right
  <2>4. Scan("switch", s)
    BY <2>3 DEF Scan, AtSlot
  <2> QED BY <2>1, <2>2, <2>4, GotoScan
<1> QED BY <1>3, <1>4, <1>5

(* A search leaves the slot because the key is not in it.                  *)
LEMMA KeyMismatch ==
  ASSUME PageInv, ReaderTypes, SearchInv, NEW r \in Readers, NEW s, s = reader[r],
         rpc[r] \in {"key", "again"}, rec[s.i].key # s.key, Advance(r)
  PROVE  SearchInv'
<1>1. PICK at : at = rpc[r]
  OBVIOUS
<1>2. /\ s.i \in Slots /\ s.i + 1 \in Slots /\ Calls(at, s) /\ Scan(at, s) /\ at \in AtSlot
      /\ wpc # "idle" => key = last_key
  <2>1. s.i \in Slots /\ s.i < Card - 1
    BY DEF ReaderTypes, ReaderType
  <2> QED BY <1>1, <2>1, CardAssumption DEF Slots, SearchInv, AtSlot
<1>3. ASSUME Clear(s), s.prev = switch, s.key \in keys
      PROVE  IF Forward(switch) THEN Ahead(s.i + 1, s.key) ELSE s.i > 0 /\ Behind(s.i - 1, s.key)
  <2>1. s.key \in Keys /\ s.key # key
    BY <1>2, <1>3, OtherKey DEF AtSlot
  <2>2. ~Here(s.i, s.key)
    BY DEF Here
  <2>3. IF Forward(switch) THEN Ahead(s.i, s.key) ELSE Behind(s.i, s.key)
    BY <1>2, <1>3 DEF Scan, ForwardSearch, BackwardSearch
  <2>4. CASE Forward(switch)
    BY <1>2, <2>1, <2>2, <2>3, <2>4, AheadFacts
  <2>5. CASE ~Forward(switch)
    BY <1>2, <2>1, <2>2, <2>3, <2>5, BehindFacts
  <2> QED BY <2>4, <2>5
<1> QED BY <1>3, AdvanceScan

(* The loads of a search, one by one.                                      *)
LEMMA TestEndScan ==
  ASSUME PageInv, ReaderTypes, SearchInv, NEW r \in Readers, TestEnd(r)
  PROVE  SearchInv'
<1>1. PICK s : s = reader[r]
  OBVIOUS
<1>2. /\ s.i \in Slots /\ rpc[r] = "test_end" /\ Calls("test_end", s) /\ Scan("test_end", s) /\ s.ret = Null
      /\ wpc # "idle" => key = last_key
  BY <1>1 DEF TestEnd, ReaderTypes, ReaderType, SearchInv, Calls
<1>3. Calls("switch", s) /\ Calls("key", s)
  BY <1>2 DEF Calls
<1>4. ASSUME Clear(s), s.prev = switch
      PROVE  /\ s.key \in Keys /\ s.key # key
             /\ Forward(switch) => ForwardSearch("test_end", s)
             /\ ~Forward(switch) => BackwardSearch("test_end", s)
  BY <1>2, <1>4, OtherKey DEF Scan
<1>5. ASSUME Clear(s), s.prev = switch
      PROVE  Forward(switch) /\ s.i > 0 /\ (s.key \in keys => Ahead(s.i, s.key))
  <2>1. Forward(switch)
    BY <1>4, <1>5 DEF BackwardSearch, AtSlot
  <2> QED BY <1>4, <1>5, <2>1 DEF ForwardSearch
<1>6. CASE rec[s.i].ptr = Null
  <2>1. Goto(r, "switch", s)
    BY <1>1, <1>6 DEF TestEnd
  <2>2. Clear(s) /\ s.prev = switch => s.key \notin keys
    BY <1>2, <1>4, <1>5, <1>6, AheadFacts
  <2>3. Scan("switch", s)
    BY <1>2, <2>2 DEF Scan, Right, AtSlot
  <2> QED BY <1>3, <2>1, <2>3, GotoScan
<1>7. CASE rec[s.i].ptr # Null
  <2>1. Goto(r, "key", s)
    BY <1>1, <1>7 DEF TestEnd
  <2>2. Clear(s) /\ s.prev = switch => Forward(switch) /\ ForwardSearch("key", s)
    BY <1>5, <1>7 DEF ForwardSearch
  <2>3. Scan("key", s)
    BY <2>2 DEF Scan
  <2> QED BY <1>3, <2>1, <2>3, GotoScan
<1> QED BY <1>6, <1>7

(* The slot has the key: its pointer is taken only after the one on its left. *)
LEMMA ReadKeyScan ==
  ASSUME PageInv, ReaderTypes, SearchInv, NEW r \in Readers, ReadKey(r)
  PROVE  SearchInv'
<1>1. PICK s : s = reader[r]
  OBVIOUS
<1>2. /\ s.i \in Slots /\ s.i \in Nat /\ rpc[r] = "key" /\ Calls("key", s) /\ Scan("key", s) /\ s.ret = Null
      /\ wpc # "idle" => key = last_key
  BY <1>1 DEF ReadKey, ReaderTypes, ReaderType, SearchInv, Calls, AtSlot, Slots
<1>3. CASE rec[s.i].key # s.key
  BY <1>1, <1>2, <1>3, KeyMismatch DEF ReadKey
<1>4. CASE rec[s.i].key = s.key
  <2>1. PICK new : new = [s EXCEPT !.left = Null]
    OBVIOUS
  <2>2. /\ new.key = s.key /\ new.i = s.i /\ new.prev = s.prev /\ new.met = s.met /\ new.ret = s.ret
        /\ new.left = Null
    <3>1. s \in ReaderType
      BY <1>1 DEF ReaderTypes
    <3> QED BY <2>1, <3>1 DEF ReaderType
  <2>3. Calls("ptr", new) /\ Calls("left", new)
    BY <1>2, <2>2 DEF Calls
  <2>4. ASSUME Clear(new), new.prev = switch
        PROVE  /\ s.key \in Keys /\ s.key # key /\ ValueOf[s.key] # Null
               /\ Forward(switch) => ForwardSearch("key", s)
               /\ ~Forward(switch) => BackwardSearch("key", s)
    <3>1. Clear(s) /\ s.prev = switch
      BY <2>2, <2>4 DEF Clear
    <3>2. s.key \in Keys /\ s.key # key
      BY <1>2, <3>1, OtherKey
    <3> QED BY <1>2, <3>1, <3>2, Values DEF Scan, AtSlot
  <2>5. CASE s.i = 0
    <3>1. Goto(r, "ptr", new)
      BY <1>1, <1>4, <2>1, <2>5 DEF ReadKey
    <3>2. Clear(new) /\ new.prev = switch => Takes(new)
      BY <1>2, <1>4, <2>2, <2>4, <2>5, SlotTakes DEF Takes
    <3>3. Clear(new) /\ new.prev = switch /\ Forward(switch) => ForwardSearch("ptr", new)
      BY <2>2, <2>4, <2>5, <3>2 DEF ForwardSearch
    <3>4. Clear(new) /\ new.prev = switch /\ ~Forward(switch) => BackwardSearch("ptr", new)
      BY <1>4, <2>2, <2>4, <3>2 DEF BackwardSearch, AtSlot
    <3>5. Scan("ptr", new)
      BY <3>3, <3>4 DEF Scan
    <3> QED BY <2>3, <3>1, <3>5, GotoScan
  <2>6. CASE s.i # 0
    <3>1. Goto(r, "left", new)
      BY <1>1, <1>4, <2>1, <2>6 DEF ReadKey
    <3>2. Clear(new) /\ new.prev = switch /\ Forward(switch) => ForwardSearch("left", new)
      BY <1>2, <2>2, <2>4, <2>6 DEF ForwardSearch, AtSlot
    <3>3. Clear(new) /\ new.prev = switch /\ ~Forward(switch) => BackwardSearch("left", new)
      BY <1>4, <2>2, <2>4 DEF BackwardSearch, AtSlot
    <3>4. Scan("left", new)
      BY <3>2, <3>3 DEF Scan
    <3> QED BY <2>3, <3>1, <3>4, GotoScan
  <2> QED BY <2>5, <2>6
<1> QED BY <1>3, <1>4

(* The pointer on the left tells a slot in transit from one that holds its key. *)
LEMMA ReadLeftScan ==
  ASSUME PageInv, ReaderTypes, SearchInv, NEW r \in Readers, ReadLeft(r)
  PROVE  SearchInv'
<1>1. PICK s : s = reader[r]
  OBVIOUS
<1>2. /\ s.i \in Slots /\ s.i > 0 /\ s.i - 1 \in Slots /\ rpc[r] = "left" /\ Calls("left", s) /\ Scan("left", s)
      /\ s.ret = Null /\ s \in ReaderType /\ (wpc # "idle" => key = last_key)
  <2>1. rpc[r] = "left" /\ s.i > 0 /\ s \in ReaderType
    BY <1>1 DEF ReadLeft, ReaderTypes
  <2>2. s.i \in Slots /\ s.i - 1 \in Slots
    BY <2>1, CardAssumption DEF ReaderType, Slots
  <2> QED BY <1>1, <2>1, <2>2 DEF SearchInv, Calls, AtSlot
<1>3. PICK new : new = [s EXCEPT !.left = rec[s.i - 1].ptr]
  OBVIOUS
<1>4. /\ new.key = s.key /\ new.i = s.i /\ new.prev = s.prev /\ new.met = s.met /\ new.ret = s.ret
      /\ new.left = rec[s.i - 1].ptr
  BY <1>2, <1>3 DEF ReaderType
<1>5. Goto(r, "ptr", new)
  BY <1>1, <1>3 DEF ReadLeft
<1>6. Calls("ptr", new)
  BY <1>2, <1>4 DEF Calls
<1>7. ASSUME Clear(new), new.prev = switch
      PROVE  IF Forward(switch) THEN ForwardSearch("ptr", new) ELSE BackwardSearch("ptr", new)
  <2>1. Clear(s) /\ s.prev = switch
    BY <1>4, <1>7 DEF Clear
  <2>2. s.key \in Keys /\ s.key # key
    BY <1>2, <2>1, OtherKey
  <2>3. IF Forward(switch) THEN ForwardSearch("left", s) ELSE BackwardSearch("left", s)
    BY <1>2, <2>1 DEF Scan, AtSlot
  <2>4. Takes(new)
    BY <1>2, <1>4, <2>2, SlotTakes DEF Takes
  <2>5. CASE Forward(switch)
    <3>1. s.key \in keys => rec[s.i - 1].ptr # ValueOf[s.key]
      BY <1>2, <2>3, <2>5 DEF ForwardSearch, Ahead
    <3> QED BY <1>2, <1>4, <2>3, <2>4, <2>5, <3>1 DEF ForwardSearch, AtSlot
  <2>6. CASE ~Forward(switch)
    <3>1. rec[s.i - 1].ptr = ValueOf[s.key] => Behind(s.i - 1, s.key)
      BY <1>2, <2>2, BehindFacts
    <3>2. Finished(new) <=> Finished(s)
      BY <1>4 DEF Finished
    <3> QED BY <1>2, <1>4, <2>3, <2>4, <2>6, <3>1, <3>2 DEF BackwardSearch, AtSlot
  <2> QED BY <2>5, <2>6
<1>8. Scan("ptr", new)
  BY <1>7 DEF Scan
<1> QED BY <1>5, <1>6, <1>8, GotoScan

(* The pointer is the key's, or it is the one seen on the left.            *)
LEMMA ReadPtrScan ==
  ASSUME PageInv, ReaderTypes, SearchInv, NEW r \in Readers, ReadPtr(r)
  PROVE  SearchInv'
<1>1. PICK s : s = reader[r]
  OBVIOUS
<1>2. /\ s.i \in Slots /\ s.i \in Nat /\ s.i + 1 \in Slots /\ rpc[r] = "ptr" /\ Calls("ptr", s) /\ Scan("ptr", s)
      /\ s.ret = Null /\ s \in ReaderType /\ (wpc # "idle" => key = last_key)
  <2>1. rpc[r] = "ptr" /\ s.i < Card - 1 /\ s \in ReaderType
    BY <1>1 DEF ReadPtr, ReaderTypes
  <2>2. s.i \in Slots /\ s.i + 1 \in Slots /\ s.i \in Nat
    BY <2>1, CardAssumption DEF ReaderType, Slots
  <2> QED BY <1>1, <2>1, <2>2 DEF SearchInv, Calls, AtSlot
<1>3. ASSUME Clear(s), s.prev = switch
      PROVE  /\ s.key \in Keys /\ s.key # key /\ ValueOf[s.key] # Null
             /\ IF Forward(switch) THEN ForwardSearch("ptr", s) ELSE BackwardSearch("ptr", s)
  <2>1. s.key \in Keys /\ s.key # key
    BY <1>2, <1>3, OtherKey
  <2> QED BY <1>2, <1>3, <2>1, Values DEF Scan, AtSlot
<1>4. PICK t : t = rec[s.i].ptr
  OBVIOUS
<1>5. CASE t # s.left /\ (Forward(s.prev) \/ t # Null)
  <2>1. PICK new : new = [s EXCEPT !.t = t]
    OBVIOUS
  <2>2. Goto(r, "again", new)
    BY <1>1, <1>4, <1>5, <2>1 DEF ReadPtr
  <2>3. /\ new.key = s.key /\ new.i = s.i /\ new.prev = s.prev /\ new.met = s.met /\ new.ret = s.ret
        /\ new.t = t
    BY <1>2, <2>1 DEF ReaderType
  <2>4. Calls("again", new)
    BY <1>2, <2>3 DEF Calls
  <2>5. ASSUME Clear(new), new.prev = switch
        PROVE  IF Forward(switch) THEN ForwardSearch("again", new) ELSE BackwardSearch("again", new)
    <3>1. Clear(s) /\ s.prev = switch
      BY <2>3, <2>5 DEF Clear
    <3>2. CASE Forward(switch)
      <4>1. ForwardSearch("ptr", s)
        BY <1>3, <3>1, <3>2
      <4>2. t # Null
        BY <1>2, <1>4, <1>5, <4>1 DEF ForwardSearch, AtSlot
      <4>3. Took(new)
        BY <1>4, <1>5, <2>3, <4>1, <4>2 DEF ForwardSearch, Takes, Took
      <4> QED BY <2>3, <3>2, <4>1, <4>3 DEF ForwardSearch, AtSlot
    <3>3. CASE ~Forward(switch)
      <4>1. BackwardSearch("ptr", s) /\ t # Null
        BY <1>3, <1>5, <3>1, <3>3
      <4>2. Took(new)
        BY <1>4, <1>5, <2>3, <4>1 DEF BackwardSearch, Takes, Took
      <4>3. Finished(new) <=> Finished(s)
        BY <2>3 DEF Finished
      <4> QED BY <2>3, <3>3, <4>1, <4>2, <4>3 DEF BackwardSearch, AtSlot
    <3> QED BY <3>2, <3>3
  <2>6. Scan("again", new)
    BY <2>5 DEF Scan
  <2> QED BY <2>2, <2>4, <2>6, GotoScan
<1>6. CASE ~(t # s.left /\ (Forward(s.prev) \/ t # Null))
  <2>1. Advance(r)
    BY <1>1, <1>4, <1>6 DEF ReadPtr
  <2>2. ASSUME Clear(s), s.prev = switch, s.key \in keys
        PROVE  IF Forward(switch) THEN Ahead(s.i + 1, s.key) ELSE s.i > 0 /\ Behind(s.i - 1, s.key)
    <3>1. CASE Forward(switch)
      <4>1. ForwardSearch("ptr", s) /\ t = s.left
        BY <1>3, <1>6, <2>2, <3>1
      <4>2. t # ValueOf[s.key] /\ Ahead(s.i, s.key)
        BY <2>2, <4>1 DEF ForwardSearch
      <4>3. ~Here(s.i, s.key)
        BY <1>4, <4>2 DEF Here
      <4> QED BY <1>2, <1>3, <1>4, <2>2, <3>1, <4>2, <4>3, AheadFacts
    <3>2. CASE ~Forward(switch)
      <4>1. BackwardSearch("ptr", s) /\ Behind(s.i, s.key)
        BY <1>3, <2>2, <3>2 DEF BackwardSearch
      <4>2. CASE Here(s.i, s.key)
        <5>1. t = ValueOf[s.key] /\ t = s.left
          BY <1>3, <1>4, <1>6, <2>2, <4>2 DEF Here
        <5> QED BY <3>2, <4>1, <5>1 DEF BackwardSearch
      <4>3. CASE ~Here(s.i, s.key)
        BY <1>2, <1>3, <2>2, <3>2, <4>1, <4>3, BehindFacts
      <4> QED BY <4>2, <4>3
    <3> QED BY <3>1, <3>2
  <2> QED BY <1>1, <1>2, <2>1, <2>2, AdvanceScan
<1> QED BY <1>5, <1>6

(* The key is still there, so the pointer read before belongs to it.       *)
LEMMA RereadKeyScan ==
  ASSUME PageInv, ReaderTypes, SearchInv, NEW r \in Readers, RereadKey(r)
  PROVE  SearchInv'
<1>1. PICK s : s = reader[r]
  OBVIOUS
<1>2. rpc[r] = "again" /\ Calls("again", s) /\ Scan("again", s) /\ s \in ReaderType
  BY <1>1 DEF RereadKey, SearchInv, ReaderTypes
<1>3. CASE rec[s.i].key # s.key
  BY <1>1, <1>2, <1>3, KeyMismatch DEF RereadKey
<1>4. CASE rec[s.i].key = s.key
  <2>1. PICK new : new = [s EXCEPT !.ret = s.t]
    OBVIOUS
  <2>2. Goto(r, "switch", new)
    BY <1>1, <1>4, <2>1 DEF RereadKey
  <2>3. /\ new.key = s.key /\ new.prev = s.prev /\ new.met = s.met /\ new.ret = s.t
    BY <1>2, <2>1 DEF ReaderType
  <2>4. Calls("switch", new)
    BY <1>2, <2>3 DEF Calls, AtSlot
  <2>5. ASSUME Clear(new), new.prev = switch PROVE Right(new)
    <3>1. Clear(s) /\ s.prev = switch
      BY <2>3, <2>5 DEF Clear
    <3>2. IF Forward(switch) THEN ForwardSearch("again", s) ELSE BackwardSearch("again", s)
      BY <1>2, <3>1 DEF Scan, AtSlot
    <3>3. Took(s)
      BY <3>2 DEF ForwardSearch, BackwardSearch
    <3> QED BY <1>4, <2>3, <3>3 DEF Took, Right
  <2>6. Scan("switch", new)
    BY <2>5 DEF Scan, AtSlot
  <2> QED BY <2>2, <2>4, <2>6, GotoScan
<1> QED BY <1>3, <1>4

(* The direction has not changed, or the search is repeated.               *)
LEMMA TestSwitchScan ==
  ASSUME PageInv, ReaderTypes, SearchInv, NEW r \in Readers, TestSwitch(r)
  PROVE  SearchInv'
<1>1. PICK s : s = reader[r]
  OBVIOUS
<1>2. rpc[r] = "switch" /\ Calls("switch", s) /\ Scan("switch", s) /\ s.key \in Keys /\ s.met \subseteq 0 .. ops
  BY <1>1 DEF TestSwitch, SearchInv, Calls
<1>3. CASE switch = s.prev
  <2>1. Goto(r, "done", s)
    BY <1>1, <1>3 DEF TestSwitch
  <2>2. Calls("done", s)
    BY <1>2 DEF Calls, AtSlot
  <2>3. Scan("done", s)
    BY <1>2, <1>3 DEF Scan, AtSlot
  <2> QED BY <2>1, <2>2, <2>3, GotoScan
<1>4. CASE switch # s.prev
  <2>1. PICK k : k = s.key
    OBVIOUS
  <2>2. Begin(r, k)
    BY <1>1, <1>4, <2>1 DEF TestSwitch
  <2> QED BY <1>1, <1>2, <2>1, <2>2, BeginScan
<1> QED BY <1>3, <1>4

(* No search under way.                                                    *)
LEMMA IdleScan == Calls("idle", IdleReader) /\ Scan("idle", IdleReader)
BY DEF Calls, Scan, AtSlot, IdleReader

(* Every step keeps what the searches know.                                *)
LEMMA SearchStep ==
  ASSUME PageInv, PageInv', ReaderTypes, SearchInv, [Next]_vars
  PROVE  SearchInv'
<1>1. ASSUME UNCHANGED rvars, UNCHANGED <<rec, switch, wpc, key, i, last_key, keys, ops>>
      PROVE  SearchInv'
  <2>1. UNCHANGED rpc /\ UNCHANGED reader
    BY <1>1 DEF rvars
  <2> QED BY <1>1, <2>1 DEF SearchInv, Calls, Scan, Clear, ForwardSearch, BackwardSearch, Right, Ahead, Behind,
       Here, Untouched, Finished, Takes, Took
<1>2. CASE UNCHANGED vars
  BY <1>1, <1>2 DEF vars, wvars
<1>3. ASSUME NEW j \in Slots, Evict(j)
      PROVE  SearchInv'
  BY <1>1, <1>3 DEF Evict
<1>4. ASSUME NEW k \in Keys, Insert(k) \/ Remove(k)
      PROVE  SearchInv'
  <2>1. Meet /\ UNCHANGED rpc /\ ops \in Nat
    BY <1>4, MaxOpsAssumption DEF Insert, Remove, ReaderTypes
  <2>2. \A r \in Readers : (Calls(rpc[r], reader[r]) /\ Scan(rpc[r], reader[r]))' /\ key' = last_key'
    <3> SUFFICES ASSUME NEW r \in Readers
                 PROVE  (Calls(rpc[r], reader[r]) /\ Scan(rpc[r], reader[r]))' /\ key' = last_key'
      OBVIOUS
    <3>1. PICK at, s : at = rpc[r] /\ s = reader[r]
      OBVIOUS
    <3>2. PICK t : t = reader'[r]
      OBVIOUS
    <3>3. t = IF at = "idle" THEN s ELSE [s EXCEPT !.met = @ \cup {ops'}]
      BY <2>1, <3>1, <3>2 DEF Meet
    <3>4. s \in ReaderType /\ Calls(at, s) /\ Scan(at, s)
      BY <3>1 DEF ReaderTypes, SearchInv
    <3>5. Calls(at, t)' /\ Scan(at, t)' /\ key' = last_key'
      BY <1>4, <2>1, <3>3, <3>4, BeginKeepsScan
    <3> QED BY <2>1, <3>1, <3>2, <3>5
  <2>3. key' = last_key'
    BY <1>4 DEF Insert, Remove
  <2> QED BY <2>2, <2>3 DEF SearchInv
<1>5. CASE WriterStep
  <2>1. UNCHANGED <<rpc, reader>>
    BY <1>5 DEF WriterStep, EmptyKey, EmptyPtr, EmptyEnd, OpenSlot, ShiftPtr, ShiftKey, PlaceLeft, PlaceKey,
       PlacePtr, InsertEnd, ScanOn, Unlink, PullKey, PullPtr, RemoveEnd, Frame, rvars
  <2>2. wpc # "idle" => key = last_key
    BY DEF SearchInv
  <2>3. (wpc # "idle" => key = last_key)'
    BY <1>5, <2>2 DEF WriterStep, EmptyKey, EmptyPtr, EmptyEnd, OpenSlot, ShiftPtr, ShiftKey, PlaceLeft, PlaceKey,
       PlacePtr, InsertEnd, ScanOn, Unlink, PullKey, PullPtr, RemoveEnd, Frame, Step
  <2>4. ASSUME NEW r \in Readers
        PROVE  (Calls(rpc[r], reader[r]) /\ Scan(rpc[r], reader[r]))'
    <3>1. PICK at, s : at = rpc[r] /\ s = reader[r]
      OBVIOUS
    <3>2. s \in ReaderType /\ Calls(at, s) /\ Scan(at, s) /\ (at \in AtSlot => s.i < Card - 1)
      BY <3>1 DEF ReaderTypes, SearchInv, AtSlot
    <3>3. Calls(at, s)' /\ Scan(at, s)'
      BY <1>5, <2>2, <3>2, WriterKeepsScan
    <3> QED BY <2>1, <3>1, <3>3
  <2> QED BY <2>3, <2>4 DEF SearchInv
<1>6. ASSUME NEW r \in Readers, NEW k \in Keys, StartSearch(r, k)
      PROVE  SearchInv'
  <2>1. reader[r].met \subseteq 0 .. ops
    BY <1>6 DEF StartSearch, SearchInv, Calls
  <2> QED BY <1>6, <2>1, BeginScan DEF StartSearch
<1>7. ASSUME NEW r \in Readers, ReaderStep(r)
      PROVE  SearchInv'
  <2>1. CASE FinishSearch(r)
    BY <2>1, IdleScan, GotoScan DEF FinishSearch
  <2> QED BY <1>7, <2>1, TestEndScan, ReadKeyScan, ReadLeftScan, ReadPtrScan, RereadKeyScan, TestSwitchScan
          DEF ReaderStep
<1> QED BY <1>2, <1>3, <1>4, <1>5, <1>6, <1>7 DEF Next

-----------------------------------------------------------------------------
(* Between any two stores of an insert or a removal, a search of the page  *)
(* finds each key that is not being worked on, and no other: FAST shifts,  *)
(* for every page size and all keys and values.                            *)
THEOREM SearchableAfterEachStore == Spec => []AlwaysReadable
<1>1. Init => PageInv
  BY PageInit
<1>2. PageInv /\ [Next]_vars => PageInv'
  BY PageStep
<1>3. PageInv => AlwaysReadable
  BY Readable
<1> QED
  BY <1>1, <1>2, <1>3, PTL DEF Spec

(* Between operations the records are sorted and count() is right from the *)
(* hint last_index in both directions.                                     *)
THEOREM RestsInOrder == Spec => []RestingOrder
<1>1. Init => PageInv
  BY PageInit
<1>2. PageInv /\ [Next]_vars => PageInv'
  BY PageStep
<1>3. PageInv => RestingOrder
  BY Rested
<1> QED
  BY <1>1, <1>2, <1>3, PTL DEF Spec

(* The variables keep their types: a search never reads beyond the page,   *)
(* whatever the writer does under it.                                      *)
THEOREM PageTypeCorrect == Spec => []TypeOK
<1>1. Init => PageInv /\ ReaderTypes
  BY PageInit, ReaderTypesInit
<1>2. PageInv /\ ReaderTypes /\ [Next]_vars => (PageInv /\ ReaderTypes)'
  BY PageStep, ReaderTypesStep
<1>3. PageInv /\ ReaderTypes => TypeOK
  <2> SUFFICES ASSUME PageInv, ReaderTypes PROVE TypeOK
    OBVIOUS
  <2>1. \A r \in Readers : reader[r].ret \in Ptr
    BY DEF ReaderTypes, ReaderType
  <2> QED BY <2>1 DEF PageInv, Types, ReaderTypes, TypeOK, Words, InsertPcs, RemovePcs, Ptr
<1> QED BY <1>1, <1>2, <1>3, PTL DEF Spec

(* Until the first removal the records in persistent memory can be         *)
(* searched at any time, whichever cache lines have been written back on   *)
(* their own: insert_key writes a line back when the shift leaves it, so   *)
(* at most the line of the slot that is stored to is behind.               *)
THEOREM InsertsPersistHolds == Spec => []InsertsPersist
<1>1. Init => PageInv /\ ReaderTypes /\ Lines
  BY PageInit, ReaderTypesInit DEF Init, Lines, Off
<1>2. PageInv /\ ReaderTypes /\ Lines /\ [Next]_vars => (PageInv /\ ReaderTypes /\ Lines)'
  BY PageStep, ReaderTypesStep, LinesStep
<1>3. PageInv /\ Lines /\ Init => InsertsPersist
  <2> SUFFICES ASSUME PageInv, Init PROVE InsertsPersist
    OBVIOUS
  <2>1. AlwaysReadable /\ pm = rec
    BY Readable DEF Init
  <2> QED BY <2>1 DEF AlwaysReadable, InsertsPersist
<1>4. /\ PageInv /\ PageInv' /\ ReaderTypes /\ ReaderTypes' /\ AlwaysReadable' /\ Lines /\ InsertsPersist
      /\ [Next]_vars
      => InsertsPersist'
  BY PersistStep
<1>5. PageInv => AlwaysReadable
  BY Readable
<1> QED BY <1>1, <1>2, <1>3, <1>4, <1>5, PTL DEF Spec

(* A search without a lock that overlaps one operation at most, and that   *)
(* on another key, gives the right answer, whichever stores it sees: it    *)
(* goes the way the records move, so that it meets a key in one of the     *)
(* slots the key is in, and it takes a pointer only if the slot still has  *)
(* the key and its left neighbour another pointer.                         *)
THEOREM SearchesCorrectHolds == Spec => []SearchesCorrect
<1>1. Init => PageInv /\ ReaderTypes /\ SearchInv
  <2>1. Init => SearchInv
    <3> SUFFICES ASSUME Init PROVE SearchInv
      OBVIOUS
    <3>1. wpc = "idle" /\ \A r \in Readers : rpc[r] = "idle" /\ reader[r] = IdleReader
      BY DEF Init
    <3> QED BY <3>1, IdleScan DEF SearchInv
  <2> QED BY <2>1, PageInit, ReaderTypesInit
<1>2. PageInv /\ ReaderTypes /\ SearchInv /\ [Next]_vars => (PageInv /\ ReaderTypes /\ SearchInv)'
  BY PageStep, ReaderTypesStep, SearchStep
<1>3. SearchInv => SearchesCorrect
  <2> SUFFICES ASSUME SearchInv, NEW r \in Readers, NEW s, s = reader[r], rpc[r] = "done",
                      s.met = {} \/ (s.met = {ops} /\ s.key # last_key)
               PROVE  s.ret = IF s.key \in keys THEN ValueOf[s.key] ELSE Null
    BY DEF SearchesCorrect
  <2>1. Clear(s)
    BY DEF Clear
  <2>2. Scan("done", s)
    BY DEF SearchInv
  <2> QED BY <2>1, <2>2 DEF Scan, Right
<1> QED BY <1>1, <1>2, <1>3, PTL DEF Spec
=============================================================================
