------------------------------ MODULE FastPage ------------------------------
(***************************************************************************)
(* One leaf page of the persistent B+tree (class page): the FAST shifts of *)
(* insert_key and remove_key, one eight-byte store at a time, a reader     *)
(* that searches the page without a lock while they run, and the cache     *)
(* lines through which stores reach persistent memory.  The build is -O0   *)
(* (Makefile:1), so stores and loads happen in program order.              *)
(***************************************************************************)
EXTENDS Naturals, Integers, FiniteSets

CONSTANTS Card,        \* cardinality: slots of the page
          PerLine,     \* count_in_line: records of a cache line
          HeaderSlots, \* records' worth of space the header takes
          Keys,        \* keys the callers use, naturals
          ValueOf,     \* the pointer stored with each key
          Top,         \* LONG_MAX, the key of a slot never used
          Readers,     \* threads searching the page
          MaxOps,      \* bound: operations on the page
          Evicting     \* whether cache lines are written back on their own

Null == 0      \* NULL, also leftmost_ptr of a leaf
Slots == 0 .. Card - 1

ASSUME CardAssumption == Card \in Nat /\ Card > 1
ASSUME KeysAssumption == Keys \subseteq Nat /\ Top \in Nat /\ \A k \in Keys : k < Top
ASSUME ValuesAssumption ==
  /\ ValueOf \in [Keys -> Nat \ {Null}]
  /\ \A j, k \in Keys : ValueOf[j] = ValueOf[k] => j = k
ASSUME MaxOpsAssumption == MaxOps \in Nat
ASSUME LineAssumption == PerLine \in Nat \ {0} /\ HeaderSlots \in Nat

VARIABLES
  rec,          \* records[], as the threads read it
  pm,           \* records[], as persistent memory holds it
  switch,       \* hdr.switch_counter
  last_index,   \* hdr.last_index
  wpc, key, i, num_entries,  \* the writer: position, key, loop index, count
  last_key,     \* the key of the latest operation
  keys,         \* the keys the completed operations leave in the page
  ops,          \* operations so far
  rpc, reader   \* each reader's position and locals

wvars == <<rec, pm, switch, last_index, wpc, key, i, num_entries, last_key, keys, ops>>
rvars == <<rpc, reader>>
vars == <<wvars, rvars>>

Record == [key : Keys \cup {Top}, ptr : {ValueOf[k] : k \in Keys} \cup {Null}]
IdleReader == [key |-> Top, i |-> 0, prev |-> 0, left |-> Null, t |-> Null,
               ret |-> Null, met |-> {}]

TypeOK ==
  /\ rec \in [Slots -> Record] /\ pm \in [Slots -> Record]
  /\ switch \in Nat /\ last_index \in -1 .. Card - 2
  /\ wpc \in {"idle", "empty_key", "empty_ptr", "empty_end", "open", "shift", "shift_key",
              "place", "place_key", "place_ptr", "insert_end", "scan", "pull_key", "pull_ptr",
              "remove_end"}
  /\ key \in Keys \cup {Top} /\ i \in -1 .. Card /\ num_entries \in 0 .. Card
  /\ keys \subseteq Keys /\ ops \in 0 .. MaxOps /\ last_key \in Keys \cup {Top}
  /\ rpc \in [Readers -> {"idle", "test_end", "key", "left", "ptr", "again", "switch", "done"}]
  /\ \A r \in Readers : reader[r].ret \in {ValueOf[k] : k \in Keys} \cup {Null}

-----------------------------------------------------------------------------
Forward(s) == s % 2 = 0                              \* IS_FORWARD
Least(S) == CHOOSE x \in S : \A y \in S : x <= y
Greatest(S) == CHOOSE x \in S : \A y \in S : x >= y
NullsIn(p, S) == {j \in S : p[j].ptr = Null}

(* page::count, starting from the hint last_index in the scan direction.   *)
Count(p, s, last) ==
  LET above == NullsIn(p, last + 1 .. Card - 1)
      below == NullsIn(p, 0 .. last + 1)
  IN  IF Forward(s) THEN Least(above)
      ELSE IF below # {} THEN Greatest(below) ELSE Least(NullsIn(p, Slots))

(* page::linear_search on a leaf that does not change meanwhile.           *)
Hit(p, k, j) == p[j].key = k /\ p[j].ptr # Null /\ (j = 0 \/ p[j].ptr # p[j - 1].ptr)
Search(p, s, last, k) ==
  LET end  == Least(NullsIn(p, 1 .. Card - 1))
      fwd  == {j \in 0 .. end - 1 : Hit(p, k, j)}
      bwd  == {j \in 0 .. Count(p, s, last) - 1 : Hit(p, k, j)}
  IN  IF Forward(s)
      THEN IF fwd = {} THEN Null ELSE p[Least(fwd)].ptr
      ELSE IF bwd = {} THEN Null ELSE p[Greatest(bwd)].ptr

(* page::linear_search_range: in either direction the walk returns at the  *)
(* first key above max.                                                    *)
SearchRange(p, s, last, min, max) ==
  LET end     == IF Forward(s) THEN Least(NullsIn(p, 1 .. Card - 1)) ELSE Count(p, s, last)
      walked(j) == IF Forward(s) THEN 0 .. j ELSE j .. end - 1
  IN  {p[j].key : j \in {j \in 0 .. end - 1 :
         /\ p[j].ptr # Null /\ (j > 0 => p[j].ptr # p[j - 1].ptr)
         /\ p[j].key \in min .. max
         /\ \A w \in walked(j) : p[w].key < min \/ p[w].key <= max}}

-----------------------------------------------------------------------------
(* Cache lines.  pmemobj_persist writes a line back; the cache may write   *)
(* any line back at any time.                                              *)
LineOf(j) == {w \in Slots : (w + HeaderSlots) \div PerLine = (j + HeaderSlots) \div PerLine}
StartsLine(j) == (j + HeaderSlots) % PerLine = 0

WriteBack(S) == pm' = [j \in Slots |-> IF j \in S THEN rec'[j] ELSE pm[j]]
Store(j, field, x) == rec' = [rec EXCEPT ![j][field] = x]
Unflushed == UNCHANGED pm
FlushAtLineStart(j) == IF StartsLine(j) THEN WriteBack(LineOf(j)) ELSE UNCHANGED pm

Evict(j) ==
  /\ Evicting /\ pm # rec
  /\ UNCHANGED rec /\ WriteBack(LineOf(j))
  /\ UNCHANGED <<switch, last_index, wpc, key, i, num_entries, last_key, keys, ops, rvars>>

(* met: the operations, by number, that ran while a search did.            *)
Meet == reader' = [r \in Readers |-> IF rpc[r] = "idle" THEN reader[r]
                                     ELSE [reader[r] EXCEPT !.met = @ \cup {ops'}]]

Init ==
  /\ rec = [j \in Slots |-> [key |-> Top, ptr |-> Null]] /\ pm = rec
  /\ switch = 0 /\ last_index = -1
  /\ wpc = "idle" /\ key = Top /\ i = 0 /\ num_entries = 0
  /\ keys = {} /\ ops = 0 /\ last_key = Top
  /\ rpc = [r \in Readers |-> "idle"] /\ reader = [r \in Readers |-> IdleReader]

-----------------------------------------------------------------------------
(* Defect: a full page takes one more record. *)
InsertIntoFull(k) ==
  /\ wpc = "idle" /\ ops < MaxOps /\ k \notin keys
  /\ num_entries' = Count(rec, switch, last_index)
  /\ switch' = IF Forward(switch) THEN switch ELSE switch + 1
  /\ wpc' = IF num_entries' = 0 THEN "empty_key" ELSE "open"
  /\ key' = k /\ last_key' = k /\ i' = num_entries' - 1
  /\ ops' = ops + 1
  /\ Meet
  /\ UNCHANGED <<rec, pm, last_index, keys, rpc>>

(* insert_key, on a page that store() found not full.                      *)
Insert(k) ==
  /\ wpc = "idle" /\ ops < MaxOps /\ k \notin keys
  /\ num_entries' = Count(rec, switch, last_index)
  /\ num_entries' < Card - 1
  /\ switch' = IF Forward(switch) THEN switch ELSE switch + 1
  /\ wpc' = IF num_entries' = 0 THEN "empty_key" ELSE "open"
  /\ key' = k /\ last_key' = k /\ i' = num_entries' - 1
  /\ ops' = ops + 1
  /\ Meet
  /\ UNCHANGED <<rec, pm, last_index, keys, rpc>>

Step(from, to) == wpc = from /\ wpc' = to
Frame == UNCHANGED <<switch, last_index, key, num_entries, last_key, keys, ops, rvars>>

EmptyKey == /\ Step("empty_key", "empty_ptr")
            /\ Store(0, "key", key) /\ Unflushed /\ Frame /\ UNCHANGED i

EmptyPtr == /\ Step("empty_ptr", "empty_end")
            /\ Store(0, "ptr", ValueOf[key]) /\ Unflushed /\ Frame /\ UNCHANGED i

EmptyEnd == /\ Step("empty_end", "insert_end")
            /\ Store(1, "ptr", Null) /\ WriteBack(LineOf(0)) /\ Frame /\ UNCHANGED i

OpenSlot == /\ Step("open", "shift")
            /\ Store(num_entries + 1, "ptr", rec[num_entries].ptr)
            /\ FlushAtLineStart(num_entries + 1)
            /\ Frame /\ UNCHANGED i

LeftOfRecord == i >= 0 /\ key < rec[i].key

(* Move record i one slot right: its pointer first, then its key.          *)
ShiftPtr == /\ Step("shift", "shift_key")
            /\ LeftOfRecord
            /\ Store(i + 1, "ptr", rec[i].ptr) /\ Unflushed /\ Frame /\ UNCHANGED i

(* Defect: a line that was shifted is not written back. *)
ShiftKeyUnflushed ==
  /\ Step("shift_key", "shift")
  /\ Store(i + 1, "key", rec[i].key) /\ Unflushed
  /\ i' = i - 1
  /\ Frame

ShiftKey == /\ Step("shift_key", "shift")
            /\ Store(i + 1, "key", rec[i].key) /\ FlushAtLineStart(i + 1)
            /\ i' = i - 1
            /\ Frame

(* Defect: the slot does not get the left pointer first. *)
PlaceLeftSkipped ==
  /\ Step("shift", "place_key")
  /\ ~LeftOfRecord
  /\ UNCHANGED <<rec, pm, i>> /\ Frame

(* Place the key right of record i: the slot first gets the left pointer,  *)
(* which makes readers skip it, then the key, then its own pointer.        *)
PlaceLeft == /\ Step("shift", "place_key")
             /\ ~LeftOfRecord
             /\ Store(i + 1, "ptr", IF i < 0 THEN Null ELSE rec[i].ptr)
             /\ Unflushed /\ Frame /\ UNCHANGED i

PlaceKey == /\ Step("place_key", "place_ptr")
            /\ Store(i + 1, "key", key) /\ Unflushed /\ Frame /\ UNCHANGED i

PlacePtr == /\ Step("place_ptr", "insert_end")
            /\ Store(i + 1, "ptr", ValueOf[key]) /\ WriteBack(LineOf(i + 1))
            /\ Frame /\ UNCHANGED i

InsertEnd ==
  /\ Step("insert_end", "idle")
  /\ last_index' = num_entries
  /\ keys' = keys \cup {key} /\ key' = Top
  /\ UNCHANGED <<rec, pm, switch, i, num_entries, last_key, ops, rvars>>

-----------------------------------------------------------------------------
(* Defect: the switch counter is left alone. *)
RemoveSameDirection(k) ==
  /\ wpc = "idle" /\ ops < MaxOps /\ k \in keys
  /\ wpc' = "scan" /\ key' = k /\ last_key' = k /\ i' = 0
  /\ ops' = ops + 1
  /\ Meet
  /\ UNCHANGED <<rec, pm, switch, last_index, num_entries, keys, rpc>>

(* remove_key: a forward scan that pulls every record after the key left.  *)
Remove(k) ==
  /\ wpc = "idle" /\ ops < MaxOps /\ k \in keys
  /\ switch' = IF Forward(switch) THEN switch + 1 ELSE switch
  /\ wpc' = "scan" /\ key' = k /\ last_key' = k /\ i' = 0
  /\ ops' = ops + 1
  /\ Meet
  /\ UNCHANGED <<rec, pm, last_index, num_entries, keys, rpc>>

ScanOn == /\ Step("scan", "scan")
          /\ rec[i].ptr # Null /\ rec[i].key # key
          /\ i' = i + 1
          /\ UNCHANGED <<rec, pm>> /\ Frame

(* The removed slot first gets the pointer on its left.                    *)
Unlink == /\ Step("scan", "pull_key")
          /\ rec[i].ptr # Null /\ rec[i].key = key
          /\ Store(i, "ptr", IF i = 0 THEN Null ELSE rec[i - 1].ptr)
          /\ Unflushed /\ Frame /\ UNCHANGED i

PullKey == /\ Step("pull_key", "pull_ptr")
           /\ Store(i, "key", rec[i + 1].key) /\ Unflushed /\ Frame /\ UNCHANGED i

PullPtr == /\ wpc = "pull_ptr"
           /\ Store(i, "ptr", rec[i + 1].ptr) /\ FlushAtLineStart(i)
           /\ i' = i + 1
           /\ wpc' = IF rec'[i + 1].ptr = Null THEN "remove_end" ELSE "pull_key"
           /\ Frame

(* Defect: last_index is not moved. *)
RemoveEndKeepsHint ==
  /\ Step("remove_end", "idle")
  /\ keys' = keys \ {key} /\ key' = Top
  /\ UNCHANGED <<rec, pm, switch, last_index, i, num_entries, last_key, ops, rvars>>

RemoveEnd ==
  /\ Step("remove_end", "idle")
  /\ last_index' = last_index - 1
  /\ keys' = keys \ {key} /\ key' = Top
  /\ UNCHANGED <<rec, pm, switch, i, num_entries, last_key, ops, rvars>>

-----------------------------------------------------------------------------
(* linear_search, one load at a time.  Only count() is taken at once.      *)
Begin(r, k) ==
  LET fwd == Forward(switch)
      from == IF fwd THEN 0 ELSE Count(rec, switch, last_index) - 1
  IN  /\ rpc' = [rpc EXCEPT ![r] = "key"]
      /\ reader' = [reader EXCEPT ![r] =
           [key |-> k, i |-> IF from < 0 THEN 0 ELSE from, prev |-> switch, left |-> Null,
            t |-> Null, ret |-> Null,
            met |-> reader[r].met \cup (IF wpc = "idle" THEN {} ELSE {ops})]]
      /\ UNCHANGED wvars

StartSearch(r, k) == rpc[r] = "idle" /\ Begin(r, k)

Goto(r, label, changed) ==
  /\ rpc' = [rpc EXCEPT ![r] = label]
  /\ reader' = [reader EXCEPT ![r] = changed]
  /\ UNCHANGED wvars

(* On to the next slot in the scan direction, or to the end of the scan.   *)
Advance(r) ==
  LET s == reader[r]
  IN  IF Forward(s.prev) THEN Goto(r, "test_end", [s EXCEPT !.i = @ + 1])
      ELSE IF s.i > 0 THEN Goto(r, "key", [s EXCEPT !.i = @ - 1])
      ELSE Goto(r, "switch", s)

TestEnd(r) ==
  /\ rpc[r] = "test_end"
  /\ Goto(r, IF rec[reader[r].i].ptr = Null THEN "switch" ELSE "key", reader[r])

ReadKey(r) ==
  /\ rpc[r] = "key"
  /\ IF rec[reader[r].i].key = reader[r].key
     THEN Goto(r, IF reader[r].i = 0 THEN "ptr" ELSE "left",
               [reader[r] EXCEPT !.left = Null])
     ELSE Advance(r)

ReadLeft(r) ==
  /\ rpc[r] = "left"
  /\ Goto(r, "ptr", [reader[r] EXCEPT !.left = rec[reader[r].i - 1].ptr])

ReadPtr(r) ==
  LET t == rec[reader[r].i].ptr
  IN  /\ rpc[r] = "ptr"
      /\ IF t # reader[r].left /\ (Forward(reader[r].prev) \/ t # Null)
         THEN Goto(r, "again", [reader[r] EXCEPT !.t = t])
         ELSE Advance(r)

RereadKey(r) ==
  /\ rpc[r] = "again"
  /\ IF rec[reader[r].i].key = reader[r].key
     THEN Goto(r, "switch", [reader[r] EXCEPT !.ret = reader[r].t])
     ELSE Advance(r)

(* The search is repeated when the switch counter has moved.               *)
TestSwitch(r) ==
  /\ rpc[r] = "switch"
  /\ IF switch = reader[r].prev THEN Goto(r, "done", reader[r]) ELSE Begin(r, reader[r].key)

FinishSearch(r) == rpc[r] = "done" /\ Goto(r, "idle", IdleReader)

WriterStep ==
  \/ EmptyKey \/ EmptyPtr \/ EmptyEnd \/ OpenSlot \/ ShiftPtr \/ ShiftKey \/ PlaceLeft
  \/ PlaceKey \/ PlacePtr \/ InsertEnd \/ ScanOn \/ Unlink \/ PullKey \/ PullPtr \/ RemoveEnd

ReaderStep(r) ==
  \/ TestEnd(r) \/ ReadKey(r) \/ ReadLeft(r) \/ ReadPtr(r) \/ RereadKey(r) \/ TestSwitch(r)
  \/ FinishSearch(r)

Next ==
  \/ \E k \in Keys : Insert(k) \/ Remove(k)
  \/ WriterStep
  \/ \E j \in Slots : Evict(j)
  \/ \E r \in Readers : ReaderStep(r) \/ \E k \in Keys : StartSearch(r, k)

Spec == Init /\ [][Next]_vars

-----------------------------------------------------------------------------
(* Every store leaves a page a search can use: a search of the page as it  *)
(* is between two stores, by a thread or after a stop of the process,      *)
(* finds every key no operation is working on, and no other.               *)
AlwaysReadable ==
  \A k \in Keys \ {key} :
    Search(rec, switch, last_index, k) = IF k \in keys THEN ValueOf[k] ELSE Null

(* Between operations the records are sorted, and count() agrees with the  *)
(* number of keys from the hint it starts at, in both directions.          *)
RestingOrder ==
  wpc = "idle" =>
    LET n == Cardinality(keys)
    IN  /\ {rec[j].key : j \in 0 .. n - 1} = keys
        /\ \A j \in 1 .. n - 1 : rec[j - 1].key < rec[j].key
        /\ Count(rec, 0, last_index) = n /\ Count(rec, 1, last_index) = n

(* A lock-free search that meets at most one operation, and that on        *)
(* another key, gives the right answer however the records are shifted     *)
(* under it.                                                               *)
SearchesCorrect ==
  \A r \in Readers :
    LET s == reader[r]
    IN  rpc[r] = "done" /\ (s.met = {} \/ (s.met = {ops} /\ s.key # last_key))
          => s.ret = IF s.key \in keys THEN ValueOf[s.key] ELSE Null

(* Until the first removal, whatever lines the cache has written back, a   *)
(* search of the records that persistent memory holds finds every key no   *)
(* operation is working on.  remove_key writes back only the slots that    *)
(* start a line, so from the first removal on the last lines it shifted    *)
(* may be missing.                                                         *)
InsertsPersist ==
  switch = 0 => \A k \in Keys \ {key} :
    Search(pm, switch, last_index, k) = IF k \in keys THEN ValueOf[k] ELSE Null

(* btree.cc:130 "Function to search keys from "min" to "max"": between     *)
(* operations a range search returns the keys of the range.                *)
RangeExact ==
  wpc = "idle" =>
    \A min, max \in Keys :
      SearchRange(rec, switch, last_index, min, max) = keys \cap (min .. max)
=============================================================================
