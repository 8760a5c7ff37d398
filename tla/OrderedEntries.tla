--------------------------- MODULE OrderedEntries ---------------------------
(***************************************************************************)
(* What a data node promises: its entries in key order, entries of the     *)
(* same key in the order they were inserted.                               *)
(***************************************************************************)
EXTENDS Ordering

CONSTANTS Keys,    \* numbers
          Payloads

VARIABLE entries   \* sequence of [key, payload]

Entry == [key : Keys, payload : Payloads]
Sorted(s) == \A a, b \in DOMAIN s : a < b => s[a].key <= s[b].key

Init == entries = <<>>

Insert(k, p) ==
  LET above == {e \in Entry : e.key > k}
      upTo == {e \in Entry : e.key <= k}
  IN  entries' = Omit(entries, above) \o <<[key |-> k, payload |-> p]>> \o Omit(entries, upTo)

(* Erase all entries with a key of K.                                      *)
Erase(K) == entries' = Omit(entries, {e \in Entry : e.key \in K})

(* Erase the first entry inserted with key k.                              *)
EraseOne(k) ==
  \E a \in DOMAIN entries :
    /\ entries[a].key = k /\ \A b \in 1 .. a - 1 : entries[b].key # k
    /\ entries' = SubSeq(entries, 1, a - 1) \o SubSeq(entries, a + 1, Len(entries))

(* The leaf is given up to persistent memory and read back, or keeps one   *)
(* side of a split.                                                        *)
Load == \/ entries = <<>> /\ entries' \in Seq(Entry) /\ Sorted(entries')
        \/ entries' = <<>>

Next == \/ \E k \in Keys : EraseOne(k) \/ \E p \in Payloads : Insert(k, p)
        \/ \E K \in SUBSET Keys : Erase(K)
        \/ Load

Spec == Init /\ [][Next]_entries
=============================================================================
