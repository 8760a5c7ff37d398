------------------------------ MODULE LeafList ------------------------------
(***************************************************************************)
(* What the model nodes promise: each leaf has the keys from its boundary  *)
(* up to the next one, and leaves are only ever divided at new boundaries, *)
(* or joined when one of them is empty.                                    *)
(***************************************************************************)
EXTENDS Integers

CONSTANTS Keys, Lowest    \* numeric_limits<T>::lowest(), the first boundary

(* Whoever uses this module has to see to it. *)
KeysAboveLowest == Keys \subseteq Int /\ Lowest \in Int /\ \A k \in Keys : Lowest <= k

VARIABLE held             \* boundary -> the keys of the leaf that begins there

(* In h, the leaf that begins at b is the one for key k. *)
Owns(h, b, k) == b <= k /\ \A c \in DOMAIN h : c <= k => c <= b

Init == held = [b \in {Lowest} |-> {}]

(* The ways from h to g. *)
Insert(h, g, k) == \E b \in DOMAIN h : Owns(h, b, k) /\ g = [h EXCEPT ![b] = @ \cup {k}]
Erase(h, g, k) == \E b \in DOMAIN h : Owns(h, b, k) /\ g = [h EXCEPT ![b] = @ \ {k}]

(* New boundaries: each key is now with the leaf that has become its own.  *)
Divide(h, g) ==
  /\ DOMAIN h \subseteq DOMAIN g /\ DOMAIN g \subseteq Int
  /\ g = [b \in DOMAIN g |-> {k \in UNION {h[c] : c \in DOMAIN h} : Owns(g, b, k)}]

(* The leaves that begin at a and, next after it, at b become one. *)
Join(h, g, a, b) ==
  /\ a < b /\ \A c \in DOMAIN h : c <= a \/ b <= c
  /\ h[a] = {} \/ h[b] = {}
  /\ g = [c \in DOMAIN h \ {b} |-> IF c = a THEN h[a] \cup h[b] ELSE h[c]]

Step(h, g) ==
  \/ \E k \in Keys : Insert(h, g, k) \/ Erase(h, g, k)
  \/ Divide(h, g)
  \/ \E a, b \in DOMAIN h : Join(h, g, a, b)

Next == \E h \in {held}, g \in {held'} : Step(h, g)

Spec == Init /\ [][Next]_held

-----------------------------------------------------------------------------
(* Each key is in the leaf that lookups of it reach, and so in one leaf. *)
Placed == \A b \in DOMAIN held : \A k \in held[b] : Owns(held, b, k)

(* Splits, expansions and merges keep the keys: what all leaves hold       *)
(* changes by the key inserted or erased.                                  *)
Stored(h) == UNION {h[b] : b \in DOMAIN h}
OneKeyAtATime ==
  [][\/ Stored(held') = Stored(held)
     \/ \E k \in Keys : Stored(held') \in {Stored(held) \cup {k}, Stored(held) \ {k}}]_held
=============================================================================
