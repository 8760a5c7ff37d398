-------------------------- MODULE LeafList_proofs --------------------------
(***************************************************************************)
(* What holds of every list of leaves, and so, by ListSpec of Routing, of  *)
(* the leaves under the model nodes.                                       *)
(***************************************************************************)
EXTENDS LeafList, FiniteSetTheorems, TLAPS

TypeOK ==
  /\ DOMAIN held \subseteq Int /\ held = [b \in DOMAIN held |-> held[b]]
  /\ \E b \in DOMAIN held : b <= Lowest
  /\ \A b \in DOMAIN held : held[b] \subseteq Keys

IInv == TypeOK /\ Placed

(* A set of integers with an upper bound has a greatest element: of the    *)
(* intervals from an element to the bound, one is the smallest.            *)
LEMMA Greatest ==
  ASSUME NEW S, S \subseteq Int, S # {}, NEW n \in Int, \A x \in S : x <= n
  PROVE  \E x \in S : \A y \in S : y <= x
<1> DEFINE I == {x .. n : x \in S}
<1>1. I \subseteq FiniteSubsetsOf(Int) /\ I # {}
  <2>1. \A x \in S : IsFiniteSet(x .. n) /\ x .. n \subseteq Int
    BY FS_Interval
  <2> QED
    BY <2>1, Zenon DEF FiniteSubsetsOf
<1>2. PICK t \in I : \A u \in I : <<u, t>> \notin StrictSubsetOrdering(Int)
  BY <1>1, WFMin, FS_StrictSubsetOrderingWellFounded
<1>3. PICK x \in S : t = x .. n
  OBVIOUS
<1>4. ASSUME NEW y \in S PROVE y <= x
  <2>1. SUFFICES ASSUME x < y PROVE FALSE
    OBVIOUS
  <2>2. y .. n \subseteq x .. n /\ x \in x .. n /\ x \notin y .. n
    BY <2>1
  <2>3. <<y .. n, x .. n>> \in StrictSubsetOrdering(Int)
    BY <2>2 DEF StrictSubsetOrdering
  <2> QED
    BY <1>2, <1>3, <2>3
<1> QED
  BY <1>4

(* Each key has a leaf. *)
LEMMA HasOwner ==
  ASSUME KeysAboveLowest, NEW D, D \subseteq Int, NEW h, DOMAIN h = D, \E b \in D : b <= Lowest,
         NEW k \in Keys
  PROVE  \E b \in D : Owns(h, b, k)
<1> DEFINE S == {b \in D : b <= k}
<1>1. S \subseteq Int /\ S # {} /\ k \in Int /\ \A x \in S : x <= k
  <2>1. k \in Int /\ Lowest \in Int /\ Lowest <= k
    BY DEF KeysAboveLowest
  <2>2. PICK b \in D : b <= Lowest
    OBVIOUS
  <2>3. b \in S
    BY <2>1, <2>2
  <2> QED
    BY <2>1, <2>3
<1>2. PICK b \in S : \A y \in S : y <= b
  BY <1>1, Greatest
<1> QED
  BY <1>2 DEF Owns

(* A list of leaves with an owner for each key leads it to one only. *)
LEMMA OneOwner ==
  ASSUME NEW h, DOMAIN h \subseteq Int, NEW a \in DOMAIN h, NEW b \in DOMAIN h, NEW k,
         Owns(h, a, k), Owns(h, b, k)
  PROVE  a = b
BY DEF Owns

LEMMA InitHolds == KeysAboveLowest /\ Init => IInv
BY DEF Init, IInv, TypeOK, Placed, KeysAboveLowest

LEMMA InsertStep ==
  ASSUME KeysAboveLowest, IInv, NEW k \in Keys, Insert(held, held', k)
  PROVE  IInv' /\ Stored(held') = Stored(held) \cup {k}
<1>1. PICK b \in DOMAIN held : Owns(held, b, k) /\ held' = [held EXCEPT ![b] = @ \cup {k}]
  BY DEF Insert
<1>2. DOMAIN held' = DOMAIN held /\ held'[b] = held[b] \cup {k}
      /\ \A c \in DOMAIN held : c # b => held'[c] = held[c]
  BY <1>1 DEF IInv, TypeOK
<1>3. TypeOK'
  BY <1>1, <1>2 DEF IInv, TypeOK
<1>4. Placed'
  BY <1>1, <1>2 DEF IInv, Placed, Owns
<1>5. Stored(held') = Stored(held) \cup {k}
  BY <1>2 DEF Stored
<1> QED
  BY <1>3, <1>4, <1>5 DEF IInv

LEMMA EraseStep ==
  ASSUME KeysAboveLowest, IInv, NEW k \in Keys, Erase(held, held', k)
  PROVE  IInv' /\ Stored(held') = Stored(held) \ {k}
<1>1. PICK b \in DOMAIN held : Owns(held, b, k) /\ held' = [held EXCEPT ![b] = @ \ {k}]
  BY DEF Erase
<1>2. DOMAIN held' = DOMAIN held /\ held'[b] = held[b] \ {k}
      /\ \A c \in DOMAIN held : c # b => held'[c] = held[c]
  BY <1>1 DEF IInv, TypeOK
<1>3. TypeOK'
  BY <1>1, <1>2 DEF IInv, TypeOK
<1>4. Placed'
  BY <1>1, <1>2 DEF IInv, Placed, Owns
<1>5. \A c \in DOMAIN held : k \in held[c] => c = b
  BY <1>1, OneOwner DEF IInv, TypeOK, Placed
<1>6. Stored(held') = Stored(held) \ {k}
  BY <1>2, <1>5 DEF Stored
<1> QED
  BY <1>3, <1>4, <1>6 DEF IInv

LEMMA DivideStep ==
  ASSUME KeysAboveLowest, IInv, Divide(held, held')
  PROVE  IInv' /\ Stored(held') = Stored(held)
<1> DEFINE D == DOMAIN held'
<1>1. DOMAIN held \subseteq D /\ D \subseteq Int
      /\ held' = [b \in D |-> {k \in Stored(held) : Owns(held', b, k)}]
  BY DEF Divide, Stored
<1>2. \A b \in D : held'[b] = {k \in Stored(held) : Owns(held', b, k)}
  BY <1>1
<1>3. Stored(held) \subseteq Keys
  BY DEF IInv, TypeOK, Stored
<1>4. TypeOK'
  BY <1>1, <1>2, <1>3 DEF IInv, TypeOK
<1>5. Placed'
  BY <1>2 DEF Placed
<1>6. \A k \in Stored(held) : \E b \in D : Owns(held', b, k)
  BY <1>1, <1>3, HasOwner DEF IInv, TypeOK
<1>7. Stored(held') = Stored(held)
  BY <1>2, <1>6 DEF Stored
<1> QED
  BY <1>4, <1>5, <1>7 DEF IInv

LEMMA JoinStep ==
  ASSUME KeysAboveLowest, IInv, NEW a \in DOMAIN held, NEW b \in DOMAIN held, Join(held, held', a, b)
  PROVE  IInv' /\ Stored(held') = Stored(held)
<1>1. /\ a < b /\ \A c \in DOMAIN held : c <= a \/ b <= c
      /\ DOMAIN held' = DOMAIN held \ {b} /\ a \in DOMAIN held'
      /\ held'[a] = held[a] \cup held[b]
      /\ \A c \in DOMAIN held' : c # a => held'[c] = held[c]
      /\ held' = [c \in DOMAIN held' |-> held'[c]]
  BY DEF Join, IInv, TypeOK
<1>2. TypeOK'
  BY <1>1 DEF IInv, TypeOK, KeysAboveLowest
<1>3. ASSUME NEW c \in DOMAIN held', NEW k \in held'[c] PROVE Owns(held', c, k)
  <2>1. CASE k \in held[c]
    BY <1>1, <2>1 DEF IInv, Placed, Owns
  <2>2. CASE k \notin held[c]
    <3>1. c = a /\ k \in held[b]
      BY <1>1, <2>2
    <3>2. Owns(held, b, k) /\ k \in Keys
      BY <3>1 DEF IInv, Placed, TypeOK
    <3> QED
      BY <1>1, <3>1, <3>2 DEF Owns, IInv, TypeOK, KeysAboveLowest
  <2> QED
    BY <2>1, <2>2
<1>4. Stored(held') = Stored(held)
  BY <1>1 DEF Stored
<1> QED
  BY <1>2, <1>3, <1>4 DEF IInv, Placed

LEMMA StepHolds ==
  ASSUME KeysAboveLowest, IInv, [Next]_held
  PROVE  IInv' /\ (\/ Stored(held') = Stored(held)
                   \/ \E k \in Keys : Stored(held') \in {Stored(held) \cup {k}, Stored(held) \ {k}})
<1>1. CASE UNCHANGED held
  BY <1>1 DEF IInv, TypeOK, Placed
<1>2. CASE Next
  BY <1>2, InsertStep, EraseStep, DivideStep, JoinStep DEF Next, Step
<1> QED
  BY <1>1, <1>2

(* Every key stays in the leaf that get_leaf finds for it, however the     *)
(* leaves are divided and joined, for all keys and boundaries.             *)
THEOREM KeysStayPlaced ==
  ASSUME KeysAboveLowest
  PROVE  Spec => []Placed
<1>1. Init => IInv
  BY InitHolds
<1>2. IInv /\ [Next]_held => IInv'
  BY StepHolds
<1>3. IInv => Placed
  BY DEF IInv
<1> QED
  BY <1>1, <1>2, <1>3, PTL DEF Spec

(* No split, expansion or merge adds a key or drops one. *)
THEOREM KeysAreKept ==
  ASSUME KeysAboveLowest
  PROVE  Spec => OneKeyAtATime
<1>1. Init => IInv
  BY InitHolds
<1>2. IInv /\ [Next]_held => IInv'
  BY StepHolds
<1>3. IInv /\ [Next]_held =>
          [\/ Stored(held') = Stored(held)
                \/ \E k \in Keys : Stored(held') \in {Stored(held) \cup {k}, Stored(held) \ {k}}]_held
  BY StepHolds
<1> QED
  BY <1>1, <1>2, <1>3, PTL DEF Spec, OneKeyAtATime
=============================================================================
