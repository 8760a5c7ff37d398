---------------------------- MODULE MCAlgorithms ----------------------------
(* Three parts that do not meet, each with its inputs: every bitmap of up  *)
(* to MaxCapacity positions, reachable or not, for closest_gap; a fanout   *)
(* tree with few keys and costs; and the leaves among which the hot ones   *)
(* are chosen.                                                             *)
EXTENDS MCDataNode, FanoutTree, HotNodes
CONSTANT MaxCapacity

ASSUME FanoutAssumption
ASSUME {IdWidth, MaxRounds} \subseteq Nat
ASSUME HotAssumption

VARIABLE part

NoBitmap == [key_slots |-> [j \in {0} |-> kEndSentinel], bitmap |-> {}]
Bitmap ==
  \E capacity \in 1 .. MaxCapacity :
    \E filled \in SUBSET (0 .. capacity - 1) :
      node = [key_slots |-> [j \in 0 .. capacity - 1 |-> kEndSentinel], bitmap |-> filled]

Finest == 0 .. Pow2[MaxLevel] - 1
Counts(f) == [n \in Nodes |-> Cardinality({b \in Span(n, MaxLevel) : f[b]})]
Tree ==
  \E filled \in [Finest -> BOOLEAN], cost_ \in [Nodes -> {0, 1, 5}], existing \in BOOLEAN :
    /\ \E b \in Finest : filled[b]
    /\ tree = [keys |-> Counts(filled), cost |-> cost_, existing |-> existing]
NoTree == [keys |-> [n \in Nodes |-> 0], cost |-> [n \in Nodes |-> 0], existing |-> TRUE]

AlgorithmsInit ==
  /\ HotInit
  /\ \/ part = "gap" /\ Bitmap /\ tree = NoTree
     \/ part = "fanout" /\ Tree /\ node = NoBitmap
     \/ part = "hot" /\ tree = NoTree /\ node = NoBitmap

AlgorithmsNext ==
  /\ part = "hot" /\ HotNext
  /\ UNCHANGED <<part, node, tree>>

AlgorithmsSpec == AlgorithmsInit /\ [][AlgorithmsNext]_<<part, node, tree, vars>>
=============================================================================
