------------------------------ MODULE MCBTree ------------------------------
(* First operations that leave a single page; two leaves, one of them      *)
(* full; and three levels, once with leaves at their minimum and once with *)
(* most of them on the left: the two operations that follow meet every     *)
(* kind of split, merge and redistribution.                                *)
EXTENDS BTree
MCKeys == 1 .. 24
MCReadKeys == {8, 17}
FullRight == [j \in 1 .. 7 |-> 2 * j]
FullLeft == <<4, 6, 8, 10, 12, 2, 1, 3>>
Ascending == [j \in 1 .. 17 |-> j]
Descending == [j \in 1 .. 24 |-> 25 - j]
MCLoads == {<<>>, FullRight, FullLeft, Ascending, Descending}
=============================================================================
