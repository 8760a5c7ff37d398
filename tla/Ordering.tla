------------------------------ MODULE Ordering ------------------------------
(***************************************************************************)
(* Finite sets of numbers in increasing order, and sequences with some     *)
(* elements left out.                                                      *)
(***************************************************************************)
EXTENDS Integers, Sequences, FiniteSets

(* The sequence of the elements of S: the i-th has i - 1 elements below.   *)
Below(S, x) == {y \in S : y < x}
Ordered(S) == [i \in 1 .. Cardinality(S) |-> CHOOSE x \in S : Cardinality(Below(S, x)) = i - 1]

(* The elements of s that are not in S, in the order of s.                 *)
Omit(s, S) ==
  LET at == Ordered({j \in DOMAIN s : s[j] \notin S})
  IN  [i \in DOMAIN at |-> s[at[i]]]
=============================================================================
