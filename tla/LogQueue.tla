------------------------------ MODULE LogQueue ------------------------------
(***************************************************************************)
(* What the operation log of a hot node promises to its node, whatever the *)
(* ring buffer does underneath: a bounded first-in-first-out queue of      *)
(* accepted operations, each of which reaches the B+tree in the order it   *)
(* was accepted in.  A crash may lose the operations still queued, all of  *)
(* them, and nothing that has reached the tree.                            *)
(***************************************************************************)
EXTENDS Naturals, Sequences

CONSTANTS Entries,   \* the log entries (LogNode values)
          Slots      \* how many entries the log holds

VARIABLES pending,   \* accepted operations the tree does not have yet
          applied    \* operations that reached the tree, in order

vars == <<pending, applied>>

Init == pending = <<>> /\ applied = <<>>

Accept(e) == /\ Len(pending) < Slots
             /\ pending' = Append(pending, e)
             /\ UNCHANGED applied

Apply == /\ pending # <<>>
         /\ applied' = Append(applied, Head(pending))
         /\ pending' = Tail(pending)

Lose == pending' = <<>> /\ UNCHANGED applied

Next == Apply \/ Lose \/ \E e \in Entries : Accept(e)

Spec == Init /\ [][Next]_vars
=============================================================================
