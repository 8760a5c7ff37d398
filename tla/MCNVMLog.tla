------------------------------ MODULE MCNVMLog ------------------------------
(* Two callers that take turns on a ring of two slots, so that the ring    *)
(* fills, wraps twice and carries a split in every position.               *)
EXTENDS NVMLog

CONSTANTS p1, p2, write, delete, child, blank, worker, nobody

MCProducers == {p1, p2}
MCPlain == {write, delete}
MCSplits == {child}
=============================================================================
