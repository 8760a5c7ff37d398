----------------------------- MODULE MCFastPage -----------------------------
EXTENDS FastPage
CONSTANTS r1
MCKeys == 1 .. 4
MCValueOf == [k \in MCKeys |-> k + 10]
MCTop == 9
MCReaders == {r1}
=============================================================================
