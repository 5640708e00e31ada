----------------------------- MODULE MCHostStatus -----------------------------
EXTENDS HostStatus

\* Clocks that are behind, right and ahead; and clocks that are right.
LagsBoth == {-1, 0, 1}
LagsNone == {0}
=============================================================================
