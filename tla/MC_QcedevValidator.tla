------------------------- MODULE MC_QcedevValidator -------------------------
EXTENDS QcedevValidator

\* Lengths that wrap a 3-bit total: 7 + 1, 7 + 2, 2 + 7.
MCLens == {0, 1, 2, 7}
====
