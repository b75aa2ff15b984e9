-------------------------- MODULE MC_QcedevBandwidth --------------------------
EXTENDS QcedevBandwidth, TLC

CONSTANTS h1, h2, h3

\* Three handles: a first open, a second one riding on its vote, and a
\* third so that the count passes 2 and the last release is not the first.
MCHandles == {h1, h2, h3}

\* The handles are interchangeable: nothing in the code tells them apart.
Sym == Permutations(MCHandles)
====
