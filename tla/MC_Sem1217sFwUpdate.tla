------------------------- MODULE MC_Sem1217sFwUpdate -------------------------
EXTENDS Sem1217sFwUpdate

\* Byte values: zero, one, and the largest, so that the 16-bit sum wraps.
MCBytes == {0, 1, 255}

\* Every image of 4 to 6 bytes: one chunk, a chunk and an odd byte, a chunk
\* and a pair.  The version is the last four bytes.
MCImages == UNION {[1..n -> MCBytes] : n \in 4..6}

\* A blank chip, and two versions whose bytes are each other's reverse.
MCDevVers == {<<0, 0, 0, 0>>, <<0, 0, 0, 1>>, <<1, 0, 0, 0>>}
====
