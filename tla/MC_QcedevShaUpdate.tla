------------------------- MODULE MC_QcedevShaUpdate -------------------------
EXTENDS QcedevShaUpdate

\* Buffers of up to five bytes against a two-byte block and a four-byte
\* engine operation: updates that stay in the trailing buffer, that fill
\* it exactly, that need one buffer split and that group two buffers.
MCLens == {0, 1, 3, 5}
====
