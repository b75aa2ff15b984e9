------------------------ MODULE MC_QcedevCipherChunker ------------------------
EXTENDS QcedevCipherChunker

\* Three buffers of up to five bytes against a four-byte engine operation:
\* requests that fit, that need one buffer split (len > max_data_xfer),
\* that group several buffers, and that use all QCEDEV_MAX_BUFFERS entries.
MCLens == 0 .. 5
====
