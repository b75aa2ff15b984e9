------------------------ MODULE MC_QcedevHashSession ------------------------
EXTENDS QcedevHashSession

CONSTANTS t1, t2

====
