---------------------------- MODULE MC_MmiSysTemp ----------------------------
EXTENDS MmiSysTemp, TLC

CONSTANTS t1, t2, w

\* Two user tasks, so that two SET_TEMP ioctls can overlap.
MCThreads == {t1, t2}

\* A cool value, two values in the same degree at the threshold and one a
\* degree above it.
MCTemps == {0, 40300, 40700, 41000}

\* The tasks are interchangeable: nothing in the driver tells them apart.
Sym == Permutations(MCThreads)
====
