-------------------------- MODULE StandaloneLruMC --------------------------
EXTENDS StandaloneLru
Cells == 1..5
Deadlines == {0, 1}
\* In the runs about the eviction order alone, which no answer is part of.
View == <<db, now, loop_tick, up, recency>>
Symmetry == Permutations(Key) \cup Permutations(Value)
=============================================================================
