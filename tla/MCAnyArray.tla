----------------------------- MODULE MCAnyArray -----------------------------
EXTENDS AnyArray

\* The names 2 and 3 have the same hash value; in the smallest table all collide.
Hashes == [k \in Keys |-> IF k = 1 THEN 2 ELSE 5]
=============================================================================
