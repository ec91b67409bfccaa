---------------------------- MODULE MCModelCache ----------------------------
(* Unique values, writers and readers are interchangeable.                   *)
EXTENDS ModelCache, TLC

CONSTANTS p1, p2

Renamed == Permutations(Uniq) \cup Permutations(Writer) \cup Permutations(Reader)

All == Cleaning \cup {"UpdateFields", "Delete", "DeleteBatch"}

\* One row and everything that may go wrong; two rows, the methods that clear
\* the cache, and no lookup that overlaps a write.
MCSettings == {[methods |-> All, pks |-> {p1},
                racing |-> TRUE, cluster |-> TRUE, faults |-> TRUE],
               [methods |-> Cleaning, pks |-> {p1, p2},
                racing |-> FALSE, cluster |-> FALSE, faults |-> FALSE]}
=============================================================================
