--------------------------- MODULE MCDetachedTasks ---------------------------
(* Instances of DetachedTasks for TLC. *)
EXTENDS DetachedTasks, TLC

CONSTANTS t1, t2, c1, c2, s1, s2

Symmetry == Permutations(Calls) \cup Permutations(Supervisors)
=============================================================================
