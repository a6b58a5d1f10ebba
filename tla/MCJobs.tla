------------------------------- MODULE MCJobs -------------------------------
(* Model values for Jobs. *)
EXTENDS Jobs

CONSTANTS j1, j2, w1, a1, f1

(* Both jobs name the same file. *)
SharedFile == [j \in Jobs |-> f1]
=============================================================================
