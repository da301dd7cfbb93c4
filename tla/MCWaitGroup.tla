----------------------------- MODULE MCWaitGroup -----------------------------
(* The instance of WaitGroup for TLC: three tasks, so that a task can be    *)
(* added while one ends and another runs, and three waiters, so that waking *)
(* one, some and all sleepers differ.  No symmetry: wg_wait checks liveness. *)
EXTENDS WaitGroup
=============================================================================
