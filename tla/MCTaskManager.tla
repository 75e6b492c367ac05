---------------------------- MODULE MCTaskManager ----------------------------
(* TLC instance of TaskManager.  The threads are alike: kernelMain may create *)
(* them in any order, so permuting them changes no safety property.           *)
EXTENDS TaskManager, TLC

Symmetry == Permutations(Thread)
=============================================================================
