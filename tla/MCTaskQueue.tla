----------------------------- MODULE MCTaskQueue -----------------------------
(* TaskQueue for TLC: instances are interchangeable, tasks are not (the     *)
(* source takes the least id).                                              *)
EXTENDS TaskQueue, TLC

Symmetry == Permutations(Instances)
=============================================================================
