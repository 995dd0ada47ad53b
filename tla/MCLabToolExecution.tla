------------------------- MODULE MCLabToolExecution -------------------------
(* Requests and processes are interchangeable.                              *)
EXTENDS LabToolExecution, TLC

Symmetry == Permutations(Request) \cup Permutations(Process)
=============================================================================
