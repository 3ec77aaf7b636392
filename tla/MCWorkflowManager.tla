------------------------- MODULE MCWorkflowManager -------------------------
(* Instances of WorkflowManager for TLC: requests, clients and workers are   *)
(* model values, interchangeable where no liveness property is checked.      *)
EXTENDS WorkflowManager, TLC

Symmetry == Permutations(Requests) \cup Permutations(Clients) \cup Permutations(Workers)
=============================================================================
