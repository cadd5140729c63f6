-------------------------- MODULE MCWorkflowLaunch --------------------------
(* Small instances of WorkflowLaunch for TLC. *)
EXTENDS WorkflowLaunch, TLC

Symmetric == Permutations(Request) \cup Permutations(Id) \cup Permutations(Deal)
=============================================================================
