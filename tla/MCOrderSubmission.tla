-------------------------- MODULE MCOrderSubmission --------------------------
(* Small instances of OrderSubmission for TLC. *)
EXTENDS OrderSubmission, TLC

Symmetry == Permutations(Flow) \cup Permutations(Submit) \cup Permutations(Click)
=============================================================================
