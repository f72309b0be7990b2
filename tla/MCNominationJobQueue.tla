------------------------ MODULE MCNominationJobQueue ------------------------
(* Small instances of NominationJobQueue for TLC. *)
EXTENDS NominationJobQueue, TLC

\* Handles are interchangeable; used by the runs without liveness properties.
Symmetry == Permutations(Handle)
=============================================================================
