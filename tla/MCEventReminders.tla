-------------------------- MODULE MCEventReminders --------------------------
(* Small instances of EventReminders for TLC. *)
EXTENDS EventReminders, TLC

Symmetry == Permutations(Tick)
=============================================================================
