--------------------------- MODULE MCNominations ---------------------------
(* Small instances of Nominations for TLC. *)
EXTENDS Nominations, TLC

Symmetry == Permutations(Handle) \cup Permutations(User)
              \cup Permutations(Request) \cup Permutations(Admin)
=============================================================================
