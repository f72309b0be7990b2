------------------------- MODULE MCMemberVerification -------------------------
(* One member, two handles and two presses that may overlap.  Handles and    *)
(* presses are interchangeable.                                              *)
EXTENDS MemberVerification, TLC

Symmetry == Permutations(Handle) \cup Permutations(Press)
=============================================================================
