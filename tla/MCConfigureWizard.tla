-------------------------- MODULE MCConfigureWizard --------------------------
(* Small instances of ConfigureWizard for TLC. *)
EXTENDS ConfigureWizard, TLC

\* A session for two scheduled features, and one for verification alone
TwoLists == {<<"digest", "purge">>, <<"verification">>}

\* The environment sets one of them.
EnvOfDigest == [f \in Feature |-> IF f = "digest" THEN 1 ELSE Off]

TwoDigests == [f \in Feature |-> IF f = "digest" THEN {1, 2} ELSE {1}]

Symmetry == Permutations(Press)
=============================================================================
