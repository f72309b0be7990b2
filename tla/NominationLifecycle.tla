------------------------ MODULE NominationLifecycle ------------------------
(***************************************************************************)
(* What a nomination promises its reviewers, whatever the order in which   *)
(* members nominate, workers check and reviewers process: it is created    *)
(* new, a check classifies it, another nomination makes it new again, and  *)
(* once processed it never moves.  VALID_TRANSITIONS of                    *)
(* services/nominations/lifecycle.service.ts plus the reset to new.        *)
(***************************************************************************)
CONSTANT Handle

VARIABLE state

Checked == {"checked", "qualified", "disqualified_in_org"}
Unprocessed == {"new"} \cup Checked

ValidTransition(from, to) ==
  /\ from \in Unprocessed
  /\ to \in Checked \cup {"processed"}

Init == state = [h \in Handle |-> "absent"]

Nominated(h) ==
  /\ state[h] # "processed"
  /\ state' = [state EXCEPT ![h] = "new"]

Classified(h) ==
  \E to \in Checked : /\ ValidTransition(state[h], to)
                      /\ state' = [state EXCEPT ![h] = to]

\* One reviewer's statement may process several nominations at once.
Processed(S) ==
  /\ \A h \in S : ValidTransition(state[h], "processed")
  /\ state' = [h \in Handle |-> IF h \in S THEN "processed" ELSE state[h]]

Next ==
  \/ \E h \in Handle : Nominated(h) \/ Classified(h)
  \/ \E S \in SUBSET Handle : Processed(S)

Spec == Init /\ [][Next]_state
=============================================================================
