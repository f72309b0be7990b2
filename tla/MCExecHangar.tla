----------------------------- MODULE MCExecHangar -----------------------------
(* A small instance of ExecHangar for TLC: minutes of two ticks, a drift that *)
(* is not shared out evenly, and a cycle that a drift has shortened to one    *)
(* tick, in which a state has no time at all.                                 *)
EXTENDS ExecHangar

SiteSchedule == [open |-> 1, closed |-> 2, offset |-> -1]
Shortened == [open |-> 1, closed |-> 1, offset |-> -3]
Lengthened == [open |-> 2, closed |-> 1, offset |-> 3]
TwoConfigs == {Shortened, Lengthened}
=============================================================================
