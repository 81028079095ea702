---------------------------- MODULE MCDashboard ----------------------------
(* Dashboard on a small instance: the constants of the run. *)
EXTENDS Dashboard

CONSTANT p1

MCOutcomeOf == [r \in Payers |-> IF r = p1 THEN "SUCCESS" ELSE "FAILED"]

MCKeyOf == [r \in Payers |-> "key"]

\* The midnight of the instance is that of the seventh day after the seed and
\* of a month, so the seeded rows leave both periods with it.
MCMonthStarts == {-23, 7, 37}
=============================================================================
