----------------------------- MODULE MCCommands -----------------------------
(* Commands on small instances: the constants of the runs. *)
EXTENDS Commands, TLC

CONSTANTS d1, d2

MCDeviceOf == [c \in CommandIds |-> d1]
MCCreatedAt == [c \in CommandIds |-> 0]

Result(outcome, code) == [result |-> outcome, code |-> code, message |-> None]

TwoOutcomes == {Result("SUCCESS", None), Result("FAILED", << "HW" >>)}
EveryOutcome == TwoOutcomes \cup {Result("DONE", None)}

SlotSymmetry == Permutations(Slots)
=============================================================================
