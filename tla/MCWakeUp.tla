------------------------------- MODULE MCWakeUp -------------------------------
(* Instances of WakeUp for TLC.                                               *)
EXTENDS WakeUp, TLC

MCShowTime == [t \in Task |-> 6]

Tiers(urgent, near, far) ==
    [urgent |-> urgent, near |-> near, far |-> far, urgentWindow |-> 2, nearWindow |-> 4]
OneSetting == {Tiers(3, 3, 3)}
ShortBackoff == <<4>>

\* What happens next does not depend on the history variables of PollSchedule
\* but for passed.
WithoutHistory == <<clock, setting, rows, workers, passed, wakeVars>>

Symmetry == Permutations(Task)
=============================================================================
