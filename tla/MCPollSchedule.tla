---------------------------- MODULE MCPollSchedule ----------------------------
(* Instances of PollSchedule for TLC.                                         *)
EXTENDS PollSchedule, TLC

\* Shows in the middle of the run, so that tasks pass through the tiers.
MCShowTime == [t \in Task |-> 6]

Tiers(urgent, near, far) ==
    [urgent |-> urgent, near |-> near, far |-> far, urgentWindow |-> 2, nearWindow |-> 4]
TwoSettings == {Tiers(3, 3, 4), Tiers(4, 3, 5)}
ShortBackoff == <<4, 6>>

Symmetry == Permutations(Task) \cup Permutations(Worker)
=============================================================================
