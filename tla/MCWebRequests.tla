----------------------------- MODULE MCWebRequests -----------------------------
(* Instances of WebRequests for TLC: the owner made by the migration and one   *)
(* address that is invited, to which the tasks belong.                         *)
EXTENDS WebRequests, TLC

CONSTANTS u0, u1, tasksOfLegacy

MCUser == {u0, u1}
MCOwnerOf == [t \in Task |-> IF t \in tasksOfLegacy THEN u0 ELSE u1]
MCEmailOf == [i \in Invitation |-> u1]
MCLegacy == {u0}

Symmetry == Permutations(Task \ tasksOfLegacy) \cup Permutations(Request)
              \cup Permutations(Invitation)

\* Whom an idle thread served last, and which invitation, tells nothing: its
\* next request sets both.
MCView == <<status, active, task, seen, state, expired, account, found,
            [r \in Request |-> <<pc[r], IF pc[r] = "idle" THEN u0 ELSE subject[r]>>],
            [r \in Request |-> <<webpc[r], IF webpc[r] = "idle" THEN u0 ELSE row[r]>>]>>
=============================================================================
