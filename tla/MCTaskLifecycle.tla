--------------------------- MODULE MCTaskLifecycle ---------------------------
(* Instances of TaskLifecycle for TLC: one account owns every task, and each *)
(* task watches a target of its own.                                         *)
EXTENDS PromiseKept, TLC

CONSTANTS u1

MCUser == {u1}
MCOwnerOf == [t \in Task |-> u1]
MCTargetOf == [t \in Task |-> CHOOSE g \in Target : TRUE]

\* The contract of the mail CLI: what it reports as a definite failure was not
\* accepted by the provider.
DefiniteFailures == {"queued", "uncertain"}

\* The same CLI, when it is killed, exits with a code the program does not know
\* or prints something else than JSON after the provider took the mail.
GarbledAnswers == {"queued", "uncertain", "broken"}

Symmetry == Permutations(Task) \cup Permutations(Worker)
=============================================================================
