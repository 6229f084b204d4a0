----------------------------- MODULE PromiseKept -----------------------------
(***************************************************************************)
(* TaskLifecycle with one worker implements OwnerPromise: monitoring,      *)
(* pausing and failing are all being watched, and a mail counts when the   *)
(* provider accepted it.  (A second worker that starts while the first     *)
(* talks to the provider would let a task be cancelled under way.)         *)
(***************************************************************************)
EXTENDS TaskLifecycle

PhaseOf(s) ==
    CASE s = "ABSENT" -> "none"
      [] s \in {"MONITORING", "PAUSED", "ERROR"} -> "watched"
      [] s = "DETECTED" -> "found"
      [] s = "COMPLETED" -> "told"
      [] s = "CANCELLED" -> "cancelled"
      [] s = "EXPIRED" -> "expired"

Promise == INSTANCE OwnerPromise WITH
    phase <- [t \in Task |-> PhaseOf(status[t])],
    mails <- accepted

\* Every behaviour of the tasks, their mails and one worker, with crashes and
\* restarts, keeps the promise made to the owners.
PromiseIsKept == Promise!Spec
=============================================================================
