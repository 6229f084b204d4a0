------------------------------- MODULE Accounts -------------------------------
(***************************************************************************)
(* Accounts and the tasks they own, at the grain of the statements inside  *)
(* a transaction: an administrator disables and enables accounts while     *)
(* their owners create, resume, pause and cancel tasks and the worker      *)
(* moves them.                                                             *)
(*                                                                         *)
(* A request first authenticates its session, which fails for a disabled   *)
(* account, and runs its transaction later.  Row locks last until the      *)
(* transaction commits: the owner's row in create_task, the rows of all    *)
(* tasks found and then the account's row in user_toggle.  The single-row  *)
(* transactions of the other requests and of the worker are one step each, *)
(* taken when the row is free.                                             *)
(***************************************************************************)
EXTENDS Naturals, FiniteSets

CONSTANTS Task, User, Request, OwnerOf, MaxActive

ASSUME OwnersTyped == IsFiniteSet(Task) /\ OwnerOf \in [Task -> User]
ASSUME MaxActivePositive == MaxActive \in Nat \ {0}

VARIABLES
    status,   \* MonitorTask.status; "ENDED" is COMPLETED, CANCELLED or EXPIRED
    active,   \* User.is_active
    pc,       \* where each request is
    subject,  \* the account a request acts for or upon
    task,     \* the tasks a request acts upon
    seen      \* the statuses user_toggle read under its locks

vars == <<status, active, pc, subject, task, seen>>

Status == {"ABSENT", "MONITORING", "PAUSED", "ERROR", "DETECTED", "ENDED"}
Unfinished == {"MONITORING", "PAUSED", "ERROR", "DETECTED"}
Watching == {"MONITORING", "ERROR"}

UnfinishedOf(u) == {t \in Task : OwnerOf[t] = u /\ status[t] \in Unfinished}

TypeOK ==
    /\ status \in [Task -> Status]
    /\ active \in [User -> BOOLEAN]
    /\ pc \in [Request -> {"idle", "acting", "creating", "selected", "toggling"}]
    /\ subject \in [Request -> User]
    /\ task \in [Request -> SUBSET Task]
    /\ seen \in [Request -> [Task -> Status]]

Init ==
    /\ status = [t \in Task |-> "ABSENT"]
    /\ active = [u \in User |-> TRUE]
    /\ pc = [r \in Request |-> "idle"]
    /\ subject \in [Request -> User]
    /\ task = [r \in Request |-> {}]
    /\ seen = [r \in Request |-> [t \in Task |-> "ABSENT"]]

-----------------------------------------------------------------------------
(* Row locks.                                                              *)

\* A task row that no toggle has locked.
TaskFree(t) == \A r \in Request : pc[r] = "toggling" => t \notin task[r]

\* Mutant: create_task reads its owner without select_for_update.
OwnerAlwaysFree(u) == TRUE
OwnerFree(u) == \A r \in Request : pc[r] = "creating" => subject[r] # u

-----------------------------------------------------------------------------
(* Requests of owners.                                                     *)

\* Authentication and the checks before the transaction.
Begin(r, t) ==
    /\ pc[r] = "idle" /\ active[OwnerOf[t]]
    /\ pc' = [pc EXCEPT ![r] = "acting"]
    /\ subject' = [subject EXCEPT ![r] = OwnerOf[t]]
    /\ task' = [task EXCEPT ![r] = {t}]
    /\ UNCHANGED <<status, active, seen>>

\* The end of a request that answers with an error and changes nothing.
Refuse(r) ==
    /\ pc[r] = "acting"
    /\ pc' = [pc EXCEPT ![r] = "idle"]
    /\ task' = [task EXCEPT ![r] = {}]
    /\ UNCHANGED <<status, active, subject, seen>>

\* A single-row transaction of r on its task.
Act(r, from, to) ==
    /\ pc[r] = "acting"
    /\ \E t \in task[r] :
          /\ TaskFree(t) /\ status[t] \in from
          /\ status' = [status EXCEPT ![t] = to]
    /\ pc' = [pc EXCEPT ![r] = "idle"]
    /\ task' = [task EXCEPT ![r] = {}]
    /\ UNCHANGED <<active, subject, seen>>

PauseTask(r) == Act(r, Watching, "PAUSED")
ResumeTask(r) == Act(r, {"PAUSED", "ERROR"}, "MONITORING")
CancelTask(r) == Act(r, Unfinished, "ENDED")

\* Mutant: only the tasks being watched count.
BelowLimitOfWatched(u) ==
    Cardinality({t \in UnfinishedOf(u) : status[t] \in Watching}) < MaxActive
BelowLimit(u) == Cardinality(UnfinishedOf(u)) < MaxActive

\* The key of a new row is drawn by its transaction and nobody else's.
FreshRow(t) ==
    status[t] = "ABSENT" /\ \A s \in Request : pc[s] = "creating" => t \notin task[s]

\* create_task locks its owner's row, then counts.
LockOwner(r) ==
    /\ pc[r] = "acting"
    /\ \A t \in task[r] : FreshRow(t)
    /\ OwnerFree(subject[r])
    /\ active[subject[r]] /\ BelowLimit(subject[r])
    /\ pc' = [pc EXCEPT ![r] = "creating"]
    /\ UNCHANGED <<status, active, subject, task, seen>>

InsertTask(r) ==
    /\ pc[r] = "creating"
    /\ status' = [t \in Task |-> IF t \in task[r] THEN "MONITORING" ELSE status[t]]
    /\ pc' = [pc EXCEPT ![r] = "idle"]
    /\ task' = [task EXCEPT ![r] = {}]
    /\ UNCHANGED <<active, subject, seen>>

-----------------------------------------------------------------------------
(* user_toggle.                                                            *)

\* The statement that selects the tasks sees those committed when it starts,
\* and may then wait for their locks.
SelectTasks(r, u) ==
    /\ pc[r] = "idle"
    /\ pc' = [pc EXCEPT ![r] = "selected"]
    /\ subject' = [subject EXCEPT ![r] = u]
    /\ task' = [task EXCEPT ![r] = {t \in Task : OwnerOf[t] = u /\ status[t] # "ABSENT"}]
    /\ UNCHANGED <<status, active, seen>>

LockTasks(r) ==
    /\ pc[r] = "selected"
    /\ \A t \in task[r] : TaskFree(t)
    /\ seen' = [seen EXCEPT ![r] = status]
    /\ pc' = [pc EXCEPT ![r] = "toggling"]
    /\ UNCHANGED <<status, active, subject, task>>

\* With the account's lock as well: the flag is turned and what was read as
\* watched is paused.
CommitToggle(r) ==
    LET u == subject[r]
        stopped == {t \in task[r] : active[u] /\ seen[r][t] \in Watching}
    IN  /\ pc[r] = "toggling" /\ OwnerFree(u)
        /\ active' = [active EXCEPT ![u] = ~active[u]]
        /\ status' = [t \in Task |-> IF t \in stopped THEN "PAUSED" ELSE status[t]]
        /\ pc' = [pc EXCEPT ![r] = "idle"]
        /\ task' = [task EXCEPT ![r] = {}]
        /\ seen' = [seen EXCEPT ![r] = [t \in Task |-> "ABSENT"]]
        /\ UNCHANGED subject

-----------------------------------------------------------------------------
\* The closing transactions of perform_check, deliver_notification and
\* expire_due_task, as far as the status goes.
WorkerMoves(t) ==
    /\ TaskFree(t)
    /\ \/ status[t] = "MONITORING" /\ status' = [status EXCEPT ![t] = "ERROR"]
       \/ status[t] = "MONITORING" /\ status' = [status EXCEPT ![t] = "DETECTED"]
       \/ status[t] \in Unfinished /\ status' = [status EXCEPT ![t] = "ENDED"]
    /\ UNCHANGED <<active, pc, subject, task, seen>>

Next ==
    \/ \E r \in Request :
          \/ \E t \in Task : Begin(r, t)
          \/ Refuse(r) \/ PauseTask(r) \/ ResumeTask(r) \/ CancelTask(r)
          \/ LockOwner(r) \/ InsertTask(r)
          \/ \E u \in User : SelectTasks(r, u)
          \/ LockTasks(r) \/ CommitToggle(r)
    \/ \E t \in Task : WorkerMoves(t)

Spec == Init /\ [][Next]_vars

-----------------------------------------------------------------------------
\* No interleaving of creations lets an account have more unfinished tasks than
\* allowed: the count and the insertion are under the owner's lock.
ActiveLimit == \A u \in User : Cardinality(UnfinishedOf(u)) <= MaxActive

\* A disabled account gets no new task: a creation that found it enabled keeps
\* the toggle waiting until the task is there.
NoTaskForDisabled ==
    [][\A t \in Task : status[t] = "ABSENT" /\ status'[t] # "ABSENT"
                          => active[OwnerOf[t]]]_vars

\* Every task user_toggle found is unwatched when the account is disabled,
\* whatever its owner and the worker did between its selection and the commit.
FoundTasksStop ==
    [][\A r \in Request : pc[r] = "toggling" /\ pc'[r] = "idle" /\ ~active'[subject[r]]
                             => \A t \in task[r] : status'[t] \notin Watching]_vars

\* What the tests expect of disabling: a disabled account monitors nothing.
DisabledMonitorsNothing ==
    \A t \in Task : status[t] = "MONITORING" => active[OwnerOf[t]]
=============================================================================
