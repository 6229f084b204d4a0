-------------------------- MODULE WebRequestsProofs --------------------------
(***************************************************************************)
(* Theorems of WebRequests, for any number of threads, accounts, tasks and *)
(* invitations.  The first part is about the steps of Accounts, the second *)
(* about those of Invitations, the third about their composition.          *)
(***************************************************************************)
EXTENDS WebRequests, FiniteSetTheorems, TLAPS

-----------------------------------------------------------------------------
(* Accounts: what the row locks protect.                                   *)

\* A creation holds its owner's row: the owner is enabled and below the limit,
\* the row to be inserted is new, and no other request creates for this owner.
CreationOK ==
    /\ \A r \in Request : pc[r] \in {"acting", "creating"} =>
          \E t \in Task : task[r] = {t} /\ OwnerOf[t] = subject[r]
    /\ \A r \in Request : pc[r] = "creating" =>
          /\ \A t \in task[r] : status[t] = "ABSENT"
          /\ active[subject[r]] /\ BelowLimit(subject[r])
    /\ \A r, s \in Request :
          pc[r] = "creating" /\ pc[s] = "creating" /\ subject[r] = subject[s] => r = s

\* A toggle holds the rows of its tasks: they exist, are still as it read them,
\* and no other toggle holds them.
ToggleOK ==
    /\ \A r \in Request : pc[r] \in {"selected", "toggling"} =>
          \A t \in task[r] : status[t] # "ABSENT"
    /\ \A r \in Request : pc[r] = "toggling" => \A t \in task[r] : status[t] = seen[r][t]
    /\ \A r, s \in Request : pc[r] = "toggling" /\ pc[s] = "toggling" /\ r # s
                                => task[r] \cap task[s] = {}

AccountInv == TypeOK /\ CreationOK /\ ToggleOK /\ ActiveLimit

\* A step that changes statuses, but adds no unfinished task.
NoneAdded ==
    \A t \in Task : /\ status'[t] \in Unfinished => status[t] \in Unfinished
                    /\ status[t] = "ABSENT" <=> status'[t] = "ABSENT"

LEMMA CountTyped ==
    \A u \in User : IsFiniteSet(UnfinishedOf(u)) /\ Cardinality(UnfinishedOf(u)) \in Nat
BY OwnersTyped, FS_Subset, FS_CardinalityType DEF UnfinishedOf

LEMMA NoneAddedLimits ==
    ASSUME AccountInv, NoneAdded
    PROVE  ActiveLimit' /\ \A u \in User : BelowLimit(u) => BelowLimit(u)'
<1>1. \A u \in User : /\ Cardinality(UnfinishedOf(u))' <= Cardinality(UnfinishedOf(u))
                      /\ Cardinality(UnfinishedOf(u)) \in Nat
                      /\ Cardinality(UnfinishedOf(u))' \in Nat
  <2>1. \A u \in User : UnfinishedOf(u)' \subseteq UnfinishedOf(u)
    BY DEF NoneAdded, UnfinishedOf
  <2>2. QED
    BY <2>1, CountTyped, FS_Subset, FS_CardinalityType
<1>2. QED
  BY <1>1, MaxActivePositive DEF AccountInv, ActiveLimit, BelowLimit

\* The requests that change no status.
LEMMA QuietStep ==
    ASSUME AccountInv, NEW r \in Request,
           \/ \E t \in Task : Begin(r, t)
           \/ Refuse(r) \/ LockOwner(r)
           \/ \E u \in User : SelectTasks(r, u)
           \/ LockTasks(r)
    PROVE  AccountInv'
<1> USE DEF AccountInv
<1>1. NoneAdded /\ ActiveLimit' /\ \A u \in User : BelowLimit(u) => BelowLimit(u)'
  <2>1. NoneAdded
    BY DEF NoneAdded, Begin, Refuse, LockOwner, SelectTasks, LockTasks
  <2>2. QED
    BY <2>1, NoneAddedLimits
<1>3. ASSUME NEW t \in Task, Begin(r, t) PROVE AccountInv'
  <2>1. TypeOK'
    BY <1>3, OwnersTyped DEF TypeOK, Begin
  <2>2. CreationOK'
    BY <1>1, <1>3, OwnersTyped DEF TypeOK, CreationOK, Begin
  <2>3. ToggleOK'
    BY <1>3 DEF TypeOK, ToggleOK, Begin
  <2>4. QED
    BY <1>1, <2>1, <2>2, <2>3
<1>4. CASE Refuse(r)
  BY <1>1, <1>4 DEF TypeOK, CreationOK, ToggleOK, Refuse
<1>5. CASE LockOwner(r)
  BY <1>1, <1>5 DEF TypeOK, CreationOK, ToggleOK, LockOwner, FreshRow, OwnerFree
<1>6. ASSUME NEW u \in User, SelectTasks(r, u) PROVE AccountInv'
  <2>1. TypeOK'
    BY <1>6 DEF TypeOK, SelectTasks
  <2>2. CreationOK'
    BY <1>1, <1>6 DEF TypeOK, CreationOK, SelectTasks
  <2>3. ToggleOK'
    BY <1>6 DEF TypeOK, ToggleOK, SelectTasks
  <2>4. QED
    BY <1>1, <2>1, <2>2, <2>3
<1>7. CASE LockTasks(r)
  BY <1>1, <1>7 DEF TypeOK, CreationOK, ToggleOK, LockTasks, TaskFree
<1>8. QED
  BY <1>3, <1>4, <1>5, <1>6, <1>7

\* The single-row transactions.
LEMMA ActStep ==
    ASSUME AccountInv, NEW r \in Request,
           PauseTask(r) \/ ResumeTask(r) \/ CancelTask(r)
    PROVE  AccountInv'
<1> USE DEF AccountInv
<1>1. PICK from \in SUBSET Unfinished, to \in Status \ {"ABSENT"} : Act(r, from, to)
  BY DEF PauseTask, ResumeTask, CancelTask, Watching, Unfinished, Status
<1>2. NoneAdded /\ ActiveLimit' /\ \A u \in User : BelowLimit(u) => BelowLimit(u)'
  <2>1. NoneAdded
    BY <1>1 DEF NoneAdded, Act, TypeOK, Unfinished
  <2>2. QED
    BY <2>1, NoneAddedLimits
<1>3. TypeOK'
  BY <1>1 DEF TypeOK, Act
<1>4. CreationOK'
  BY <1>1, <1>2 DEF TypeOK, CreationOK, Act, Unfinished
<1>5. ToggleOK'
  BY <1>1, <1>2 DEF TypeOK, ToggleOK, Act, TaskFree
<1>6. QED
  BY <1>2, <1>3, <1>4, <1>5

LEMMA WorkerStep ==
    ASSUME AccountInv, NEW t \in Task, WorkerMoves(t)
    PROVE  AccountInv'
<1> USE DEF AccountInv
<1>2. NoneAdded /\ ActiveLimit' /\ \A u \in User : BelowLimit(u) => BelowLimit(u)'
  <2>1. NoneAdded
    BY DEF NoneAdded, WorkerMoves, TypeOK, Unfinished
  <2>2. QED
    BY <2>1, NoneAddedLimits
<1>3. TypeOK'
  BY DEF TypeOK, WorkerMoves, Status
<1>4. CreationOK'
  BY <1>2 DEF TypeOK, CreationOK, WorkerMoves, Unfinished
<1>5. ToggleOK'
  BY <1>2 DEF TypeOK, ToggleOK, WorkerMoves, TaskFree, Unfinished
<1>6. QED
  BY <1>2, <1>3, <1>4, <1>5

\* The one step that adds a task.
LEMMA InsertStep ==
    ASSUME AccountInv, NEW r \in Request, InsertTask(r)
    PROVE  AccountInv'
<1> USE DEF AccountInv
<1>1. PICK t \in Task : task[r] = {t} /\ OwnerOf[t] = subject[r] /\ status[t] = "ABSENT"
  BY DEF InsertTask, CreationOK
<1>2. status' = [status EXCEPT ![t] = "MONITORING"]
  BY <1>1 DEF InsertTask, TypeOK
<1>3. TypeOK'
  BY <1>2 DEF InsertTask, TypeOK, Status
<1>4. UnfinishedOf(subject[r])' = UnfinishedOf(subject[r]) \cup {t}
  BY <1>1, <1>2 DEF UnfinishedOf, Unfinished, TypeOK, InsertTask
<1>5. Cardinality(UnfinishedOf(subject[r]))' <= MaxActive
  <2>1. t \notin UnfinishedOf(subject[r])
    BY <1>1 DEF UnfinishedOf, Unfinished
  <2>2. Cardinality(UnfinishedOf(subject[r]))' = Cardinality(UnfinishedOf(subject[r])) + 1
    BY <1>4, <2>1, CountTyped, FS_AddElement DEF TypeOK
  <2>3. Cardinality(UnfinishedOf(subject[r])) < MaxActive
    BY DEF CreationOK, InsertTask, BelowLimit
  <2>4. QED
    BY <2>2, <2>3, CountTyped, MaxActivePositive DEF TypeOK, InsertTask
<1>6. \A u \in User \ {subject[r]} : UnfinishedOf(u)' = UnfinishedOf(u)
  BY <1>1, <1>2 DEF UnfinishedOf, TypeOK
<1>7. ActiveLimit'
  <2>1. subject' = subject
    BY DEF InsertTask
  <2>2. QED
    BY <1>5, <1>6, <2>1 DEF ActiveLimit
<1>8. \A s \in Request : s # r /\ pc[s] = "creating" => subject[s] # subject[r] /\ t \notin task[s]
  BY <1>1 DEF CreationOK, InsertTask
<1>9. CreationOK'
  <2>1. \A u \in User \ {subject[r]} : BelowLimit(u) => BelowLimit(u)'
    BY <1>6 DEF BelowLimit
  <2>2. QED
    BY <1>2, <1>8, <2>1 DEF CreationOK, InsertTask, TypeOK
<1>10. ToggleOK'
  BY <1>1, <1>2 DEF ToggleOK, InsertTask, TypeOK
<1>11. QED
  BY <1>3, <1>7, <1>9, <1>10

LEMMA ToggleStep ==
    ASSUME AccountInv, NEW r \in Request, CommitToggle(r)
    PROVE  AccountInv'
<1> USE DEF AccountInv
<1>1. /\ \A t \in task[r] : status[t] = seen[r][t]
      /\ \A t \in Task \ task[r] : status'[t] = status[t]
      /\ \A t \in Task : status'[t] = status[t] \/ (status[t] \in Watching /\ status'[t] = "PAUSED")
  BY DEF CommitToggle, ToggleOK, TypeOK
<1>2. NoneAdded /\ ActiveLimit' /\ \A u \in User : BelowLimit(u) => BelowLimit(u)'
  <2>1. NoneAdded
    BY <1>1 DEF NoneAdded, Unfinished, Watching
  <2>2. QED
    BY <2>1, NoneAddedLimits
<1>3. TypeOK'
  BY DEF TypeOK, CommitToggle, Status
<1>4. CreationOK'
  BY <1>1, <1>2 DEF TypeOK, CreationOK, CommitToggle, OwnerFree, Watching
<1>5. ToggleOK'
  BY <1>1, <1>2 DEF TypeOK, ToggleOK, CommitToggle, Watching
<1>6. QED
  BY <1>2, <1>3, <1>4, <1>5

LEMMA AccountInvariant == Spec => []AccountInv
<1>1. Init => AccountInv
  <2> SUFFICES ASSUME Init PROVE AccountInv
    OBVIOUS
  <2>1. \A u \in User : Cardinality(UnfinishedOf(u)) = 0
    BY FS_EmptySet DEF Init, UnfinishedOf, Unfinished
  <2>2. QED
    BY <2>1, MaxActivePositive
       DEF Init, AccountInv, TypeOK, CreationOK, ToggleOK, ActiveLimit, Status
<1>2. AccountInv /\ [Next]_vars => AccountInv'
  <2>1. ASSUME AccountInv, UNCHANGED vars PROVE AccountInv'
    <3>1. TypeOK'
      BY <2>1 DEF AccountInv, TypeOK, vars
    <3>2. CreationOK'
      BY <2>1 DEF AccountInv, CreationOK, BelowLimit, UnfinishedOf, vars
    <3>3. ToggleOK'
      BY <2>1 DEF AccountInv, ToggleOK, vars
    <3>4. ActiveLimit'
      BY <2>1 DEF AccountInv, ActiveLimit, UnfinishedOf, vars
    <3>5. QED
      BY <3>1, <3>2, <3>3, <3>4 DEF AccountInv
  <2>2. QED
    BY <2>1, QuietStep, ActStep, WorkerStep, InsertStep, ToggleStep DEF Next
<1>3. QED
  BY <1>1, <1>2, PTL DEF Spec

\* What the next steps do to accounts and tasks is a step of Accounts.
LEMMA WebIsAccounts == WebSpec => Spec
<1>1. WebInit => Init
  BY DEF WebInit
<1>2. [WebNext]_<<vars, invitationVars>> => [Next]_vars
  BY DEF WebNext, AccountStep, InvitationStep
<1>3. QED
  BY <1>1, <1>2, PTL DEF WebSpec, Spec

\* An account never has more unfinished tasks than allowed, for any number of
\* threads that create tasks at the same time: create_task counts under the
\* lock of the owner's row.
THEOREM LimitHolds == WebSpec => []ActiveLimit
<1>1. AccountInv => ActiveLimit
  BY DEF AccountInv
<1>2. QED
  BY <1>1, WebIsAccounts, AccountInvariant, PTL

\* Only an enabled account gets a new task: user_toggle waits for the owner's
\* lock that create_task holds until its task is there.
THEOREM NoneForDisabled == WebSpec => NoTaskForDisabled
<1>1. AccountInv /\ [Next]_vars =>
        \A t \in Task : status[t] = "ABSENT" /\ status'[t] # "ABSENT" => active[OwnerOf[t]]
  <2> SUFFICES ASSUME AccountInv, [Next]_vars, NEW t \in Task,
                      status[t] = "ABSENT", status'[t] # "ABSENT"
               PROVE  active[OwnerOf[t]]
    OBVIOUS
  <2>1. ASSUME NEW r \in Request, InsertTask(r) PROVE active[OwnerOf[t]]
    BY <2>1 DEF InsertTask, AccountInv, TypeOK, CreationOK
  <2>2. ASSUME NEW r \in Request, CommitToggle(r) PROVE FALSE
    BY <2>2 DEF CommitToggle, AccountInv, ToggleOK
  <2>3. ASSUME NEW r \in Request, PauseTask(r) \/ ResumeTask(r) \/ CancelTask(r) PROVE FALSE
    BY <2>3 DEF PauseTask, ResumeTask, CancelTask, Act, Watching, Unfinished, AccountInv, TypeOK
  <2>4. ASSUME NEW s \in Task, WorkerMoves(s) PROVE FALSE
    BY <2>4 DEF WorkerMoves, Unfinished, AccountInv, TypeOK
  <2>5. CASE status' = status
    BY <2>5
  <2>6. QED
    BY <2>1, <2>2, <2>3, <2>4, <2>5
       DEF Next, vars, Begin, Refuse, LockOwner, SelectTasks, LockTasks
<1>2. QED
  BY <1>1, WebIsAccounts, AccountInvariant, PTL DEF Spec, NoTaskForDisabled

\* Disabling an account stops every task user_toggle found, whatever happens
\* between its selection of the tasks and its commit.
THEOREM FoundStop == WebSpec => FoundTasksStop
<1>1. AccountInv /\ [Next]_vars =>
        \A r \in Request : pc[r] = "toggling" /\ pc'[r] = "idle" /\ ~active'[subject[r]]
                             => \A t \in task[r] : status'[t] \notin Watching
  <2> SUFFICES ASSUME AccountInv, [Next]_vars, NEW r \in Request,
                      pc[r] = "toggling", pc'[r] = "idle", ~active'[subject[r]],
                      NEW t \in task[r]
               PROVE  status'[t] \notin Watching
    OBVIOUS
  <2>1. CommitToggle(r)
    BY DEF Next, vars, Begin, Refuse, PauseTask, ResumeTask, CancelTask, Act, LockOwner,
           InsertTask, SelectTasks, LockTasks, CommitToggle, WorkerMoves, AccountInv, TypeOK
  <2>2. active[subject[r]] /\ t \in Task /\ status[t] = seen[r][t]
    BY <2>1 DEF CommitToggle, AccountInv, TypeOK, ToggleOK
  <2>3. QED
    BY <2>1, <2>2 DEF CommitToggle, Watching
<1>2. QED
  BY <1>1, WebIsAccounts, AccountInvariant, PTL DEF Spec, FoundTasksStop

-----------------------------------------------------------------------------
(* Invitations: what a registration's lock and the second test of an       *)
(* UPDATE protect.                                                         *)

InviteTypes ==
    /\ state \in [Invitation -> {"none", "live", "revoked", "accepted"}]
    /\ expired \in [Invitation -> BOOLEAN]
    /\ account \in [User -> SUBSET Invitation]
    /\ webpc \in [Request -> {"idle", "issuing", "revoking", "registering"}]
    /\ row \in [Request -> Invitation]
    /\ found \in [Request -> SUBSET Invitation]

\* The row a request will insert is its own and not there yet; the row a
\* registration locked is its own and still open.
RowsOK ==
    /\ \A r \in Request : webpc[r] \in {"issuing", "revoking"} => state[row[r]] = "none"
    /\ \A r, s \in Request :
          webpc[r] \in {"issuing", "revoking"} /\ webpc[s] \in {"issuing", "revoking"}
             /\ row[r] = row[s] => r = s
    /\ \A r \in Request : webpc[r] = "registering" => state[row[r]] = "live"
    /\ \A r, s \in Request :
          webpc[r] = "registering" /\ webpc[s] = "registering" /\ row[r] = row[s] => r = s

\* The account of an address comes from one accepted invitation to it, but for
\* the account that was there before.
MadeOK ==
    /\ \A e \in User : e \in Legacy => account[e] = {}
    /\ \A e \in User : \A i, j \in account[e] : i = j
    /\ \A e \in User : \A i \in account[e] : state[i] = "accepted" /\ EmailOf[i] = e

InviteInv == InviteTypes /\ RowsOK /\ MadeOK

\* A step of Invitations makes accounts of accepted invitations only and takes
\* none back; an accepted invitation stays accepted.
LEMMA InviteStep ==
    ASSUME InviteInv, I!Next
    PROVE  /\ InviteInv'
           /\ \A i \in Invitation : state[i] = "accepted" => state'[i] = "accepted"
           /\ \A e \in User : account[e] \subseteq account'[e]
           /\ \A i \in Invitation : i \in account'[EmailOf[i]] \ account[EmailOf[i]]
                                       => state[i] = "live"
<1> USE AddressesTyped DEF InviteInv
<1>1. ASSUME NEW r \in Request, NEW i \in Invitation, I!BeginIssue(r, i) PROVE InviteInv'
  <2>1. InviteTypes'
    BY <1>1 DEF InviteTypes, I!BeginIssue
  <2>2. RowsOK'
    BY <1>1 DEF InviteTypes, RowsOK, I!BeginIssue
  <2>3. MadeOK'
    BY <1>1 DEF MadeOK, I!BeginIssue
  <2>4. QED
    BY <2>1, <2>2, <2>3
<1>2. ASSUME NEW r \in Request, NEW i \in Invitation, I!LockInvitation(r, i) PROVE InviteInv'
  <2>1. InviteTypes'
    BY <1>2 DEF InviteTypes, I!LockInvitation
  <2>2. RowsOK'
    BY <1>2 DEF InviteTypes, RowsOK, I!LockInvitation, I!Free, I!Valid
  <2>3. MadeOK'
    BY <1>2 DEF MadeOK, I!LockInvitation
  <2>4. QED
    BY <2>1, <2>2, <2>3
<1>3. ASSUME NEW r \in Request, I!FindOlder(r) PROVE InviteInv'
  <2>1. InviteTypes'
    BY <1>3 DEF InviteTypes, I!FindOlder
  <2>2. RowsOK'
    BY <1>3 DEF InviteTypes, RowsOK, I!FindOlder
  <2>3. MadeOK'
    BY <1>3 DEF MadeOK, I!FindOlder
  <2>4. QED
    BY <2>1, <2>2, <2>3
<1>4. ASSUME NEW r \in Request, I!CommitIssue(r)
      PROVE  /\ InviteInv'
             /\ \A i \in Invitation : state[i] = "accepted" => state'[i] = "accepted"
  <2>1. /\ \A i \in Invitation \ {row[r]} :
              state'[i] = state[i] \/ (state[i] = "live" /\ state'[i] = "revoked" /\ I!Free(i))
        /\ state[row[r]] = "none" /\ state'[row[r]] = "live"
    BY <1>4 DEF I!CommitIssue, I!StillOpen, I!Open, InviteTypes, RowsOK
  <2>2. InviteTypes'
    BY <1>4 DEF InviteTypes, I!CommitIssue, I!Finish
  <2>3. RowsOK'
    BY <1>4, <2>1 DEF InviteTypes, RowsOK, I!CommitIssue, I!Finish, I!Free
  <2>4. MadeOK'
    BY <1>4, <2>1 DEF InviteTypes, MadeOK, I!CommitIssue
  <2>5. QED
    BY <2>1, <2>2, <2>3, <2>4
<1>5. ASSUME NEW r \in Request, I!CommitAccount(r)
      PROVE  /\ InviteInv'
             /\ \A i \in Invitation : state[i] = "accepted" => state'[i] = "accepted"
             /\ \A e \in User : account[e] \subseteq account'[e]
             /\ \A i \in Invitation : i \in account'[EmailOf[i]] \ account[EmailOf[i]]
                                         => state[i] = "live"
  <2>1. state[row[r]] = "live" /\ row[r] \in Invitation /\ EmailOf[row[r]] \in User
    BY <1>5 DEF InviteTypes, RowsOK, I!CommitAccount
  <2>2. CASE account' = account /\ state' = state
    BY <1>5, <2>2 DEF InviteTypes, RowsOK, MadeOK, I!CommitAccount, I!Finish
  <2>3. CASE /\ account[EmailOf[row[r]]] = {} /\ EmailOf[row[r]] \notin Legacy
             /\ account' = [account EXCEPT ![EmailOf[row[r]]] = @ \cup {row[r]}]
             /\ state' = [state EXCEPT ![row[r]] = "accepted"]
    <3>1. InviteTypes'
      BY <1>5, <2>1, <2>3 DEF InviteTypes, I!CommitAccount, I!Finish
    <3>2. RowsOK'
      BY <1>5, <2>1, <2>3 DEF InviteTypes, RowsOK, I!CommitAccount, I!Finish
    <3>3. MadeOK'
      BY <2>1, <2>3 DEF InviteTypes, MadeOK
    <3>4. QED
      BY <2>1, <2>3, <3>1, <3>2, <3>3 DEF InviteTypes
  <2>4. QED
    BY <1>5, <2>2, <2>3 DEF I!CommitAccount, I!UniqueUsername, I!Registered
<1>6. ASSUME NEW i \in Invitation, I!Revoke(i) \/ I!Expire(i)
      PROVE  /\ InviteInv'
             /\ \A j \in Invitation : state[j] = "accepted" => state'[j] = "accepted"
  <2>1. CASE I!Revoke(i)
    BY <2>1 DEF InviteTypes, RowsOK, MadeOK, I!Revoke, I!Free, I!Open
  <2>2. CASE I!Expire(i)
    BY <2>2 DEF InviteTypes, RowsOK, MadeOK, I!Expire
  <2>3. QED
    BY <1>6, <2>1, <2>2
<1>7. CASE \E r \in Request : I!CommitAccount(r)
  BY <1>5, <1>7
<1>8. CASE ~\E r \in Request : I!CommitAccount(r)
  <2>1. account' = account
    BY <1>8 DEF I!Next, I!BeginIssue, I!LockInvitation, I!FindOlder, I!CommitIssue,
                I!Revoke, I!Expire
  <2>2. InviteInv' /\ \A i \in Invitation : state[i] = "accepted" => state'[i] = "accepted"
    BY <1>1, <1>2, <1>3, <1>4, <1>6, <1>8
       DEF I!Next, I!BeginIssue, I!LockInvitation, I!FindOlder
  <2>3. QED
    BY <2>1, <2>2
<1>9. QED
  BY <1>7, <1>8

-----------------------------------------------------------------------------
(* The composition.                                                        *)

\* Whoever a request acts for, and whoever owns a task, is registered.
ServedOK ==
    /\ \A r \in Request : pc[r] # "idle" => I!Registered(subject[r])
    /\ \A t \in Task : status[t] # "ABSENT" => I!Registered(OwnerOf[t])

WebInv == AccountInv /\ InviteInv /\ ServedOK

LEMMA WebStart == WebInit => InviteInv /\ ServedOK
BY OwnersTyped
   DEF WebInit, Init, I!Init, InviteInv, InviteTypes, RowsOK, MadeOK, ServedOK

LEMMA WebStep ==
    ASSUME WebInv, [WebNext]_<<vars, invitationVars>>
    PROVE  /\ InviteInv' /\ ServedOK'
           /\ \A i \in Invitation : state[i] = "accepted" => state'[i] = "accepted"
           /\ \A i \in Invitation : i \in account'[EmailOf[i]] \ account[EmailOf[i]]
                                       => state[i] = "live"
<1> USE DEF WebInv
<1>1. CASE InvitationStep
  <2>1. UNCHANGED vars /\ I!Next
    BY <1>1 DEF InvitationStep
  <2>2. InviteInv' /\ \A e \in User : account[e] \subseteq account'[e]
    BY <2>1, InviteStep
  <2>3. ServedOK'
    BY <2>1, <2>2, OwnersTyped DEF vars, ServedOK, I!Registered, AccountInv, TypeOK
  <2>4. QED
    BY <2>1, <2>2, <2>3, InviteStep
<1>2. CASE AccountStep
  <2>1. UNCHANGED invitationVars /\ OfAccounts /\ Next
    BY <1>2 DEF AccountStep
  <2>2. InviteInv'
    BY <2>1 DEF InviteInv, InviteTypes, RowsOK, MadeOK, invitationVars
  <2>3. \A t \in Task : status[t] = "ABSENT" /\ status'[t] # "ABSENT"
                           => I!Registered(OwnerOf[t])
    <3> SUFFICES ASSUME NEW t \in Task, status[t] = "ABSENT", status'[t] # "ABSENT"
                 PROVE  I!Registered(OwnerOf[t])
      OBVIOUS
    <3>1. ASSUME NEW r \in Request, InsertTask(r) PROVE I!Registered(OwnerOf[t])
      <4>1. t \in task[r] /\ pc[r] = "creating"
        BY <3>1 DEF InsertTask
      <4>2. OwnerOf[t] = subject[r]
        BY <4>1 DEF AccountInv, CreationOK
      <4>3. QED
        BY <4>1, <4>2 DEF ServedOK
    <3>2. ASSUME NEW r \in Request, CommitToggle(r) PROVE FALSE
      BY <3>2 DEF CommitToggle, AccountInv, ToggleOK
    <3>3. ASSUME NEW r \in Request, PauseTask(r) \/ ResumeTask(r) \/ CancelTask(r) PROVE FALSE
      BY <3>3 DEF PauseTask, ResumeTask, CancelTask, Act, Watching, Unfinished, AccountInv, TypeOK
    <3>4. ASSUME NEW s \in Task, WorkerMoves(s) PROVE FALSE
      BY <3>4 DEF WorkerMoves, Unfinished, AccountInv, TypeOK
    <3>5. QED
      BY <2>1, <3>1, <3>2, <3>3, <3>4
         DEF Next, Begin, Refuse, LockOwner, SelectTasks, LockTasks
  <2>4. ServedOK'
    BY <2>1, <2>3 DEF ServedOK, I!Registered, OfAccounts, invitationVars
  <2>5. QED
    BY <2>1, <2>2, <2>4 DEF invitationVars
<1>3. CASE UNCHANGED <<vars, invitationVars>>
  BY <1>3 DEF vars, invitationVars, InviteInv, InviteTypes, RowsOK, MadeOK, ServedOK, I!Registered
<1>4. QED
  BY <1>1, <1>2, <1>3 DEF WebNext

LEMMA WebInvariant == WebSpec => []WebInv
<1>1. InviteInv /\ ServedOK /\ AccountInv /\ [WebNext]_<<vars, invitationVars>>
        => (InviteInv /\ ServedOK)'
  BY WebStep DEF WebInv
<1>2. WebInv <=> InviteInv /\ ServedOK /\ AccountInv
  BY DEF WebInv
<1>3. QED
  BY <1>1, <1>2, WebStart, WebIsAccounts, AccountInvariant, PTL DEF WebSpec

\* No address gets a second account, for any number of registrations at the
\* same time: invite_register locks the invitation and the username is unique.
THEOREM OneAccount == WebSpec => []OneAccountPerEmail
<1>1. WebInv => OneAccountPerEmail
  <2> SUFFICES ASSUME WebInv, NEW e \in User
               PROVE  Cardinality(account[e]) <= (IF e \in Legacy THEN 0 ELSE 1)
    BY DEF OneAccountPerEmail
  <2>1. CASE account[e] = {}
    BY <2>1, FS_EmptySet
  <2>2. CASE account[e] # {}
    <3>1. PICK i \in account[e] : account[e] = {i}
      BY <2>2 DEF WebInv, InviteInv, MadeOK
    <3>2. Cardinality({i}) = 1
      BY FS_Singleton
    <3>3. QED
      BY <2>2, <3>1, <3>2 DEF WebInv, InviteInv, MadeOK
  <2>3. QED
    BY <2>1, <2>2
<1>2. QED
  BY <1>1, WebInvariant, PTL

\* An accepted invitation stays accepted: the UPDATE of issue_invitation tests
\* each row it found again after waiting for its lock.
THEOREM AcceptedStays == WebSpec => AcceptedIsFinal
<1>1. WebInv /\ [WebNext]_<<vars, invitationVars>> =>
        [\A i \in Invitation : state[i] = "accepted" => state'[i] = "accepted"]_invitationVars
  BY WebStep
<1>2. QED
  BY <1>1, WebInvariant, PTL DEF WebSpec, AcceptedIsFinal

\* An account comes only from an invitation nobody had revoked by then.
THEOREM OpenAtCommit == WebSpec => RevokedNeverAccepts
<1>1. WebInv /\ [WebNext]_<<vars, invitationVars>> =>
        [\A i \in Invitation : i \in account'[EmailOf[i]] \ account[EmailOf[i]]
                                => state[i] = "live"]_invitationVars
  BY WebStep
<1>2. QED
  BY <1>1, WebInvariant, PTL DEF WebSpec, RevokedNeverAccepts

\* Every task belongs to the owner made by the migration or to an account that
\* an invitation made and still answers for: requests need a session, sessions
\* an account, any other account an invitation.
THEOREM OfInvited == WebSpec => []TasksOfInvited
<1>1. WebInv => TasksOfInvited
  <2> SUFFICES ASSUME WebInv, NEW t \in Task, status[t] # "ABSENT",
                      OwnerOf[t] \notin Legacy
               PROVE  \E i \in Invitation : state[i] = "accepted" /\ EmailOf[i] = OwnerOf[t]
    BY DEF TasksOfInvited
  <2>1. PICK i \in account[OwnerOf[t]] : TRUE
    BY DEF WebInv, ServedOK, I!Registered
  <2>2. QED
    BY <2>1, OwnersTyped DEF WebInv, InviteInv, InviteTypes, MadeOK
<1>2. QED
  BY <1>1, WebInvariant, PTL

-----------------------------------------------------------------------------
(* Requests in turn: what the two findings about accounts and invitations  *)
(* need is a second thread.                                                *)

OneThread == \A r, s \in Request : r = s

\* Requests act for enabled accounts; a toggle knows every task of its account.
InTurnOK ==
    /\ \A r \in Request : pc[r] \in {"acting", "creating"} => active[subject[r]]
    /\ \A r \in Request : pc[r] \in {"selected", "toggling"} =>
          \A t \in Task : OwnerOf[t] = subject[r] /\ status[t] # "ABSENT" => t \in task[r]
    /\ DisabledMonitorsNothing

LEMMA InTurnStep ==
    ASSUME OneThread, AccountInv, InTurnOK, [Next]_vars
    PROVE  InTurnOK'
<1> USE OwnersTyped DEF InTurnOK, DisabledMonitorsNothing
<1>1. /\ status \in [Task -> Status] /\ active \in [User -> BOOLEAN]
      /\ pc \in [Request -> {"idle", "acting", "creating", "selected", "toggling"}]
      /\ subject \in [Request -> User] /\ task \in [Request -> SUBSET Task]
  BY DEF AccountInv, TypeOK
<1>2. ASSUME NEW r \in Request, NEW t \in Task, Begin(r, t) PROVE InTurnOK'
  BY <1>1, <1>2 DEF Begin
<1>3. ASSUME NEW r \in Request, Refuse(r) \/ LockOwner(r) \/ LockTasks(r) PROVE InTurnOK'
  BY <1>1, <1>3 DEF Refuse, LockOwner, LockTasks
<1>4. ASSUME NEW r \in Request, NEW u \in User, SelectTasks(r, u) PROVE InTurnOK'
  BY <1>1, <1>4 DEF SelectTasks
<1>5. ASSUME NEW r \in Request, PauseTask(r) \/ ResumeTask(r) \/ CancelTask(r) PROVE InTurnOK'
  <2>1. PICK t \in Task, to \in Status :
          /\ status' = [status EXCEPT ![t] = to] /\ status[t] # "ABSENT"
          /\ pc[r] = "acting" /\ pc' = [pc EXCEPT ![r] = "idle"] /\ OwnerOf[t] = subject[r]
          /\ UNCHANGED <<active, subject>>
    BY <1>1, <1>5 DEF PauseTask, ResumeTask, CancelTask, Act, Watching, Unfinished, Status,
                      AccountInv, CreationOK
  <2>. QED  BY <1>1, <2>1 DEF OneThread
<1>6. ASSUME NEW r \in Request, InsertTask(r) PROVE InTurnOK'
  <2>1. \A t \in task[r] : OwnerOf[t] = subject[r] /\ active[subject[r]]
    BY <1>6 DEF InsertTask, AccountInv, CreationOK
  <2>. QED  BY <1>1, <1>6, <2>1 DEF InsertTask, OneThread
<1>7. ASSUME NEW r \in Request, CommitToggle(r) PROVE InTurnOK'
  <2>1. /\ pc[r] = "toggling" /\ pc' = [pc EXCEPT ![r] = "idle"] /\ UNCHANGED subject
        /\ active' = [active EXCEPT ![subject[r]] = ~active[subject[r]]]
    BY <1>7 DEF CommitToggle
  <2>2. ASSUME NEW t \in Task, status'[t] = "MONITORING" PROVE active'[OwnerOf[t]]
    <3>1. status[t] = "MONITORING" /\ active[OwnerOf[t]]
      BY <1>1, <1>7, <2>2 DEF CommitToggle
    <3>2. CASE OwnerOf[t] = subject[r]
      <4>1. t \in task[r] /\ seen[r][t] \in Watching
        BY <2>1, <3>1, <3>2 DEF AccountInv, ToggleOK, Watching
      <4>2. status'[t] = "PAUSED"
        BY <1>7, <3>1, <3>2, <4>1 DEF CommitToggle
      <4>. QED  BY <2>2, <4>2
    <3>3. CASE OwnerOf[t] # subject[r]
      BY <1>1, <2>1, <3>1, <3>3
    <3>. QED  BY <3>2, <3>3
  <2>. QED  BY <1>1, <2>1, <2>2 DEF OneThread
<1>8. ASSUME NEW t \in Task, WorkerMoves(t) PROVE InTurnOK'
  BY <1>1, <1>8 DEF WorkerMoves, Unfinished
<1>9. CASE UNCHANGED vars
  BY <1>9 DEF vars
<1>. QED
  BY <1>2, <1>3, <1>4, <1>5, <1>6, <1>7, <1>8, <1>9 DEF Next

\* With one thread a disabled account monitors nothing, whatever the worker
\* does meanwhile: that user_toggle misses a task takes a request that runs
\* between its selection and its commit.
THEOREM DisabledInTurn == ASSUME OneThread PROVE WebSpec => []DisabledMonitorsNothing
<1>1. Init => InTurnOK
  BY DEF Init, InTurnOK, DisabledMonitorsNothing
<1>2. AccountInv /\ InTurnOK /\ [Next]_vars => InTurnOK'
  BY InTurnStep
<1>3. InTurnOK => DisabledMonitorsNothing
  BY DEF InTurnOK
<1>. QED  BY <1>1, <1>2, <1>3, WebIsAccounts, AccountInvariant, PTL DEF Spec

\* An issue that is about to commit has found every open invitation.
FoundOK ==
    /\ \A r \in Request : webpc[r] = "revoking" =>
          \A i \in Invitation : EmailOf[i] = EmailOf[row[r]] /\ I!Open(i) => i \in found[r]
    /\ I!OneOpenInvitation

LEMMA FoundStep ==
    ASSUME OneThread, InviteInv, FoundOK, I!Next
    PROVE  FoundOK'
<1> USE DEF FoundOK, I!OneOpenInvitation, I!Open
<1>1. /\ state \in [Invitation -> {"none", "live", "revoked", "accepted"}]
      /\ webpc \in [Request -> {"idle", "issuing", "revoking", "registering"}]
      /\ row \in [Request -> Invitation] /\ found \in [Request -> SUBSET Invitation]
  BY DEF InviteInv, InviteTypes
<1>2. ASSUME NEW r \in Request, NEW i \in Invitation,
             I!BeginIssue(r, i) \/ I!LockInvitation(r, i)
      PROVE  FoundOK'
  BY <1>1, <1>2 DEF I!BeginIssue, I!LockInvitation
<1>3. ASSUME NEW r \in Request, I!FindOlder(r) PROVE FoundOK'
  BY <1>1, <1>3 DEF I!FindOlder
<1>4. ASSUME NEW r \in Request, I!CommitIssue(r) PROVE FoundOK'
  <2>1. /\ webpc[r] = "revoking" /\ webpc' = [webpc EXCEPT ![r] = "idle"]
        /\ \A i \in Invitation : state'[i] = "live" =>
              \/ i = row[r]
              \/ state[i] = "live" /\ i \notin found[r]
    BY <1>1, <1>4 DEF I!CommitIssue, I!Finish, I!StillOpen
  <2>2. I!OneOpenInvitation'
    BY <1>1, <2>1
  <2>. QED  BY <1>1, <2>1, <2>2 DEF OneThread
<1>5. ASSUME NEW r \in Request, I!CommitAccount(r) PROVE FoundOK'
  <2>1. /\ webpc' = [webpc EXCEPT ![r] = "idle"] /\ UNCHANGED <<row, found>>
        /\ \A i \in Invitation : state'[i] = "live" => state[i] = "live"
    BY <1>1, <1>5 DEF I!CommitAccount, I!Finish
  <2>. QED  BY <1>1, <2>1 DEF OneThread
<1>6. ASSUME NEW i \in Invitation, I!Revoke(i) \/ I!Expire(i) PROVE FoundOK'
  BY <1>1, <1>6 DEF I!Revoke, I!Expire
<1>. QED
  BY <1>2, <1>3, <1>4, <1>5, <1>6 DEF I!Next

\* With one thread an address has one open invitation at most, as documented:
\* two stay open only if both were issued at the same time.
THEOREM OneOpenInTurn == ASSUME OneThread PROVE WebSpec => []I!OneOpenInvitation
<1>1. WebInit => FoundOK
  BY DEF WebInit, I!Init, FoundOK, I!OneOpenInvitation, I!Open
<1>2. WebInv /\ FoundOK /\ [WebNext]_<<vars, invitationVars>> => FoundOK'
  <2> SUFFICES ASSUME WebInv, FoundOK, [WebNext]_<<vars, invitationVars>> PROVE FoundOK'
    OBVIOUS
  <2>1. CASE InvitationStep
    BY <2>1, FoundStep DEF InvitationStep, WebInv
  <2>2. CASE UNCHANGED invitationVars
    BY <2>2 DEF invitationVars, FoundOK, I!OneOpenInvitation, I!Open
  <2>. QED  BY <2>1, <2>2 DEF WebNext, AccountStep
<1>3. FoundOK => I!OneOpenInvitation
  BY DEF FoundOK
<1>. QED  BY <1>1, <1>2, <1>3, WebInvariant, PTL DEF WebSpec
=============================================================================
