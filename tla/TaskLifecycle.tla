---------------------------- MODULE TaskLifecycle ----------------------------
(***************************************************************************)
(* The life of monitoring tasks and their mails: the PostgreSQL rows that  *)
(* the web requests and the worker processes share, one action for each    *)
(* database transaction or external call.                                  *)
(*                                                                         *)
(* Rows.  MonitorTask: status, claim, lease, nextCheck, fails, past.       *)
(* Notification (one per task and kind): note, retry, delayed, born.       *)
(* User.is_active: active.  AgentMailConfig.is_verified: verified.         *)
(*                                                                         *)
(* Processes.  A web request is one transaction, except the creation of a  *)
(* task, whose checks run before its transaction.  A worker runs the cycle *)
(* expire -> dispatch -> deliver -> send -> settle -> claim -> read ->     *)
(* check, the first three and the last three of which are transactions or  *)
(* reads, with the mail CLI between "send" and "settle" and the page fetch *)
(* between "read" and "check"; it may die between any two of them.         *)
(*                                                                         *)
(* Time is abstract: nextCheck is "none", "due" or "later", a lease is     *)
(* "free", "held" or "lapsed", and environment actions let time pass.      *)
(***************************************************************************)
EXTENDS Naturals, FiniteSets

CONSTANTS
    Task,            \* task rows that may come to exist
    User,            \* registered accounts
    Worker,          \* worker processes (one in compose.yaml; two may overlap)
    Target,          \* city + movie + date + cinema
    OwnerOf,         \* MonitorTask.owner, [Task -> User]
    TargetOf,        \* what a task monitors, [Task -> Target]
    MaxActive,       \* settings.MAX_ACTIVE_TASKS_PER_USER
    TerminalLimit,   \* consecutive terminal failures that stop a task (5)
    RetryLimit,      \* Len(RETRY_MINUTES) (5)
    MayBeAccepted,   \* send outcomes after which the provider may have the mail
    NoTask, NoWorker, NoNote

Kind == {"OPENING", "EXPIRY", "SYSTEM_ALERT"}
Note == Task \X Kind
Outcome == {"queued", "uncertain", "broken", "temporary", "rejected"}

ASSUME TasksFinite == IsFiniteSet(Task)
ASSUME RowsTyped == OwnerOf \in [Task -> User] /\ TargetOf \in [Task -> Target]
ASSUME LimitsPositive ==
    MaxActive \in Nat \ {0} /\ TerminalLimit \in Nat \ {0} /\ RetryLimit \in Nat
ASSUME QueuedMayBeAccepted == MayBeAccepted \subseteq Outcome /\ "queued" \in MayBeAccepted
ASSUME NullsAreFresh == NoTask \notin Task /\ NoWorker \notin Worker /\ NoNote \notin Note

VARIABLES
    status,     \* [Task -> TaskStatus]
    claim,      \* claim_token: the worker whose latest claim holds the row
    lease,      \* claim_expires_at: "free" is NULL
    nextCheck,  \* next_check_at: "none" is NULL
    fails,      \* consecutive_terminal_failures
    past,       \* show_date is before the local date
    note,       \* Notification.status, "ABSENT" before the row exists
    retry,      \* Notification.retry_count
    delayed,    \* next_attempt_at lies in the future
    born,       \* creation order, as created_at
    active,     \* User.is_active
    verified,   \* AgentMailConfig.is_verified
    admitted,   \* creation requests between their checks and their transaction
    pc,         \* what each worker does next
    checking,   \* the task a worker's check is about
    sending,    \* the notification a worker delivers
    outcome,    \* what the mail CLI told the worker
    overtaken,  \* history: the row changed hands since the worker claimed it
    accepted    \* history: mails the provider accepted, per notification

taskVars == <<status, claim, lease, nextCheck, fails>>
noteVars == <<note, retry, delayed, born>>
memoryVars == <<checking, sending, outcome>>
vars == <<status, claim, lease, nextCheck, fails, past, note, retry, delayed,
          born, active, verified, admitted, pc, checking, sending, outcome,
          overtaken, accepted>>

TaskStatus == {"ABSENT", "MONITORING", "PAUSED", "DETECTED", "COMPLETED",
               "CANCELLED", "EXPIRED", "ERROR"}
NoteStatus == {"ABSENT", "PENDING", "SENDING", "SENT", "FAILED",
               "PERMANENT_FAILED", "NEEDS_REVIEW"}

Unfinished == {"MONITORING", "PAUSED", "DETECTED", "ERROR"}

\* Mutant: a detected task may expire as well.
ExpirableIfUnfinished == {"MONITORING", "PAUSED", "DETECTED", "ERROR"}
Expirable == {"MONITORING", "PAUSED", "ERROR"}

Stage == {"down", "expire", "dispatch", "deliver", "send", "settle", "claim",
          "read", "check"}

Opening(t) == <<t, "OPENING">>
Expiry(t) == <<t, "EXPIRY">>
Alert(t) == <<t, "SYSTEM_ALERT">>

TypeOK ==
    /\ status \in [Task -> TaskStatus]
    /\ claim \in [Task -> Worker \cup {NoWorker}]
    /\ lease \in [Task -> {"free", "held", "lapsed"}]
    /\ nextCheck \in [Task -> {"none", "due", "later"}]
    /\ fails \in [Task -> 0..TerminalLimit]
    /\ past \in [Task -> BOOLEAN]
    /\ note \in [Note -> NoteStatus]
    /\ retry \in [Note -> 0..RetryLimit]
    /\ delayed \in [Note -> BOOLEAN]
    /\ born \in [Note -> Nat]
    /\ active \in [User -> BOOLEAN]
    /\ verified \in BOOLEAN
    /\ admitted \in SUBSET Task
    /\ pc \in [Worker -> Stage]
    /\ checking \in [Worker -> Task \cup {NoTask}]
    /\ sending \in [Worker -> Note \cup {NoNote}]
    /\ outcome \in [Worker -> Outcome \cup {"none"}]
    /\ overtaken \in [Worker -> BOOLEAN]
    /\ accepted \in [Note -> Nat]

Init ==
    /\ status = [t \in Task |-> "ABSENT"]
    /\ claim = [t \in Task |-> NoWorker]
    /\ lease = [t \in Task |-> "free"]
    /\ nextCheck = [t \in Task |-> "none"]
    /\ fails = [t \in Task |-> 0]
    /\ past = [t \in Task |-> FALSE]
    /\ note = [n \in Note |-> "ABSENT"]
    /\ retry = [n \in Note |-> 0]
    /\ delayed = [n \in Note |-> FALSE]
    /\ born = [n \in Note |-> 0]
    /\ active = [u \in User |-> TRUE]
    /\ verified = FALSE
    /\ admitted = {}
    /\ pc = [w \in Worker |-> "down"]
    /\ checking = [w \in Worker |-> NoTask]
    /\ sending = [w \in Worker |-> NoNote]
    /\ outcome = [w \in Worker |-> "none"]
    /\ overtaken = [w \in Worker |-> FALSE]
    /\ accepted = [n \in Note |-> 0]

-----------------------------------------------------------------------------
(* Helpers on rows.                                                        *)

\* History only: whoever checks a task of S has been overtaken.
Overtake(S) == overtaken' = [w \in Worker |-> overtaken[w] \/ checking[w] \in S]

\* Mutant: the lease is cleared and its token forgotten there.
ReleaseLeasesOnly(S) ==
    /\ lease' = [t \in Task |-> IF t \in S THEN "free" ELSE lease[t]]
    /\ UNCHANGED claim

\* claim_token and claim_expires_at of the rows of S become NULL.
ReleaseClaims(S) ==
    /\ claim' = [t \in Task |-> IF t \in S THEN NoWorker ELSE claim[t]]
    /\ lease' = [t \in Task |-> IF t \in S THEN "free" ELSE lease[t]]

\* Mutant: an existing notification is queued again.
RequeueNotes(S) ==
    /\ note' = [n \in Note |-> IF n \in S THEN "PENDING" ELSE note[n]]
    /\ UNCHANGED born

\* Mutant: only an existing notification is looked up.
FindNotes(S) == UNCHANGED <<note, born>>

\* get_or_create of PENDING notifications; those that exist stay as they are.
CreateNotes(S) ==
    LET new == {n \in S : note[n] = "ABSENT"}
        rank == Cardinality({n \in Note : note[n] # "ABSENT"}) + 1
    IN  /\ note' = [n \in Note |-> IF n \in new THEN "PENDING" ELSE note[n]]
        /\ born' = [n \in Note |-> IF n \in new THEN rank ELSE born[n]]

\* A notification takes status s; d says whether its next attempt is delayed.
SetNote(n, s, d) ==
    /\ note' = [note EXCEPT ![n] = s]
    /\ delayed' = [delayed EXCEPT ![n] = d]

Goto(w, stage) == pc' = [pc EXCEPT ![w] = stage]

-----------------------------------------------------------------------------
(* Web requests.                                                           *)

\* create_task up to its transaction: the signed date and the mail readiness.
AdmitTask(t) ==
    /\ status[t] = "ABSENT" /\ t \notin admitted
    /\ ~past[t]
    /\ verified
    /\ admitted' = admitted \cup {t}
    /\ UNCHANGED <<taskVars, past, noteVars, active, verified, pc, memoryVars,
                   overtaken, accepted>>

UnfinishedOf(u) == {t \in Task : OwnerOf[t] = u /\ status[t] \in Unfinished}

\* The transaction: the owner row is locked, so the count is exact; the unique
\* constraint on unfinished targets turns a duplicate into an error.
MayInsert(t) ==
    /\ active[OwnerOf[t]]
    /\ Cardinality(UnfinishedOf(OwnerOf[t])) < MaxActive
    /\ \A s \in UnfinishedOf(OwnerOf[t]) : TargetOf[s] # TargetOf[t]

CreateTask(t) ==
    /\ t \in admitted
    /\ admitted' = admitted \ {t}
    /\ \/ /\ MayInsert(t)
          /\ status' = [status EXCEPT ![t] = "MONITORING"]
          /\ nextCheck' = [nextCheck EXCEPT ![t] = "due"]
       \/ ~MayInsert(t) /\ UNCHANGED <<status, nextCheck>>
    /\ UNCHANGED <<claim, lease, fails, past, noteVars, active, verified, pc,
                   memoryVars, overtaken, accepted>>

PauseTask(t) ==
    /\ status[t] \in {"MONITORING", "ERROR"}
    /\ status' = [status EXCEPT ![t] = "PAUSED"]
    /\ nextCheck' = [nextCheck EXCEPT ![t] = "none"]
    /\ ReleaseClaims({t})
    /\ Overtake({t})
    /\ UNCHANGED <<fails, past, noteVars, active, verified, admitted, pc,
                   memoryVars, accepted>>

ResumeTask(t) ==
    /\ status[t] \in {"PAUSED", "ERROR"}
    /\ status' = [status EXCEPT ![t] = "MONITORING"]
    /\ fails' = [fails EXCEPT ![t] = 0]
    /\ nextCheck' = [nextCheck EXCEPT ![t] = "due"]
    /\ ReleaseClaims({t})
    /\ Overtake({t})
    /\ UNCHANGED <<past, noteVars, active, verified, admitted, pc, memoryVars,
                   accepted>>

\* Mutant: a mail being sent does not stop the cancellation.
CancellableWhileSending(t) == status[t] \in Unfinished
Cancellable(t) == status[t] \in Unfinished /\ note[Opening(t)] # "SENDING"

\* cancel_task refuses while the opening mail is with the provider and gives
\* up one that still waits.
CancelTask(t) ==
    /\ Cancellable(t)
    /\ status' = [status EXCEPT ![t] = "CANCELLED"]
    /\ nextCheck' = [nextCheck EXCEPT ![t] = "none"]
    /\ ReleaseClaims({t})
    /\ Overtake({t})
    /\ IF note[Opening(t)] = "PENDING"
       THEN SetNote(Opening(t), "PERMANENT_FAILED", FALSE)
       ELSE UNCHANGED <<note, delayed>>
    /\ UNCHANGED <<fails, past, retry, born, active, verified, admitted, pc,
                   memoryVars, accepted>>

\* task_run_now leaves a running claim alone.
RunNow(t) ==
    /\ status[t] = "MONITORING"
    /\ nextCheck' = [nextCheck EXCEPT ![t] = "due"]
    /\ UNCHANGED <<status, claim, lease, fails, past, noteVars, active,
                   verified, admitted, pc, memoryVars, overtaken, accepted>>

\* Mutant: whatever is unfinished is scheduled again.
RescheduledIfUnfinished(t) == status[t] \in Unfinished
Rescheduled(t) == status[t] = "MONITORING"

\* settings_edit reschedules every monitored task, claimed or not.
EditSettings ==
    /\ nextCheck' = [t \in Task |-> IF Rescheduled(t) THEN "later" ELSE nextCheck[t]]
    /\ UNCHANGED <<status, claim, lease, fails, past, noteVars, active,
                   verified, admitted, pc, memoryVars, overtaken, accepted>>

\* user_toggle: disabling an account pauses what it monitors.
ToggleUser(u) ==
    LET stopped == {t \in Task : /\ active[u] /\ OwnerOf[t] = u
                                 /\ status[t] \in {"MONITORING", "ERROR"}}
    IN  /\ active' = [active EXCEPT ![u] = ~active[u]]
        /\ status' = [t \in Task |-> IF t \in stopped THEN "PAUSED" ELSE status[t]]
        /\ nextCheck' = [t \in Task |-> IF t \in stopped THEN "none" ELSE nextCheck[t]]
        /\ ReleaseClaims(stopped)
        /\ Overtake(stopped)
        /\ UNCHANGED <<fails, past, noteVars, verified, admitted, pc, memoryVars,
                       accepted>>

-----------------------------------------------------------------------------
(* A worker's start and the mail half of its cycle.                        *)

\* Mutants: a notification left SENDING is tried again, or left as it is.
RetriedAfterRestart(s) == IF s = "SENDING" THEN "PENDING" ELSE s
KeptAfterRestart(s) == s
AfterRestart(s) == IF s = "SENDING" THEN "NEEDS_REVIEW" ELSE s

\* run_forever before its loop: what an earlier process left SENDING has an
\* unknown result.
Boot(w) ==
    /\ pc[w] = "down"
    /\ Goto(w, "expire")
    /\ note' = [n \in Note |-> AfterRestart(note[n])]
    /\ delayed' = [n \in Note |-> delayed[n] /\ note[n] # "SENDING"]
    /\ UNCHANGED <<taskVars, past, retry, born, active, verified, admitted,
                   memoryVars, overtaken, accepted>>

\* expire_due_task, in one transaction for all tasks whose date has passed.
ExpireDue(w) ==
    LET gone == {t \in Task : status[t] \in Expirable /\ past[t]}
        given == {n \in Note : n[1] \in gone /\ n[2] = "OPENING" /\ note[n] = "PENDING"}
        made == {n \in Note : n[1] \in gone /\ n[2] = "EXPIRY" /\ note[n] = "ABSENT"}
        rank == Cardinality({n \in Note : note[n] # "ABSENT"}) + 1
    IN  /\ pc[w] = "expire"
        /\ Goto(w, "dispatch")
        /\ status' = [t \in Task |-> IF t \in gone THEN "EXPIRED" ELSE status[t]]
        /\ nextCheck' = [t \in Task |-> IF t \in gone THEN "none" ELSE nextCheck[t]]
        /\ ReleaseClaims(gone)
        /\ Overtake(gone)
        /\ note' = [n \in Note |-> IF n \in given THEN "PERMANENT_FAILED"
                                   ELSE IF n \in made THEN "PENDING" ELSE note[n]]
        /\ delayed' = [n \in Note |-> delayed[n] /\ n \notin given]
        /\ born' = [n \in Note |-> IF n \in made THEN rank ELSE born[n]]
        /\ UNCHANGED <<fails, past, retry, active, verified, admitted,
                       memoryVars, accepted>>

\* Mutant: only notifications without a next_attempt_at are selected.
DeliverableIfNeverDelayed(n) ==
    note[n] = "PENDING" /\ retry[n] = 0 /\ active[OwnerOf[n[1]]]

\* dispatch_due_notifications: the oldest deliverable notification, read
\* without a lock.
Deliverable(n) == note[n] = "PENDING" /\ ~delayed[n] /\ active[OwnerOf[n[1]]]
Oldest(n) == Deliverable(n) /\ \A m \in Note : Deliverable(m) => born[n] <= born[m]

Dispatch(w) ==
    /\ pc[w] = "dispatch"
    /\ \/ /\ verified
          /\ \E n \in Note :
                /\ Oldest(n)
                /\ sending' = [sending EXCEPT ![w] = n]
          /\ Goto(w, "deliver")
       \/ /\ ~verified \/ \A n \in Note : ~Deliverable(n)
          /\ Goto(w, "claim")
          /\ UNCHANGED sending
    /\ UNCHANGED <<taskVars, past, noteVars, active, verified, admitted,
                   checking, outcome, overtaken, accepted>>

\* deliver_notification's first transaction, under the locks of task and owner.
StartDelivery(w) ==
    LET n == sending[w]
        wanted == n[2] = "OPENING" => status[n[1]] = "DETECTED"
        reachable == active[OwnerOf[n[1]]]
    IN  /\ pc[w] = "deliver"
        /\ \/ /\ note[n] # "PENDING"
              /\ Goto(w, "claim")
              /\ UNCHANGED <<note, delayed>>
           \/ /\ note[n] = "PENDING" /\ ~(wanted /\ reachable)
              /\ SetNote(n, "PERMANENT_FAILED", FALSE)
              /\ Goto(w, "claim")
           \/ /\ note[n] = "PENDING" /\ wanted /\ reachable
              /\ SetNote(n, "SENDING", FALSE)
              /\ Goto(w, "send")
        /\ sending' = [sending EXCEPT ![w] = IF pc'[w] = "send" THEN n ELSE NoNote]
        /\ UNCHANGED <<taskVars, past, retry, born, active, verified, admitted,
                       checking, outcome, overtaken, accepted>>

\* The attestation is read outside any transaction; without it the
\* notification goes back to PENDING.  The CLI call has no other effect on the
\* rows than its outcome, but the provider may take the mail.
ParkUnverified(w) ==
    LET n == sending[w]
    IN  /\ pc[w] = "send" /\ ~verified
        /\ IF note[n] = "SENDING" THEN SetNote(n, "PENDING", FALSE)
                                  ELSE UNCHANGED <<note, delayed>>
        /\ sending' = [sending EXCEPT ![w] = NoNote]
        /\ Goto(w, "claim")
        /\ UNCHANGED <<taskVars, past, retry, born, active, verified, admitted,
                       checking, outcome, overtaken, accepted>>

SendMail(w) ==
    /\ pc[w] = "send" /\ verified
    /\ \E o \in Outcome, taken \in 0..1 :
          /\ o = "queued" => taken = 1
          /\ o \notin MayBeAccepted => taken = 0
          /\ outcome' = [outcome EXCEPT ![w] = o]
          /\ accepted' = [accepted EXCEPT ![sending[w]] = @ + taken]
    /\ Goto(w, "settle")
    /\ UNCHANGED <<taskVars, past, noteVars, active, verified, admitted,
                   checking, sending, overtaken>>

\* What a transaction after the CLI call has in common: it acts on the
\* notification only if that is still SENDING.
Settle(w, o) ==
    /\ pc[w] = "settle" /\ outcome[w] = o
    /\ Goto(w, "claim")
    /\ sending' = [sending EXCEPT ![w] = NoNote]
    /\ outcome' = [outcome EXCEPT ![w] = "none"]

\* Mutant: the result is recorded whatever became of the notification.
SendingAnyway(w) == TRUE
StillSending(w) == note[sending[w]] = "SENDING"

SettleQueued(w) ==
    LET n == sending[w]
        done == StillSending(w) /\ n[2] = "OPENING" /\ status[n[1]] = "DETECTED"
    IN  /\ Settle(w, "queued")
        /\ IF StillSending(w) THEN SetNote(n, "SENT", FALSE)
                              ELSE UNCHANGED <<note, delayed>>
        /\ status' = IF done THEN [status EXCEPT ![n[1]] = "COMPLETED"] ELSE status
        /\ nextCheck' = IF done THEN [nextCheck EXCEPT ![n[1]] = "none"] ELSE nextCheck
        /\ UNCHANGED <<claim, lease, fails, past, retry, born, active, verified,
                       admitted, checking, overtaken, accepted>>

\* _mark_notification_needs_review and _revoke_mail_attestation
SettleUncertain(w) ==
    /\ Settle(w, "uncertain")
    /\ IF StillSending(w) THEN SetNote(sending[w], "NEEDS_REVIEW", FALSE)
                          ELSE UNCHANGED <<note, delayed>>
    /\ verified' = FALSE
    /\ UNCHANGED <<taskVars, past, retry, born, active, admitted, checking,
                   overtaken, accepted>>

\* Authentication, configuration and unforeseen errors: _park_for_mail_repair.
SettleBroken(w) ==
    /\ Settle(w, "broken")
    /\ IF StillSending(w) THEN SetNote(sending[w], "PENDING", FALSE)
                          ELSE UNCHANGED <<note, delayed>>
    /\ verified' = FALSE
    /\ UNCHANGED <<taskVars, past, retry, born, active, admitted, checking,
                   overtaken, accepted>>

\* Mutant: one retry too many.
RetriesLeftInclusive(n) == retry[n] <= RetryLimit
RetriesLeft(n) == retry[n] < RetryLimit

\* _reschedule_notification and _revoke_mail_attestation
SettleTemporary(w) ==
    LET n == sending[w]
    IN  /\ Settle(w, "temporary")
        /\ verified' = FALSE
        /\ \/ /\ ~StillSending(w)
              /\ UNCHANGED <<note, delayed, retry>>
           \/ /\ StillSending(w) /\ ~RetriesLeft(n)
              /\ SetNote(n, "FAILED", FALSE)
              /\ UNCHANGED retry
           \/ /\ StillSending(w) /\ RetriesLeft(n)
              /\ SetNote(n, "PENDING", TRUE)
              /\ retry' = [retry EXCEPT ![n] = @ + 1]
        /\ UNCHANGED <<taskVars, past, born, active, admitted, checking,
                       overtaken, accepted>>

\* _fail_notification_permanently keeps the attestation.
SettleRejected(w) ==
    /\ Settle(w, "rejected")
    /\ IF StillSending(w) THEN SetNote(sending[w], "PERMANENT_FAILED", FALSE)
                          ELSE UNCHANGED <<note, delayed>>
    /\ UNCHANGED <<taskVars, past, retry, born, active, verified, admitted,
                   checking, overtaken, accepted>>

-----------------------------------------------------------------------------
(* The checking half of a worker's cycle.                                  *)

\* Mutant: a lapsed lease is not reclaimed.
ClaimableIfFree(t) ==
    status[t] = "MONITORING" /\ nextCheck[t] = "due" /\ lease[t] = "free"
Claimable(t) ==
    status[t] = "MONITORING" /\ nextCheck[t] = "due" /\ lease[t] \in {"free", "lapsed"}

\* claim_due_task takes a task with a fresh token, identified with the worker
\* that draws it.
Claim(w, t) ==
    /\ pc[w] = "claim" /\ Claimable(t)
    /\ claim' = [claim EXCEPT ![t] = w]
    /\ lease' = [lease EXCEPT ![t] = "held"]
    /\ checking' = [checking EXCEPT ![w] = t]
    /\ overtaken' = [v \in Worker |-> v # w /\ (overtaken[v] \/ checking[v] = t)]
    /\ Goto(w, "read")
    /\ UNCHANGED <<status, nextCheck, fails, past, noteVars, active, verified,
                   admitted, sending, outcome, accepted>>

\* claim_due_task takes none: no row is claimable but for those it skips, which
\* another transaction has locked at that moment.
ClaimNone(w) ==
    /\ pc[w] = "claim"
    /\ Goto(w, "expire")
    /\ UNCHANGED <<taskVars, past, noteVars, active, verified, admitted,
                   memoryVars, overtaken, accepted>>

ClaimTask(w) == ClaimNone(w) \/ \E t \in Task : Claim(w, t)

\* Mutant: the token is not compared.
ClaimUnchecked(w) == TRUE
ClaimMatches(w) == claim[checking[w]] = w

\* StaleTaskClaim is caught nowhere: the worker process ends and is restarted.
DieOfStaleClaim(w) ==
    /\ pc[w] \in {"read", "check"} /\ ~ClaimMatches(w)
    /\ Goto(w, "down")
    /\ checking' = [checking EXCEPT ![w] = NoTask]
    /\ overtaken' = [overtaken EXCEPT ![w] = FALSE]
    /\ UNCHANGED <<taskVars, past, noteVars, active, verified, admitted,
                   sending, outcome, accepted>>

EndCheck(w) ==
    /\ Goto(w, "expire")
    /\ checking' = [checking EXCEPT ![w] = NoTask]
    /\ overtaken' = [overtaken EXCEPT ![w] = FALSE]

\* The first read of perform_check, before the page is fetched.  The code also
\* returns quietly when the claim matches a task that is no longer monitored;
\* ClaimOnlyWhileMonitoring says that this never happens.
ReadTask(w) ==
    /\ pc[w] = "read" /\ ClaimMatches(w)
    /\ status[checking[w]] = "MONITORING"
    /\ Goto(w, "check")
    /\ UNCHANGED <<taskVars, past, noteVars, active, verified, admitted,
                   memoryVars, overtaken, accepted>>

\* The closing transaction of perform_check with a valid claim.
FinishCheck(w) ==
    /\ pc[w] = "check" /\ ClaimMatches(w)
    /\ status[checking[w]] = "MONITORING"
    /\ EndCheck(w)
    /\ ReleaseClaims({checking[w]})
    /\ UNCHANGED <<past, retry, delayed, active, verified, admitted, sending,
                   outcome, accepted>>

\* A structure or configuration error; the last one allowed stops the task.
CheckBroken(w) ==
    LET t == checking[w]
        count == fails[t] + 1
    IN  /\ FinishCheck(w)
        /\ fails' = [fails EXCEPT ![t] = count]
        /\ IF count >= TerminalLimit
           THEN /\ status' = [status EXCEPT ![t] = "ERROR"]
                /\ nextCheck' = [nextCheck EXCEPT ![t] = "none"]
                /\ CreateNotes({Alert(t)})
           ELSE /\ nextCheck' = [nextCheck EXCEPT ![t] = "later"]
                /\ UNCHANGED <<status, note, born>>

\* A temporary or rate-limit failure, or a page without a bookable show at the
\* cinema: the terminal failures are forgotten and the next check scheduled.
CheckUnopened(w) ==
    LET t == checking[w]
    IN  /\ FinishCheck(w)
        /\ fails' = [fails EXCEPT ![t] = 0]
        /\ nextCheck' = [nextCheck EXCEPT ![t] = "later"]
        /\ UNCHANGED <<status, note, born>>

\* The target cinema sells tickets.
CheckOpened(w) ==
    LET t == checking[w]
    IN  /\ FinishCheck(w)
        /\ fails' = [fails EXCEPT ![t] = 0]
        /\ status' = [status EXCEPT ![t] = "DETECTED"]
        /\ nextCheck' = [nextCheck EXCEPT ![t] = "none"]
        /\ CreateNotes({Opening(t)})

-----------------------------------------------------------------------------
(* The environment.                                                        *)

\* The process is killed; rows stay, memory is lost.
Crash(w) ==
    /\ pc[w] # "down"
    /\ Goto(w, "down")
    /\ checking' = [checking EXCEPT ![w] = NoTask]
    /\ sending' = [sending EXCEPT ![w] = NoNote]
    /\ outcome' = [outcome EXCEPT ![w] = "none"]
    /\ overtaken' = [overtaken EXCEPT ![w] = FALSE]
    /\ UNCHANGED <<taskVars, past, noteVars, active, verified, admitted, accepted>>

\* process_mail_verification and agent_mail_preflight, reduced to what they
\* may leave in is_verified.
AttestMail ==
    /\ verified' = ~verified
    /\ UNCHANGED <<taskVars, past, noteVars, active, admitted, pc, memoryVars,
                   overtaken, accepted>>

LeaseLapses(t) ==
    /\ lease[t] = "held"
    /\ lease' = [lease EXCEPT ![t] = "lapsed"]
    /\ UNCHANGED <<status, claim, nextCheck, fails, past, noteVars, active,
                   verified, admitted, pc, memoryVars, overtaken, accepted>>

CheckFallsDue(t) ==
    /\ nextCheck[t] = "later"
    /\ nextCheck' = [nextCheck EXCEPT ![t] = "due"]
    /\ UNCHANGED <<status, claim, lease, fails, past, noteVars, active,
                   verified, admitted, pc, memoryVars, overtaken, accepted>>

RetryFallsDue(n) ==
    /\ delayed[n]
    /\ delayed' = [delayed EXCEPT ![n] = FALSE]
    /\ UNCHANGED <<taskVars, past, note, retry, born, active, verified,
                   admitted, pc, memoryVars, overtaken, accepted>>

DatePasses(t) ==
    /\ ~past[t]
    /\ past' = [past EXCEPT ![t] = TRUE]
    /\ UNCHANGED <<taskVars, noteVars, active, verified, admitted, pc,
                   memoryVars, overtaken, accepted>>

-----------------------------------------------------------------------------
WebStep ==
    \/ \E t \in Task : \/ AdmitTask(t) \/ CreateTask(t) \/ PauseTask(t)
                       \/ ResumeTask(t) \/ CancelTask(t) \/ RunNow(t)
    \/ EditSettings
    \/ \E u \in User : ToggleUser(u)

MailStep(w) ==
    \/ Dispatch(w) \/ StartDelivery(w) \/ ParkUnverified(w) \/ SendMail(w)
    \/ SettleQueued(w) \/ SettleUncertain(w) \/ SettleBroken(w)
    \/ SettleTemporary(w) \/ SettleRejected(w)

CheckStep(w) ==
    \/ ClaimTask(w) \/ DieOfStaleClaim(w) \/ ReadTask(w)
    \/ CheckBroken(w) \/ CheckUnopened(w) \/ CheckOpened(w)

WorkerStep(w) == Boot(w) \/ ExpireDue(w) \/ MailStep(w) \/ CheckStep(w)

TimePasses ==
    \/ \E t \in Task : LeaseLapses(t) \/ CheckFallsDue(t) \/ DatePasses(t)
    \/ \E n \in Note : RetryFallsDue(n)

Next ==
    \/ WebStep
    \/ \E w \in Worker : WorkerStep(w) \/ Crash(w)
    \/ AttestMail
    \/ TimePasses

Spec == Init /\ [][Next]_vars

(* Fairness.  A worker's steps are bounded: the CLI and the page fetch have    *)
(* timeouts and the container runtime restarts a dead process.  Clocks run.    *)
(* A request locks a row for one short transaction, so a task that is due at   *)
(* claim after claim is not skipped at every one of them.                      *)
Fairness ==
    /\ \A w \in Worker : WF_vars(WorkerStep(w))
    /\ \A t \in Task : SF_vars(\E w \in Worker : Claim(w, t))
    /\ \A t \in Task : WF_vars(LeaseLapses(t)) /\ WF_vars(CheckFallsDue(t))
    /\ \A n \in Note : WF_vars(RetryFallsDue(n))

FairSpec == Spec /\ Fairness

-----------------------------------------------------------------------------
(* Safety.                                                                 *)

\* An opening mail that waits or is being sent belongs to a task that is still
\* DETECTED: cancellation, expiry, pausing and late results never strand one
\* (cancel_task, expire_due_task and the checks of deliver_notification).
LiveOpeningMeansDetected ==
    \A t \in Task : note[Opening(t)] \in {"PENDING", "SENDING"} => status[t] = "DETECTED"

\* COMPLETED means that the opening mail went out, whatever users, a second
\* worker or a restart did between the provider's answer and its recording.
CompletedIffOpeningSent ==
    \A t \in Task : status[t] = "COMPLETED" <=> note[Opening(t)] = "SENT"

\* The provider never takes the same mail twice, through crashes, retries,
\* parking and overlapping workers (SENDING is never resent blindly).
AtMostOneMail == \A n \in Note : accepted[n] <= 1

\* No owner is told both that tickets are on sale and that the date passed
\* without them.
NoContradictoryMails ==
    \A t \in Task : ~(accepted[Opening(t)] > 0 /\ accepted[Expiry(t)] > 0)

\* A claim lives only on a task that is being monitored and exactly as long as
\* its lease, so the status tests that follow a token test in perform_check
\* are never decisive, and no dead claim blocks a resumed task.
ClaimOnlyWhileMonitoring ==
    \A t \in Task : /\ claim[t] # NoWorker => status[t] = "MONITORING"
                    /\ claim[t] = NoWorker <=> lease[t] = "free"

\* A monitored task always has a next check, and no other task has one: none is
\* forgotten by the scheduler and none is checked after it ended.
ScheduledIffMonitoring ==
    \A t \in Task : nextCheck[t] # "none" <=> status[t] = "MONITORING"

\* What a task came to is announced by the transaction that decided it.
OutcomeIsAnnounced ==
    \A t \in Task : /\ status[t] \in {"DETECTED", "COMPLETED"} => note[Opening(t)] # "ABSENT"
                    /\ status[t] = "EXPIRED" <=> note[Expiry(t)] # "ABSENT"
                    /\ status[t] = "ERROR" => note[Alert(t)] # "ABSENT"

\* A user never has two unfinished tasks for the same target, whatever the
\* order of pauses, errors, resumptions and creations.
OneUnfinishedPerTarget ==
    \A u \in User : \A s, t \in UnfinishedOf(u) : TargetOf[s] = TargetOf[t] => s = t

\* A check that was overtaken (its task paused, resumed, cancelled, expired,
\* disabled with its owner or claimed by another worker since) changes nothing
\* when it ends.
OvertakenCheckIsDiscarded ==
    [][\A w \in Worker :
          pc[w] = "check" /\ overtaken[w] /\ pc'[w] # pc[w]
             => UNCHANGED <<taskVars, noteVars>>]_vars

\* With one worker the provider takes an opening mail only while the task is
\* DETECTED: never for a task that its user has cancelled meanwhile.
OpeningMailOnlyWhileDetected ==
    [][\A t \in Task : accepted'[Opening(t)] > accepted[Opening(t)]
                          => status[t] = "DETECTED"]_vars

(* Liveness.                                                               *)

\* A notification never stays SENDING: its worker settles it, or the next start
\* of a worker hands it to a human.
SendingIsResolved ==
    \A n \in Note : note[n] = "SENDING" ~> note[n] # "SENDING"

\* Once mail stays attested, the owner enabled and the workers alive, a waiting
\* notification leaves the queue, retries and older notifications included.
WaitingMailIsSettled ==
    (/\ <>[]verified
     /\ \A u \in User : <>[]active[u]
     /\ <>[][\A w \in Worker : ~Crash(w)]_vars)
    => \A n \in Note : note[n] = "PENDING" ~> note[n] \notin {"PENDING", "SENDING"}

\* A task that is due is checked or stops being due, even when the worker that
\* claimed it died: its lease lapses and another claim succeeds, though a claim
\* skips the row when a request has locked it.
DueTaskIsChecked ==
    <>[][\A w \in Worker : ~Crash(w)]_vars
    => \A t \in Task : nextCheck[t] = "due" ~> (nextCheck[t] # "due" \/ lease[t] = "held")
=============================================================================
