# A verification of TicketWatch

TicketWatch watches Maoyan pages for the moment a cinema starts to sell tickets
and mails the owner of the monitoring task. A Django web process (one gunicorn
worker, two threads) and a worker process share a PostgreSQL database; Redis
carries wake-up hints, the mail leaves through a command line program, and a
script started by a timer backs the database up. This directory holds TLA+
models of what these processes do to the state they share, TLC configurations
that check them on small instances, and proofs of theorems about them. Paths
below are relative to the repository.

## 1. Inventory

| Component | State | Operations | What must hold |
|---|---|---|---|
| Task lifecycle (`core/services/tasks.py`, `core/views.py`) | `MonitorTask`: status, claim, next check, failure counters | create, pause, resume, cancel, run now, save settings, disable account, expire, three endings of a check | a late check changes nothing; status, schedule, claim and notification agree |
| Notification delivery (`core/services/notifications.py`) | `Notification`: status, retries, next attempt | create, dispatch, deliver, settle each outcome, park, hand to a human after a restart | no mail twice, none for a task given up, none forgotten |
| Worker cycle and claims (`core/worker.py`, `core/services/leases.py`) | claim token and lease; the worker's own memory | expire, deliver one mail, claim and check one task; die and restart | one fetch of a task at a time; a dead worker's task is taken up again |
| Check scheduling (`core/services/scheduling.py`, `tasks.py`) | `AppSetting`, `next_check_at`, consecutive failures | interval, back-off, maximum with a concurrent save | a floor between fetches, no starvation |
| Wake-up (`core/services/coordination.py`, `core/scheduler.py`) | a Redis list, two events | notify, wait, fall back, clear | a wake-up that arrived is not slept through, but in the fallback |
| Maoyan adapter (`core/adapters/`, `tasks.py`) | the task's cinema, name and failure count | validate, fetch, parse, preview, create, conclude | an opening is proved by the page; a page that is not understood is an error, not "no tickets" |
| Accounts (`core/views.py:433`, `tasks.py:157`) | `User.is_active`, the tasks owned | create under the owner's lock, disable, enable | the task limit; a disabled account gets no task |
| Invitations (`core/services/invitations.py`, `core/views.py:373`) | `Invitation`: accepted, revoked, expires | issue, revoke, register | one account for an address, one open invitation |
| Mail attestation (`core/services/mail_verification.py`, preflight command) | `AgentMailConfig`: verified, request, claim, retry | request, claim, test mail, identity check, revoke | a stale verification never overwrites a newer fact |
| Agent Mail CLI adapter (`core/services/agent_mail.py`) | none | verify, send | a failure is definite only if the provider took nothing |
| Backups (`deploy/`, `mark_backup_success`) | files, a lock, `RuntimeState` | dump, publish, prune, record, verify | a recorded backup can be restored |
| Runtime health (`core/services/runtime_health.py`) | heartbeat, last backup | record, report | "ok" vouches for what it says |

The interactions: web requests and the worker never talk to each other but
through rows and the wake-up token. A transaction locks the rows it changes
(`select_for_update`); the page fetch and the mail CLI run outside any
transaction, so a worker acts twice on a row with an unprotected gap between.
What protects the gap is the claim token for checks and the status `SENDING` for
mails. The two threads of the web process meet each other in the rows of
accounts and invitations; the backup meets the rest only in the `RuntimeState`
row that the status page reads.

The hard behaviours are that gap; a worker or a backup killed anywhere; two
workers that overlap during a restart (`compose.yaml` has one, the lease is
there for the overlap: design document of 2026-08-17, line 148); transactions
whose statements see different snapshots under READ COMMITTED; a clock that is
read once per cycle; a wake-up that arrives at the wrong moment; a platform that
answers anything. `PROJECT.json` lists the hazards, each at its line, with the
properties that would catch it.

## 2. Modules

    OwnerPromise      what an owner may rely on (abstract)
    TaskLifecycle     tasks, notifications, workers, requests
    PromiseKept       TaskLifecycle with one worker implements OwnerPromise
    PollSchedule      next_check_at, leases and intervals on a clock
    WakeUp            PollSchedule with the worker's waits and the wake-ups
    PageCheck         requests, parser, preview and the conclusion of a check
    Accounts          disabling against creation, statement by statement
    Invitations       issuing against registration, statement by statement
    WebRequests       Accounts and Invitations served by the same two threads
    MailAttestation   the AgentMailConfig row: tests, identity checks, preflight
    Backup            backup runs, published files, the record, the status page

    TaskLifecycleProofs, TaskRowProofs, PromiseProofs, PollScheduleProofs,
    PageCheckProofs, WebRequestsProofs, MailAttestationProofs, BackupProofs
    MC*               instances for TLC

### TaskLifecycle

One action for each transaction or external call. A worker's `pc` runs through
`expire, dispatch, deliver, send, settle, claim, read, check` and back;
`Crash` may strike at any of them, `Boot` is the start of `run_forever`.

| Code | Model |
|---|---|
| `MonitorTask.status`, `claim_token`, `claim_expires_at`, `next_check_at`, `consecutive_terminal_failures` | `status`, `claim`, `lease`, `nextCheck`, `fails` |
| `Notification.status`, `retry_count`, `next_attempt_at`, `created_at` | `note`, `retry`, `delayed`, `born` |
| `create_task` before / in its transaction | `AdmitTask` / `CreateTask` |
| `task_pause`, `task_resume`, `cancel_task`, `task_run_now`, `settings_edit`, `user_toggle` | `PauseTask`, `ResumeTask`, `CancelTask`, `RunNow`, `EditSettings`, `ToggleUser` |
| `expire_due_task` | `ExpireDue` |
| `dispatch_due_notifications`, `deliver_notification` | `Dispatch`, `StartDelivery`, `ParkUnverified`, `SendMail`, `Settle*` |
| `claim_due_task`, `perform_check` | `Claim`, `ClaimNone`, `ReadTask`, `DieOfStaleClaim`, `CheckBroken`, `CheckUnopened`, `CheckOpened` |

Abstractions, and why they lose nothing the properties need:

- Time: a next check is none, due or later, a lease free, held or lapsed;
  environment actions move them forward, so every order of time and steps
  occurs, those that real clocks exclude included. `PollSchedule` has the clock.
- A claim token is drawn afresh for each claim. The model writes the worker for
  it; a worker has one check at a time and drops the token with it, so that a
  second claim of the same worker can only meet its own older token if the
  worker died in between, when nobody compares it any more.
- `consecutive_failures` only selects a back-off and lives in `PollSchedule`;
  which answers of the platform are which failure is in `PageCheck`. A
  temporary failure and a page without the cinema then leave the same rows and
  are one action, `CheckUnopened`.
- `perform_check` returns quietly if its claim matches but the task is not
  monitored (`tasks.py:312` and `:333`). `ClaimOnlyWhileMonitoring` shows that
  this cannot happen; the model has no action for it, and TLC's deadlock check
  would find the worker stuck.
- `claim_due_task` skips a row that another transaction has locked. A claim may
  therefore come back empty although a task is due (`ClaimNone`).
- The mail attestation is one flag that may change at any time (`AttestMail`).
  Deliveries that lose it (`_revoke_mail_attestation`) are in the model.
- `user_toggle` is atomic here; its interleavings are `Accounts`. An account may
  still act after it was disabled: a request authenticated before goes on.
- In the development mode `runlocal`, a scheduler thread catches the exception
  of a stale claim and never marks `SENDING` notifications. The model is the
  deployed worker.

`MayBeAccepted` names the outcomes of a send after which the provider may have
the mail. The contract the code relies on is `{queued, uncertain}`.

`PromiseKept` maps monitoring, paused and failed tasks to "watched" and an
accepted mail to a sent one. It holds for one worker: a second one that starts
marks the mail that the first one is sending `NEEDS_REVIEW`, which lets a user
cancel the task while its opening mail is under way.

### PollSchedule and WakeUp

A worker's stages have a maximal duration (`MailTime`, `FetchTime`, `IdleTime`)
and `Tick` does not let one overrun. `now[w]` is the clock reading of
`run_once`, from which leases and next checks are counted. `FetchTime` is an
assumption: the adapter limits each of three requests to 15 s of connecting and
15 s between two reads, not in total, so 45 s is what a fetch takes from a
platform that answers without pauses. `IntervalFor` is
`interval_seconds_for` with its windows before the show date, so tasks pass
through the tiers while they are scheduled. History variables record the gap
between two fetches nobody asked for, the time a save of the settings promised,
and whether a user took a worker's claim away.

`claim_due_task` selects with `select_for_update(skip_locked=True)`
(`leases.py:37`). A claim therefore finds some set of rows `held` by other
transactions, takes the earliest due task among the rest, and finds nothing if
all due rows are held. Most holders change the row and are actions here, but a
holder may leave it as it was: the second request of a double-clicked resumption
(`views.py:285-292`). So any set may be held, at any claim, up to `MaxPassed`
times between two schedules of a task; `passed` counts the claims that found a
due task's row held, and the bounds are stated in it.

`WakeUp` adds how the worker waits:

| Code | Model |
|---|---|
| `run_forever`: cycle, then wait if there was no work | `Cycle`, `Claim`, `EndCheck`, `EndIdle`, `WaitsAfter` |
| `wait_for_worker`: BRPOP, time-out, fallback to an event | `Pop`, `TimeOut`, `RedisFails`, `wait[w]` |
| `LocalScheduler.run`: wait, then clear | `EndWait`, `Clear` |
| `wake_scheduler` on commit of `task_run_now`, `task_resume`, `settings_edit` (a creation wakes as a resumption does) | `Ask`, `Reschedule`, then `Notify` or `LoseNotice` |

LPUSH and LTRIM are one step: an element more in between would only cause one
more cycle. The history variable `hinted` holds a task from the arrival of its
wake-up until it is claimed, paused or rescheduled, or a claim finds its row
held.

A worker that lost Redis waits in the fallback, on the event that stops the
process (`coordination.py:44`). No wake-up sets it, so a wake-up that arrives
there is slept through, for `IdleTime` at most (`Tick` lets no wait last longer).
`WakeIsNotLost` says nothing of that wait.

### PageCheck

A page is a record of what `parse_html` looks at: the markers for city, film and
day, the number of lists and of empty-list notices, and cells with an identity,
a name and a booking control. CSS selectors and text normalisation are reduced
to what they select.

| Code | Model |
|---|---|
| `validate_target` | `Validation` |
| `fetch`: start page, one repetition, list; `_validate_response_status` | `GetBootstrap`, `RetryBootstrap`, `GetList`, `StatusFailure` |
| `parse_html`, `_validated_booking_url` | `ContextProved`, `ListProved`, `CellRefused`, `ValidBooking`, `ParseFailure` |
| preview, its signature, `create_task` | `BeginPreview`, `EndPreview`, `PreviewLapses`, `CreateTask` |
| `perform_check` after the fetch | `FailCheck`, `ConcludeCheck`, `ContextMismatch`, `MatchesTarget` |

The properties are stated from what a page says (`AboutTarget`, `Offered`),
without the parser's operators.

### Accounts, Invitations and WebRequests

Requests proceed by statements: a select sees the rows committed when it
starts, locks last until the commit, and an UPDATE tests again a row it had to
wait for. `Accounts` has `create_task` (owner's lock, count, insert) and
`user_toggle` (select tasks, lock them, lock the account, commit); the other
transactions touch one row and are one step. `Invitations` has
`issue_invitation` (look for an account, find older invitations, commit) and
`invite_register` (lock the invitation, insert the account or fail on the
unique username). `WebRequests` lets the same threads serve both: an account
exists once its registration has committed, and requests need one.

`Legacy` are the accounts that no invitation made. Migration 0010 creates one
(`0010_invite_users_and_task_owners.py:8-33`) and gives it the tasks that had no
owner; once an administrator has set its password (`changepassword` in
`docs/server-deployment.md`) it creates tasks like any other. The model begins as
a fresh installation does, with that account and no task. An upgraded database
may begin with more of its tasks than the limit, and `ActiveLimit` is not claimed
of those.

### MailAttestation

| Code | Model |
|---|---|
| `AgentMailConfig` | `config`, a record with its fields |
| `mail_test`: stores the recipient, then `request_mail_verification` | `SaveRecipient`, `RequestTest` |
| `_claim_pending_verification`, the test, `_complete_claim` | `ClaimRequest`, `SendTest`, `CompleteClaim` |
| the identity check of `process_mail_verification` | `ReadConfig`, `CheckIdentity`, `RecordIdentity` |
| `deliver_notification` up to `_revoke_mail_attestation` | `DeliverQuietly`, `FailDelivery`, `RevokeAttestation` |
| `agent_mail_preflight` | `StartPreflight`, `ResetVerification`, `RefreshConfig`, `CallPreflight`, `MarkPreflight`, `PreflightDies` |

- `updated_at` is only compared for equality. `stamp` holds abstract readings of
  the clock; `Fresh` is one that no row and no process holds, so that two
  separate readings differ and the readings of one cycle are the same.
- `verification_completed_at` matters only as "unset or six hours old" (`aged`).
- `verification_requested_at` is the number of the request. `saved` counts the
  requests that have stored their recipient: that first commit moves `updated_at`
  by itself (`views.py:115-118`).
- The claim token is the worker's name, for the reason given above.
- The branch for a `PENDING` row without a request (`mail_verification.py:192`)
  has no action: `ClaimOnlyWhilePending` rests on the fact that only
  `request_mail_verification` writes `PENDING`, together with the request, and
  migration 0008 writes `VERIFIED` or `FAILED`.
- A delivery reads `is_verified` twice (`notifications.py:315` and `:408`); only
  the second read is in the model, the one that decides about the call.

The fence by `updated_at` compares readings that a worker writes several times
in a cycle. A preflight that reads the row between two of them does not notice
the second: if that is a failed delivery's, mail is attested again by an older
answer, until the next delivery fails. No property claims the contrary;
`OnlyItsTestSettlesARequest` is about pending requests, and says nothing of a
revocation that is overwritten.

### Backup

| Code | Model |
|---|---|
| `flock`, the name from the clock, the temporary file | `Start`, `Lock` |
| `pg_dump` piped to `gzip` under `pipefail` | `EndDump`, `PipeSucceeds` |
| `ln` | `Publish` |
| `find -mtime +7 -delete`, file by file | `Prune`, `EndPrune` |
| `docker compose exec ... mark_backup_success`: the client, the command, the client's end | `StartRecord`, `Record` or `LoseRecord`, `EndRun` |
| an error, a signal, a kill, at any point | `Abort` |
| `collect_runtime_status`: the clock, then the row | `Ask`, `Answer`, `BackupStatus` |

A file's name is the second at which its run got the lock. What a run leaves
besides published files is a temporary file that nothing reads.

The commands of a run inherit its lock (file descriptor 7), but
`mark_backup_success` runs in the web container, where only the docker client on
the host has it. A run that is killed at its last command frees the lock while
the container goes on: `marks` are the names for which it is at work, and
`Record` may write one after another run has published and recorded a newer
file. So the record can fall back. `RecordIsNewest` says that it does so only by
a record whose client died (`Orphaned`), and `late` remembers that the last
record was one.

## 3. Runs

| Run | Question | Instance | Result |
|---|---|---|---|
| `task_overlap` | are rows consistent under overlapping workers? | 1 task, 2 workers, 1 account, limits 2 and 1 | nine properties hold |
| `task_progress` | does everything end, and does the lifecycle implement `OwnerPromise`? | 1 task, 1 worker, fair | five hold |
| `mail_twice` | and if the CLI's failures are not definite? | as `task_progress` | violated |
| `poll_lease` | floor, saved schedules, one fetch at a time | 1 task, 2 workers, crashes, 2 settings | three hold |
| `poll_queue` | is a wake-up lost, does a due task wait for ever? | 2 tasks whose rows may be held, 1 worker, Redis or local | three hold |
| `poll_floor` | is the documented floor kept? | 1 task, 1 worker | violated |
| `page_check` | do openings, closures and stops rest on what a page proves? | 40 pages, 2 cinemas, 3 spellings | five hold |
| `web_requests` | invitations, registrations, creations and disabling at once | 1 invited address and the owner of the migration, 2 invitations, 3 tasks, 2 threads | four hold |
| `account_disabled` | does a disabled account monitor nothing? | 2 tasks, 2 requests | violated |
| `invite_open` | one open invitation for an address? | 2 invitations, 2 threads | violated |
| `mail_attestation` | do all writers leave an agreeing row, who settles a request, does mail recover? | 1 worker, 1 preflight, 2 requests, fair | six hold |
| `backup` | can the recorded backup be restored, does "ok" vouch for data of that age? | 2 runs, 1 reader, clock 0..5 | five hold |

The type invariants of `PageCheck`, `PollSchedule` and `MailAttestation`, and
`OneUnfinishedPerTarget`, `FoundTasksStop`, `TasksOfInvited` and
`RevokedNeverAccepts`, belong to no run: they are theorems (section 5).

### Bounds

- `TaskLifecycle`: rows of one task with two workers show every overlap of a
  check or delivery with another; a third worker could only repeat what the
  second does. What tasks do to each other (the account's limit, the unique
  target, the worker's single claim) is in `web_requests`, in `poll_queue` and
  in the theorem `OneUnfinished`. `TerminalLimit` is 5 and `RetryLimit` 5 in
  the code; 2 and 1 still have a failure that is not the last and a retry that
  is.
- `PollSchedule`: the floor is 3 ticks of about 20 s, mail and fetch one tick
  each, the lease 4, so that it is longer than a cycle as 300 s are. The show
  time (6) and the windows (2 and 4) lie in the middle of the run, so that
  tasks pass through all three tiers. `Horizon` stops the clock (hence no
  deadlock check): 8 ticks hold two intervals and a lease.
- `WakeUp`: a fetch takes no tick here, which makes a cycle of 2 ticks and the
  bound of `NoStarvation` for two tasks 5, or 7 if a claim found the row held
  once (`MaxPassed` is 1); the 9 ticks of the clock hold that and a cycle on top.
  `IdleTime` is one tick, longer waits up to a scan are the same wait;
  when Redis fails in the middle of a wait, the code may wait up to two scans
  in a row, which the tick covers as well. The VIEW leaves out
  `PollSchedule`'s history, which no guard and none of the run's properties
  reads, but for `passed`.
- `PageCheck`: sound pages with up to two cells, and such pages with one thing
  wrong; two spellings are of one name. `TerminalLimit` is 2. The task may end
  in `DETECTED`, hence no deadlock check.
- `WebRequests`: the web process has two threads; the invited account's two tasks
  exceed its limit of one, and the migration's owner has a task of its own; two
  invitations allow an issue, a second one that revokes it, and a registration by
  either. It stops when every invitation is used, hence no deadlock check. The
  VIEW leaves out what an idle thread served last.
- `MailAttestation`: two requests let one be repeated during the test of the
  other; the table of waiting times has five entries, two retries already meet
  its end. One worker is what is deployed; workers that overlap are covered by
  the theorems, which take any number.
- `Backup`: two runs overlap and wait for each other; `Retention` 2 with a clock
  up to 5 lets a file become outdated while later dumps fail, and a record
  arrive after the file of a later run. `RunTime` (1)
  stays below `Retention`, the named assumption `RunsAreShort`: no command
  limits a dump, and one of more than a week would delete its own file.

### Fairness

`FairSpec` of `TaskLifecycle` (only in `task_progress`) assumes weak fairness of
each worker's steps, of clocks (leases lapse, checks and retries fall due), and
of nothing a user or administrator does. The code justifies it: the CLI has a
timeout of 30 s per call and the page requests have timeouts, so no step lasts
for ever; the container runtime restarts a worker that ended (`restart:
unless-stopped`). The claim of a given task is under strong fairness: by its own
fairness a worker might find the row locked at each of its claims, but a request
locks a row for one short transaction, so that not every claim skips it. `WaitingMailIsSettled` further
assumes that mail stays attested, the account enabled and the worker alive from
some time on, `DueTaskIsChecked` that the worker stays alive; without that
nothing can be promised. `SendingIsResolved` needs none of it. A provider that
fails for ever takes the attestation away with each failure, which the
assumption excludes: that the number of retries has a limit is in `TypeOK`, and
not in `WaitingMailIsSettled`.

`FairSpec` of `MailAttestation` assumes the same of workers and clocks, and
nothing of requests, preflights, crashes and the provider. `RequestIsAnswered`
assumes that crashes end, `MailRecovers` also that from some time on the
provider answers and no preflight runs.

`PollSchedule` and `WakeUp` have time limits in place of fairness:
`NoStarvation` and the wake-up properties are bounds, hence invariants.

## 4. Findings

1. **A mail can be sent twice** (`mail_twice`). A CLI that is killed or prints
   no JSON is a configuration error (`agent_mail.py:79-99`), whose mails are
   parked as `PENDING` and sent again, although the provider may have taken
   them. The design document (line 240) allows a retry only after a definite
   failure. If the CLI's errors are definite, `AtMostOneMail` holds, and is
   proved.
2. **Two fetches less than the minimal interval apart** (`poll_floor`). The
   interval is counted from the start of the cycle, the mail work in front of
   the fetch is lost from it. What is left is `FloorLessMailTime`. Nothing else
   costs anything: `FloorWithoutMail` proves the floor for a `MailTime` of 0.
3. **A disabled account may go on monitoring** (`account_disabled`). A task
   created or resumed between `user_toggle`'s selection and its commit is not
   paused. No task is created for an account already disabled
   (`NoTaskForDisabled`), and with a single thread the promise holds, as
   `DisabledInTurn` proves, whatever the worker does at the same time.
4. **Two open invitations for one address** (`invite_open`). Concurrent issues
   do not see each other. Registration is safe all the same
   (`OneAccountPerEmail`); issues one at a time leave one open, as
   `OneOpenInTurn` proves.

Observed while modelling, without a run of their own:

- A URL with another filter but without `movieId` or `showDate` passes the test
  of `maoyan.py:268`, which is one for a proper subset, and then raises a
  `KeyError` that the preview view does not turn into a form error
  (`Validation` says "crashed").
- The cinema id of a task made from a typed name is saved only with its
  detection; the MVP design (sections 7 and 9.2) has it saved when it is first
  resolved. `OpeningIsProved` covers namesakes on one page.
- The repository's `README.md:40` and the MVP design (section 8) count platform
  errors towards the five that lead to `ERROR`; the code, its tests
  (`test_checks.py:442-570`) and the design of 2026-08-17 (line 204) count
  structure and configuration errors only. `OnlySeriesStops` is the code's rule.
- A double-clicked resumption: the second request locks the row that the first
  has made due, finds nothing to do and lets it go (`views.py:285-292`). A worker
  woken by the first may look for work in that moment, skip the row
  (`leases.py:37`) and wait for a scan. `HintedTaskIsTaken` excepts the rows that
  were held, `NoStarvation` counts a cycle for each.
- A wake-up that arrives while the worker waits in its fallback is not noticed
  until the wait ends (`coordination.py:44`).
- The backup named on the status page can fall back to an older file if a run is
  killed while the web container records (`backup-postgres.sh:150`).
- A heartbeat of the future makes a healthy worker stale
  (`runtime_health.py:45`, against `docs/server-deployment.md:288`).
- `verify-backup.sh:131-133`: a signal between `createdb` and the flag for the
  trap leaves the restored copy.

## 5. Proofs

All theorems hold for every value of the constants under the named assumptions
of the modules; `PROJECT.json` lists them.

`TaskLifecycleProofs`: any finite set of tasks, any accounts, workers, limits.

- `TypeCorrect`: `TypeOK` is not inductive alone: that `retry` stays within
  `RetryLimit` and `fails` within `TerminalLimit` needs the part of `TypeInv`
  that says where a worker stands when its `checking`, `sending` and `outcome`
  hold a value, and that a monitored task has failed less than `TerminalLimit`
  times.
- `NoMailTwice`, if `MayBeAccepted` is within `{queued, uncertain}`. The
  inductive invariant `MailInv` says that a notification that waits was never
  accepted; that one being sent by a worker in front of its call was not either
  and has no other sender; and that one accepted is in the hands of a worker
  that will record it, or is settled for good.

`TaskRowProofs`: the columns of a row agree.

- `ScheduleAgrees` and `ClaimsAgree` from `RowInv`, which is inductive with
  `TypeInv`.
- `LiveOpeningDetected`, `CompletedMeansSent` and `OutcomeAnnounced` from
  `AnnouncedInv`, which says for each status of a task which of its mails exist
  and how far they are. `NoContradiction` needs also `GivenInv`: only
  notifications that exist are given to the provider, and none disappears.
- `OneUnfinished`; and `OvertakenDiscarded` from `OvertakenInv`: an overtaken
  worker's token is not the row's.

`PromiseProofs`: `PromiseHolds` is the refinement, one step of `OwnerPromise`
or a stutter for each action, and `OpeningOnlyForDetected` the action property
behind it. Both assume `OneWorker` and `FailuresAreDefinite`. The strengthening
`DeliveryInv` says that the notification a worker delivers stays `SENDING` and,
if the CLI said so, is accepted: with one worker nobody else ends a delivery.

`PollScheduleProofs`: `ScheduleTypes`, `FloorHolds`, `SaveWins`, `OneFetch`, for
any settings above the floor, any back-off table and any number of workers that
die. `ScheduleInv` bounds a worker's clock reading by its stage's limits
(`StageOK`), says that a task is not due, by its schedule or by its lease,
before the floor less the mail time after its last fetch (`DueOK`), and that a
worker that has its claim began that fetch (`CheckOK`). The assumption
`LeaseOutlastsCycle` is what `OneFetch` rests on.

`NothingStarves` proves `NoStarvation` for any number of tasks if one worker
stays alive; the others may die at any point, with their claims, and rows may be
held at any claim. The bound is
exact: one worker, two tasks and a floor of 0 reach it. It is a bound and no
liveness property, since `Tick` waits for workers, and the invariant is a budget
(`QueueOK`): what is left of the cycle the living worker is in, plus one cycle
for each task `Ahead` of the waiting one, fits into the time the bound leaves.

- A cycle that began before the task fell due may take any other task. From the
  next one on the earliest due whose row is free is taken, so each cycle takes the
  waiting task or one ahead of it, or finds the waiting one held and adds a cycle
  to its bound; the `MailTime` in the bound is that of the waiting task's own
  cycle, up to its claim.
- A task that was taken ends behind the waiting one (`FinishRaises`): its next
  check is counted from the start of its cycle. A user's request moves a task to
  the present, hence behind as well.
- So the count of `Ahead` never grows (`PlaceStep`), except around a task that
  fell due a moment ago, which has all of its time left (`RecentIsInTime`).
- A task whose claim a user cleared in the middle of its fetch was asked for
  after the fetch began (`EvictedOK`); claimed tasks have a schedule and free
  ones no lease (`RowsOK`).

The budget counts sets of tasks (`DebtMono`, `DebtRemove`), which is why the
tasks are assumed to be finite (`TasksFinite`).

The module's last part is about `WakeUp`, whose steps are steps of the schedule
or leave it alone (`WakeIsSchedule`): `NothingStarvesAwake`, and `NoWakeLost` and
`HintsAreServed` for any number of tasks and one worker, which alone takes
tokens. `WaitOK` says that from the start of a cycle on a wake-up that arrived
has its token until the worker waits again, on Redis or on the local scheduler's
event, `HintOK` that a task asked for is free and due, and is known to be due by
a cycle that began after its wake-up.

`PageCheckProofs`: `PageTypes`, `OpeningProved`, `ClosedProved`,
`PreviewUnderstood`, `SeriesStops`, `PoliteAlways`, for every set of pages.
`FetchOK` says that a page in the stage "page" was understood, `OriginOK` the
same of the page a task was made from, `CountsOK` that the count is at most the
series, `LogOK` what was asked before each stage of a fetch.

`WebRequestsProofs`: `LimitHolds`, `NoneForDisabled`, `FoundStop` from what row
locks protect (`CreationOK`, `ToggleOK`); `OneAccount`, `AcceptedStays`,
`OpenAtCommit` from what a registration knows of the invitation it has locked
and of the accounts made so far (`RowsOK`, `MadeOK`); from both `OfInvited`, that
a task belongs to the migration's owner or to an account whose invitation is
recorded as accepted. The
steps of `Accounts` are proved about once, since `WebSpec` implies its
specification (`WebIsAccounts`). `DisabledInTurn` and `OneOpenInTurn` assume
`OneThread` and say what two of the findings rest on: with requests one at a
time, a toggle knows every task of its account (`InTurnOK`) and an issue every
open invitation (`FoundOK`).

`MailAttestationProofs`, for any number of workers and operators.

- `FlagAgrees`, `ClaimAgrees`: together inductive, given the fields of the row
  (`RowShape`). One lemma (`ConcludedAgrees`) covers the five writers that
  conclude a verification. `BackoffAgrees` adds the retry columns.
- `SettledByItsTest`, from the fences.
- `AttestationTypes`: its hard part is that `Fresh` finds a reading, by counting
  those that the row and the processes hold (`FreshReading`).

`BackupProofs`: `PublishedSound`, `RecordedRestorable`, `SomeFileStays`,
`RecordNewest`, `OkVouches`, for any number of runs and readers, if
`RunTime <= Retention`. `LockOK` says that one run at a time is between lock and
record and that no file is newer than its name, `DumpOK` that a run that prunes
still has its own file, which is why the deletion spares one. `RecordOK` says
that what the container is about to record can be restored, and that a record
whose client lives comes within the time of a run: that is where `OkVouches`
gets the age of the data from, since the row has only the time of the record.

Only model-checked: `SendingIsResolved`, `WaitingMailIsSettled`,
`DueTaskIsChecked`, `RequestIsAnswered` and `MailRecovers`, since liveness under
fairness is out of the prover's reach. Each other property of a passing run is a
theorem, and each property of a violated run is one under the assumption that
its finding breaks.

## 6. Not modelled

- Data manifest and migrations: checksums of rows, run by one process while the
  service is stopped.
- Rendering of pages, forms and settings; what of them constrains the state is
  an assumption (`IntervalsAboveFloor`, `LeaseOutlastsCycle`).
- Login and sessions: Django's.
- The parsing of the mail CLI's output, which sorts outputs into the outcomes
  of `SendMail`.
- Heartbeat and health probes: reports of one reading each. The age limit of an
  attestation and the heartbeat at the creation of a task only let `AdmitTask`
  be refused, which the model allows at any time.
- `verify-backup.sh`: it works on a database of its own.
- Waiting of transactions for each other's row locks: expiry, disabling and
  saving the settings lock tasks in different orders, PostgreSQL aborts one of
  two that wait for each other, and what an aborted transaction leaves is what a
  crash leaves before it.
- The legacy script `monitor.py`, which nothing starts.

## 7. Plan

Done: every component of the inventory whose operations share state, with
theorems for all safety properties that hold.

Left, in this order:

1. `WakeUp` with two workers, one of which takes the token that the other waits
   for: what remains true is `NothingStarves`, and the wake-up properties need a
   weaker form.
2. Requests of two accounts in one instance of `WebRequests`; the theorems cover
   any number.
3. The age limit of an attestation against the clock of `PollSchedule`.
