---------------------------- MODULE PollSchedule ----------------------------
(***************************************************************************)
(* When tasks are checked: next_check_at, leases, intervals and back-off   *)
(* on a clock.  A worker reads the clock once, at the start of its cycle   *)
(* (run_once), and uses that reading for everything that follows: the mail *)
(* work that comes first and takes up to MailTime, the claim, and the next *)
(* check time computed after the fetch, which takes up to FetchTime.       *)
(*                                                                         *)
(* A claim skips the rows that other transactions hold locked              *)
(* (select_for_update(skip_locked=True)).  Those transactions are short    *)
(* and each is one step here, or none when it changes nothing; a claim     *)
(* finds any set of rows held.                                             *)
(*                                                                         *)
(* What a check finds is left out but for success and failure              *)
(* (TaskLifecycle has the rest).  The clock stops at Horizon, and a row    *)
(* is found held MaxPassed times between two schedules of its task.        *)
(***************************************************************************)
EXTENDS Integers, Sequences, FiniteSets

CONSTANTS
    Task,
    Worker,
    ShowTime,    \* the midnight that begins a task's show date
    Setting,     \* settings the form accepts
    Floor,       \* minimum of their intervals (60 s)
    Backoff,     \* FAILURE_BACKOFF_SECONDS
    MailTime,    \* verification and delivery before the claim (<= 60 s + 60 s)
    FetchTime,   \* the three page requests: 45 s if none exceeds its timeout of 15 s
    IdleTime,    \* longest wait between cycles
    Lease,       \* settings.WORKER_LEASE_SECONDS
    Horizon,     \* bound on the clock
    MaxPassed,   \* bound on how often a claim passes a task over
    NoTask, NoWorker

ASSUME TasksFinite == IsFiniteSet(Task)
ASSUME DurationsNat ==
    {MailTime, FetchTime, IdleTime, Floor, Lease, Horizon, MaxPassed} \subseteq Nat
ASSUME ShowTimesTyped == ShowTime \in [Task -> Int]
ASSUME IntervalsAboveFloor ==
    /\ Setting # {} /\ IsFiniteSet(Setting)
    /\ Setting \subseteq [urgent : Nat, near : Nat, far : Nat, urgentWindow : Nat, nearWindow : Nat]
    /\ \A s \in Setting : /\ s.urgent >= Floor /\ s.near >= Floor /\ s.far >= Floor
                          /\ s.nearWindow > s.urgentWindow
ASSUME BackoffTyped == Backoff \in Seq(Nat) /\ Backoff # <<>>
ASSUME LeaseOutlastsCycle == Lease > MailTime + FetchTime /\ Lease >= Floor
ASSUME NullsFresh == NoTask \notin Task /\ NoWorker \notin Worker

NoTime == -1
Max2(a, b) == IF a > b THEN a ELSE b
Min2(a, b) == IF a < b THEN a ELSE b

VARIABLES
    clock,
    setting,     \* AppSetting
    nextCheck,   \* next_check_at, NoTime if the task is paused
    claim,       \* claim_token
    leaseEnd,    \* claim_expires_at
    failures,    \* consecutive_failures, as far as Backoff tells them apart
    pc,          \* "idle", "mail" or "fetch"
    now,         \* the clock reading of a worker's cycle
    since,       \* when the worker entered its stage
    job,         \* the task a worker fetches
    fetched,     \* history: start of the last fetch of a task
    asked,       \* history: its user asked for a check or resumed it since then
    gap,         \* history: from one fetch to the next nobody asked for
    promised,    \* history: the time the last save of the settings chose
    evicted,     \* history: a user cleared the claim of a worker's check
    passed       \* history: claims that found a due task's row held, since the
                 \* task was scheduled

vars == <<clock, setting, nextCheck, claim, leaseEnd, failures, pc, now, since,
          job, fetched, asked, gap, promised, evicted, passed>>
rows == <<nextCheck, claim, leaseEnd, failures>>
workers == <<pc, now, since, job>>
history == <<fetched, asked, gap, promised, evicted, passed>>

TypeOK ==
    /\ clock \in Nat
    /\ setting \in Setting
    /\ nextCheck \in [Task -> Int]
    /\ claim \in [Task -> Worker \cup {NoWorker}]
    /\ leaseEnd \in [Task -> Int]
    /\ failures \in [Task -> Nat]
    /\ pc \in [Worker -> {"idle", "mail", "fetch"}]
    /\ now \in [Worker -> Nat]
    /\ since \in [Worker -> Nat]
    /\ job \in [Worker -> Task \cup {NoTask}]
    /\ fetched \in [Task -> Int]
    /\ asked \in [Task -> BOOLEAN]
    /\ gap \in [Task -> Int]
    /\ promised \in [Task -> Int]
    /\ evicted \in [Worker -> BOOLEAN]
    /\ passed \in [Task -> 0..MaxPassed]
    /\ \A t \in Task : /\ {nextCheck[t], leaseEnd[t], fetched[t], gap[t], promised[t]}
                              \subseteq Nat \cup {NoTime}
                       /\ failures[t] <= Len(Backoff)

Init ==
    /\ clock = 0
    /\ setting \in Setting
    /\ nextCheck = [t \in Task |-> 0]
    /\ claim = [t \in Task |-> NoWorker]
    /\ leaseEnd = [t \in Task |-> NoTime]
    /\ failures = [t \in Task |-> 0]
    /\ pc = [w \in Worker |-> "idle"]
    /\ now = [w \in Worker |-> 0]
    /\ since = [w \in Worker |-> 0]
    /\ job = [w \in Worker |-> NoTask]
    /\ fetched = [t \in Task |-> NoTime]
    /\ asked = [t \in Task |-> FALSE]
    /\ gap = [t \in Task |-> NoTime]
    /\ promised = [t \in Task |-> NoTime]
    /\ evicted = [w \in Worker |-> FALSE]
    /\ passed = [t \in Task |-> 0]

Enter(w, stage) ==
    /\ pc' = [pc EXCEPT ![w] = stage]
    /\ since' = [since EXCEPT ![w] = clock]

\* interval_seconds_for: from the show date on, the window is the urgent one.
IntervalFor(s, t, at) ==
    LET remaining == ShowTime[t] - at
    IN  IF remaining <= s.urgentWindow THEN s.urgent
        ELSE IF remaining <= s.nearWindow THEN s.near ELSE s.far

-----------------------------------------------------------------------------
(* The worker.                                                             *)

StartCycle(w) ==
    /\ pc[w] = "idle"
    /\ now' = [now EXCEPT ![w] = clock]
    /\ Enter(w, "mail")
    /\ UNCHANGED <<clock, setting, rows, job, history>>

Expired(t, at) == leaseEnd[t] = NoTime \/ leaseEnd[t] <= at

\* Mutant: the lease of another worker is not respected.
DueEvenIfLeased(t, at) == nextCheck[t] # NoTime /\ nextCheck[t] <= at
Due(t, at) == nextCheck[t] # NoTime /\ nextCheck[t] <= at /\ Expired(t, at)

\* The rows that other transactions hold while a worker claims, here and below:
\* requests for a task, settings_edit and user_toggle, other workers.
MayBeHeld == {t \in Task : passed[t] < MaxPassed}

\* Mutant: any due task is taken, without the order of next_check_at.
AnyDue(t, at, held) == t \notin held /\ Due(t, at)
EarliestDue(t, at, held) ==
    /\ t \notin held /\ Due(t, at)
    /\ \A s \in Task \ held : Due(s, at) => nextCheck[t] <= nextCheck[s]

\* History: a claim at the given time passes over the due tasks among these.
PassOver(tasks, at) ==
    passed' = [t \in Task |-> IF t \in tasks /\ Due(t, at) THEN passed[t] + 1 ELSE passed[t]]

\* History: the task has a new schedule.
Scheduled(t) == passed' = [passed EXCEPT ![t] = 0]

\* claim_due_task, then perform_check up to its fetch.  Two requests for checks
\* are told apart from a schedule: only the gap between fetches nobody asked
\* for is recorded.
ClaimTask(w) ==
    /\ pc[w] = "mail"
    /\ \E held \in SUBSET MayBeHeld, t \in Task :
          /\ EarliestDue(t, now[w], held)
          /\ PassOver({s \in held : nextCheck[s] < nextCheck[t]}, now[w])
          /\ claim' = [claim EXCEPT ![t] = w]
          /\ leaseEnd' = [leaseEnd EXCEPT ![t] = now[w] + Lease]
          /\ job' = [job EXCEPT ![w] = t]
          /\ fetched' = [fetched EXCEPT ![t] = clock]
          /\ gap' = [gap EXCEPT ![t] = IF asked[t] \/ fetched[t] = NoTime THEN NoTime
                                       ELSE clock - fetched[t]]
          /\ asked' = [asked EXCEPT ![t] = FALSE]
    /\ evicted' = [evicted EXCEPT ![w] = FALSE]
    /\ Enter(w, "fetch")
    /\ UNCHANGED <<clock, setting, nextCheck, failures, now, promised>>

\* No claim: nothing is due, or every due row is held.
NothingDue(w) ==
    /\ pc[w] = "mail"
    /\ \E held \in SUBSET MayBeHeld :
          /\ \A t \in Task \ held : ~Due(t, now[w])
          /\ PassOver(held, now[w])
    /\ Enter(w, "idle")
    /\ UNCHANGED <<clock, setting, rows, now, job, fetched, asked, gap, promised, evicted>>

\* Mutant: what a concurrent save scheduled is overwritten.
OverwritePersisted(persisted, computed) == computed
NotEarlierThanPersisted(persisted, computed) == Max2(persisted, computed)

\* next_failure_time; count is at least 1.
FailureDelay(interval, count) == Max2(interval, Backoff[Min2(count, Len(Backoff))])

\* Mutant: intervals are counted from the previous schedule.
FromSchedule(w, t, delay) == nextCheck[t] + delay
FromCycle(w, t, delay) == now[w] + delay

\* The closing transaction of perform_check.
FinishCheck(w) ==
    LET t == job[w]
    IN  /\ pc[w] = "fetch" /\ claim[t] = w
        /\ \E failed \in BOOLEAN :
              LET count == failures[t] + 1
                  interval == IntervalFor(setting, t, now[w])
                  delay == IF failed THEN FailureDelay(interval, count) ELSE interval
              IN  /\ failures' = [failures EXCEPT
                            ![t] = IF failed THEN Min2(count, Len(Backoff)) ELSE 0]
                  /\ nextCheck' = [nextCheck EXCEPT
                            ![t] = NotEarlierThanPersisted(@, FromCycle(w, t, delay))]
        /\ claim' = [claim EXCEPT ![t] = NoWorker]
        /\ leaseEnd' = [leaseEnd EXCEPT ![t] = NoTime]
        /\ job' = [job EXCEPT ![w] = NoTask]
        /\ Scheduled(t)
        /\ Enter(w, "idle")
        /\ UNCHANGED <<clock, setting, now, fetched, asked, gap, promised, evicted>>

\* StaleTaskClaim, after which the process is restarted.
DiscardCheck(w) ==
    /\ pc[w] = "fetch" /\ claim[job[w]] # w
    /\ job' = [job EXCEPT ![w] = NoTask]
    /\ Enter(w, "idle")
    /\ UNCHANGED <<clock, setting, rows, now, history>>

\* The process dies; its claims stay in the database.
Crash(w) ==
    /\ pc[w] # "idle"
    /\ job' = [job EXCEPT ![w] = NoTask]
    /\ Enter(w, "idle")
    /\ UNCHANGED <<clock, setting, rows, now, history>>

-----------------------------------------------------------------------------
(* Web requests.  Each locks its row before it tests the status; one that  *)
(* finds another status ends unchanged.                                    *)

RunNow(t) ==
    /\ nextCheck[t] # NoTime
    /\ nextCheck' = [nextCheck EXCEPT ![t] = clock]
    /\ asked' = [asked EXCEPT ![t] = TRUE]
    /\ promised' = [promised EXCEPT ![t] = NoTime]
    /\ Scheduled(t)
    /\ UNCHANGED <<clock, setting, claim, leaseEnd, failures, workers, fetched, gap, evicted>>

\* settings_edit: claims are untouched.
EditSettings(s) ==
    /\ setting' = s
    /\ nextCheck' = [t \in Task |-> IF nextCheck[t] = NoTime THEN NoTime
                                    ELSE clock + IntervalFor(s, t, clock)]
    /\ promised' = [t \in Task |-> IF nextCheck[t] = NoTime THEN NoTime
                                   ELSE clock + IntervalFor(s, t, clock)]
    /\ passed' = [t \in Task |-> 0]
    /\ UNCHANGED <<clock, claim, leaseEnd, failures, workers, fetched, asked, gap,
                   evicted>>

\* History: the workers that check task t have lost its claim.
Evict(t) == evicted' = [w \in Worker |-> evicted[w] \/ job[w] = t]

PauseTask(t) ==
    /\ nextCheck[t] # NoTime
    /\ nextCheck' = [nextCheck EXCEPT ![t] = NoTime]
    /\ claim' = [claim EXCEPT ![t] = NoWorker]
    /\ leaseEnd' = [leaseEnd EXCEPT ![t] = NoTime]
    /\ promised' = [promised EXCEPT ![t] = NoTime]
    /\ Evict(t) /\ Scheduled(t)
    /\ UNCHANGED <<clock, setting, failures, workers, fetched, asked, gap>>

ResumeTask(t) ==
    /\ nextCheck[t] = NoTime
    /\ nextCheck' = [nextCheck EXCEPT ![t] = clock]
    /\ failures' = [failures EXCEPT ![t] = 0]
    /\ claim' = [claim EXCEPT ![t] = NoWorker]
    /\ leaseEnd' = [leaseEnd EXCEPT ![t] = NoTime]
    /\ asked' = [asked EXCEPT ![t] = TRUE]
    /\ Evict(t) /\ Scheduled(t)
    /\ UNCHANGED <<clock, setting, workers, fetched, gap, promised>>

-----------------------------------------------------------------------------
(* The clock moves unless that would take a worker past its time limit.    *)

Limit(stage) == CASE stage = "idle" -> IdleTime [] stage = "mail" -> MailTime
                  [] stage = "fetch" -> FetchTime

Tick ==
    /\ clock < Horizon
    /\ \A w \in Worker : clock - since[w] < Limit(pc[w])
    /\ clock' = clock + 1
    /\ UNCHANGED <<setting, rows, workers, history>>

WorkerStep(w) ==
    StartCycle(w) \/ ClaimTask(w) \/ NothingDue(w) \/ FinishCheck(w) \/ DiscardCheck(w)

WebStep ==
    \/ \E t \in Task : RunNow(t) \/ PauseTask(t) \/ ResumeTask(t)
    \/ \E s \in Setting : EditSettings(s)

Next ==
    \/ \E w \in Worker : WorkerStep(w)
    \/ WebStep
    \/ Tick

\* CrashSpec adds crashes.  NoStarvation counts on a worker whose cycles end and
\* is checked without them.
Spec == Init /\ [][Next]_vars
CrashSpec == Init /\ [][Next \/ \E w \in Worker : Crash(w)]_vars

-----------------------------------------------------------------------------
\* The documentation's floor: no task is fetched again on schedule within
\* Floor of its last fetch.
FloorBetweenFetches == \A t \in Task : gap[t] # NoTime => gap[t] >= Floor

\* What the code keeps of it: the mail work that precedes a fetch is lost from
\* the interval, whatever the settings become and however checks end.
FloorLessMailTime == \A t \in Task : gap[t] # NoTime => gap[t] >= Floor - MailTime

\* The end of a check never brings a task forward of the time that a save of
\* the settings chose during the check.
SavedScheduleKept == \A t \in Task : promised[t] # NoTime => nextCheck[t] >= promised[t]

\* Two workers fetch the same task at the same time only if its user paused or
\* resumed it, and so cleared the claim, since the first began: the lease
\* outlasts a cycle, although it is counted from the cycle's start.
Fetches(w, t) == pc[w] = "fetch" /\ job[w] = t
NoConcurrentFetch ==
    \A v, w \in Worker, t \in Task :
        Fetches(v, t) /\ Fetches(w, t) => v = w \/ evicted[v] \/ evicted[w]

\* A due task waits for the cycle under way, one cycle for each other task and
\* the mail work of its own, and one cycle more for each claim that found its
\* row held: the earliest due is taken first, so that a task asked for again and
\* again cannot starve another one.
CycleTime == IdleTime + MailTime + FetchTime
NoStarvation ==
    \A t \in Task : nextCheck[t] # NoTime /\ claim[t] = NoWorker
        => clock - nextCheck[t] <= (Cardinality(Task) + passed[t]) * CycleTime + MailTime
=============================================================================
