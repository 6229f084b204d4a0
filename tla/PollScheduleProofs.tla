-------------------------- MODULE PollScheduleProofs --------------------------
(***************************************************************************)
(* For any number of tasks and workers, any settings the form accepts and  *)
(* any times: how near two fetches of a task can come, and which save of   *)
(* the schedule counts, with workers that may die; how long a due task can *)
(* wait, as long as one worker stays alive.  The last part is about        *)
(* WakeUp: no wake-up that arrived is slept through.                       *)
(***************************************************************************)
EXTENDS WakeUp, FiniteSetTheorems, TLAPS

-----------------------------------------------------------------------------
(* Intervals.                                                              *)

LEMMA IntervalBounds ==
    \A s \in Setting, t \in Task, at \in Int :
        IntervalFor(s, t, at) \in Nat /\ IntervalFor(s, t, at) >= Floor
BY IntervalsAboveFloor DEF IntervalFor

\* A failure waits at least as long as a success.
LEMMA FailureDelayBounds ==
    ASSUME NEW interval \in Nat, NEW count \in Nat \ {0}
    PROVE  FailureDelay(interval, count) \in Nat /\ FailureDelay(interval, count) >= interval
<1>1. Len(Backoff) \in Nat \ {0}
  BY BackoffTyped
<1>2. Min2(count, Len(Backoff)) \in 1..Len(Backoff)
  BY <1>1 DEF Min2
<1>3. Backoff[Min2(count, Len(Backoff))] \in Nat
  BY <1>2, BackoffTyped
<1>4. QED
  BY <1>3 DEF FailureDelay, Max2

-----------------------------------------------------------------------------
(* The inductive invariant.                                                *)

Types ==
    /\ clock \in Nat
    /\ setting \in Setting
    /\ nextCheck \in [Task -> Int]
    /\ claim \in [Task -> Worker \cup {NoWorker}]
    /\ leaseEnd \in [Task -> Int]
    /\ failures \in [Task -> Nat]
    /\ pc \in [Worker -> {"idle", "mail", "fetch"}]
    /\ now \in [Worker -> Nat]
    /\ since \in [Worker -> Nat]
    /\ job \in [Worker -> Task \cup {NoTask}]
    /\ fetched \in [Task -> Int]
    /\ asked \in [Task -> BOOLEAN]
    /\ gap \in [Task -> Int]
    /\ promised \in [Task -> Int]
    /\ evicted \in [Worker -> BOOLEAN]
    /\ passed \in [Task -> 0..MaxPassed]

\* The clock reading of a cycle is as old as the stages it went through.
StageOK ==
    \A w \in Worker :
        /\ now[w] <= clock /\ since[w] <= clock
        /\ pc[w] = "mail" => since[w] = now[w] /\ clock - since[w] <= MailTime
        /\ pc[w] = "fetch" => /\ job[w] \in Task
                              /\ since[w] <= now[w] + MailTime /\ clock - since[w] <= FetchTime

\* A task fetched before, and not asked for since, is not due before Floor less
\* MailTime: by its schedule, or by its lease while it has one.
DueOK ==
    \A t \in Task :
        /\ fetched[t] <= clock
        /\ claim[t] # NoWorker =>
              leaseEnd[t] # NoTime /\ leaseEnd[t] >= fetched[t] + Lease - MailTime
        /\ claim[t] = NoWorker /\ fetched[t] # NoTime /\ nextCheck[t] # NoTime /\ ~asked[t] =>
              nextCheck[t] >= fetched[t] + Floor - MailTime

\* A worker that has its claim began the last fetch of its task.
CheckOK ==
    \A w \in Worker :
        /\ pc[w] = "fetch" /\ claim[job[w]] = w => fetched[job[w]] <= now[w] + MailTime
        /\ pc[w] = "fetch" /\ ~evicted[w] =>
              claim[job[w]] = w /\ leaseEnd[job[w]] = now[w] + Lease

BoundsOK ==
    \A t \in Task : /\ nextCheck[t] >= NoTime /\ leaseEnd[t] >= NoTime /\ fetched[t] >= NoTime
                    /\ gap[t] >= NoTime /\ promised[t] >= NoTime

FailuresOK == \A t \in Task : failures[t] <= Len(Backoff)

ScheduleInv == /\ Types /\ StageOK /\ DueOK /\ CheckOK /\ BoundsOK /\ FailuresOK
               /\ FloorLessMailTime /\ SavedScheduleKept

LEMMA InitSchedule == Init => ScheduleInv
<1>1. Init => FailuresOK
  BY BackoffTyped DEF Init, FailuresOK
<1>. QED
  BY <1>1, DurationsNat, LeaseOutlastsCycle
     DEF Init, ScheduleInv, Types, StageOK, DueOK, CheckOK, BoundsOK, FloorLessMailTime,
         SavedScheduleKept, NoTime

\* A claim passes a task over at most once; a task with a new schedule counts
\* from zero.
LEMMA PassOverCounts ==
    ASSUME Types, NEW held \in SUBSET MayBeHeld, NEW at, PassOver(held, at)
    PROVE  /\ passed' \in [Task -> 0..MaxPassed]
           /\ \A t \in Task : passed'[t] = IF t \in held /\ Due(t, at) THEN passed[t] + 1
                                           ELSE passed[t]
<1>1. MaxPassed \in Nat
  BY DurationsNat
<1>2. \A t \in Task : passed[t] \in 0..MaxPassed
  BY DEF Types
<1>3. \A t \in held : passed[t] + 1 \in 0..MaxPassed
  BY <1>1, <1>2 DEF MayBeHeld
<1>. QED  BY <1>2, <1>3 DEF PassOver

LEMMA PassedTyped ==
    ASSUME Types, NEW w \in Worker, ClaimTask(w) \/ NothingDue(w)
    PROVE  passed' \in [Task -> 0..MaxPassed] /\ \A t \in Task : passed'[t] >= passed[t]
<1>1. PICK held \in SUBSET MayBeHeld : PassOver(held, now[w])
  <2>1. CASE ClaimTask(w)
    <3>1. PICK all \in SUBSET MayBeHeld, t \in Task :
            PassOver({s \in all : nextCheck[s] < nextCheck[t]}, now[w])
      BY <2>1 DEF ClaimTask
    <3>. QED  BY <3>1
  <2>2. CASE NothingDue(w)
    BY <2>2 DEF NothingDue
  <2>. QED  BY <2>1, <2>2
<1>2. \A t \in Task : passed[t] \in 0..MaxPassed
  BY DEF Types
<1>. QED  BY <1>1, <1>2, PassOverCounts

LEMMA ScheduledTyped ==
    ASSUME Types, NEW t \in Task, Scheduled(t)
    PROVE  passed' \in [Task -> 0..MaxPassed]
<1>1. 0 \in 0..MaxPassed
  BY DurationsNat
<1>. QED  BY <1>1 DEF Types, Scheduled

\* The start of a cycle, an empty one, and the ends that write no row.
LEMMA QuietStep ==
    ASSUME ScheduleInv, NEW w \in Worker,
           StartCycle(w) \/ NothingDue(w) \/ DiscardCheck(w) \/ Crash(w)
    PROVE  ScheduleInv'
<1> USE DurationsNat DEF ScheduleInv
<1>1. UNCHANGED <<clock, setting, rows, fetched, asked, gap, promised, evicted>>
  BY DEF StartCycle, NothingDue, DiscardCheck, Crash, history
<1>passed. passed' \in [Task -> 0..MaxPassed]
  <2>1. NothingDue(w) \/ passed' = passed
    BY DEF StartCycle, DiscardCheck, Crash, history
  <2>. QED  BY <2>1, PassedTyped DEF Types
<1>2. Types'
  BY <1>1, <1>passed DEF Types, StartCycle, NothingDue, DiscardCheck, Crash, Enter, rows
<1>3. StageOK'
  BY <1>1 DEF Types, StageOK, StartCycle, NothingDue, DiscardCheck, Crash, Enter, rows
<1>4. CheckOK'
  BY <1>1 DEF Types, CheckOK, StartCycle, NothingDue, DiscardCheck, Crash, Enter, rows
<1>5. QED
  BY <1>1, <1>2, <1>3, <1>4
     DEF DueOK, BoundsOK, FailuresOK, FloorLessMailTime, SavedScheduleKept, rows

\* A claim: the schedule or the lease of the task has run out.
LEMMA ClaimStep ==
    ASSUME ScheduleInv, NEW w \in Worker, ClaimTask(w)
    PROVE  ScheduleInv'
<1> USE DurationsNat DEF ScheduleInv
<1>1. PICK t \in Task :
        /\ Due(t, now[w])
        /\ claim' = [claim EXCEPT ![t] = w]
        /\ leaseEnd' = [leaseEnd EXCEPT ![t] = now[w] + Lease]
        /\ job' = [job EXCEPT ![w] = t]
        /\ fetched' = [fetched EXCEPT ![t] = clock]
        /\ gap' = [gap EXCEPT ![t] = IF asked[t] \/ fetched[t] = NoTime THEN NoTime
                                     ELSE clock - fetched[t]]
        /\ asked' = [asked EXCEPT ![t] = FALSE]
  BY DEF ClaimTask, EarliestDue
<1>2. /\ pc[w] = "mail" /\ pc' = [pc EXCEPT ![w] = "fetch"]
      /\ since' = [since EXCEPT ![w] = clock]
      /\ evicted' = [evicted EXCEPT ![w] = FALSE]
      /\ UNCHANGED <<clock, setting, nextCheck, failures, now, promised>>
  BY DEF ClaimTask, Enter
<1>3. /\ now[w] <= clock /\ clock <= now[w] + MailTime /\ w # NoWorker
      /\ clock \in Nat /\ now[w] \in Nat
  BY <1>2, NullsFresh DEF StageOK, Types
<1>4. Types'
  BY <1>1, <1>2, <1>3, PassedTyped DEF Types, NoTime
<1>5. StageOK'
  BY <1>1, <1>2, <1>3 DEF StageOK, Types
<1>6. DueOK'
  BY <1>1, <1>2, <1>3 DEF DueOK, Types, NoTime
<1>7. FloorLessMailTime'
  <2>1. ASSUME ~asked[t], fetched[t] # NoTime
        PROVE  clock - fetched[t] >= Floor - MailTime
    <3>1. nextCheck[t] # NoTime /\ nextCheck[t] <= now[w]
      BY <1>1 DEF Due
    <3>2. CASE claim[t] = NoWorker
      BY <1>3, <2>1, <3>1, <3>2 DEF DueOK, Types
    <3>3. CASE claim[t] # NoWorker
      <4>1. leaseEnd[t] <= now[w] /\ leaseEnd[t] >= fetched[t] + Lease - MailTime
        BY <1>1, <3>3 DEF Due, Expired, DueOK
      <4>2. QED
        BY <1>3, <4>1, LeaseOutlastsCycle DEF Types
    <3>4. QED
      BY <3>2, <3>3
  <2>2. QED
    BY <1>1, <2>1 DEF FloorLessMailTime, Types
<1>8. CheckOK'
  <2>1. ASSUME NEW v \in Worker, v # w, pc[v] = "fetch", ~evicted[v] PROVE job[v] # t
    <3>1. /\ clock <= now[v] + MailTime + FetchTime /\ now[v] \in Nat
          /\ leaseEnd[job[v]] = now[v] + Lease
      BY <2>1 DEF StageOK, CheckOK, Types
    <3>2. leaseEnd[job[v]] # NoTime /\ leaseEnd[job[v]] > clock
      BY <1>3, <3>1, LeaseOutlastsCycle DEF NoTime
    <3>3. QED
      BY <1>1, <1>3, <3>1, <3>2 DEF Due, Expired
  <2>2. QED
    BY <1>1, <1>2, <1>3, <2>1 DEF CheckOK, StageOK, Types
<1>9. BoundsOK'
  <2>1. fetched[t] <= clock
    BY DEF DueOK
  <2> SUFFICES ASSUME NEW s \in Task
               PROVE  /\ leaseEnd'[s] >= NoTime /\ fetched'[s] >= NoTime /\ gap'[s] >= NoTime
    BY <1>2 DEF BoundsOK
  <2>2. CASE s # t
    BY <1>1, <2>2 DEF Types, BoundsOK
  <2>3. CASE s = t
    BY <1>1, <1>3, <2>1, <2>3 DEF Types, NoTime
  <2>. QED  BY <2>2, <2>3
<1>10. SavedScheduleKept' /\ FailuresOK'
  BY <1>2 DEF SavedScheduleKept, FailuresOK
<1>11. QED
  BY <1>4, <1>5, <1>6, <1>7, <1>8, <1>9, <1>10

\* The end of a check counts from the reading its cycle began with.
LEMMA FinishStep ==
    ASSUME ScheduleInv, NEW w \in Worker, FinishCheck(w)
    PROVE  ScheduleInv'
<1> USE DurationsNat DEF ScheduleInv
<1> DEFINE t == job[w]
<1>1. /\ pc[w] = "fetch" /\ claim[t] = w /\ t \in Task /\ w # NoWorker
      /\ clock \in Nat /\ now[w] \in Nat /\ fetched[t] <= now[w] + MailTime
  BY NullsFresh DEF FinishCheck, StageOK, CheckOK, Types
<1>2. PICK delay \in Nat, count \in Nat :
        /\ delay >= Floor
        /\ failures' = [failures EXCEPT ![t] = count]
        /\ nextCheck' = [nextCheck EXCEPT ![t] = Max2(nextCheck[t], now[w] + delay)]
  <2>1. PICK failed \in BOOLEAN :
          /\ failures' = [failures EXCEPT
                 ![t] = IF failed THEN Min2(failures[t] + 1, Len(Backoff)) ELSE 0]
          /\ nextCheck' = [nextCheck EXCEPT ![t] = Max2(nextCheck[t], now[w] +
                 (IF failed THEN FailureDelay(IntervalFor(setting, t, now[w]), failures[t] + 1)
                  ELSE IntervalFor(setting, t, now[w])))]
    BY <1>1 DEF FinishCheck, NotEarlierThanPersisted, FromCycle, Types
  <2>2. IntervalFor(setting, t, now[w]) \in Nat /\ IntervalFor(setting, t, now[w]) >= Floor
    BY <1>1, IntervalBounds DEF Types
  <2>3. failures[t] + 1 \in Nat \ {0} /\ Min2(failures[t] + 1, Len(Backoff)) \in Nat
    <3>1. Len(Backoff) \in Nat /\ failures[t] \in Nat
      BY <1>1, BackoffTyped DEF Types
    <3>2. QED
      BY <3>1 DEF Min2
  <2>4. /\ FailureDelay(IntervalFor(setting, t, now[w]), failures[t] + 1) \in Nat
        /\ FailureDelay(IntervalFor(setting, t, now[w]), failures[t] + 1)
              >= IntervalFor(setting, t, now[w])
    BY <2>2, <2>3, FailureDelayBounds
  <2>5. CASE failed
    <3>1. FailureDelay(IntervalFor(setting, t, now[w]), failures[t] + 1) >= Floor
      BY <2>2, <2>4
    <3>2. QED
      BY <2>1, <2>3, <2>4, <2>5, <3>1
  <2>6. CASE ~failed
    BY <2>1, <2>2, <2>6
  <2>7. QED
    BY <2>5, <2>6
<1>3. /\ claim' = [claim EXCEPT ![t] = NoWorker]
      /\ leaseEnd' = [leaseEnd EXCEPT ![t] = NoTime]
      /\ job' = [job EXCEPT ![w] = NoTask]
      /\ pc' = [pc EXCEPT ![w] = "idle"] /\ since' = [since EXCEPT ![w] = clock]
      /\ UNCHANGED <<clock, setting, now, fetched, asked, gap, promised, evicted>>
  BY DEF FinishCheck, Enter
<1>count. FailuresOK'
  <2> DEFINE most == Len(Backoff)
  <2>1. PICK n : /\ failures' = [failures EXCEPT ![t] = n]
                 /\ n = 0 \/ n = Min2(failures[t] + 1, most)
    BY DEF FinishCheck
  <2>2. most \in Nat /\ failures[t] \in Nat
    BY <1>1, BackoffTyped DEF Types
  <2>3. \A s \in Task : failures[s] <= most
    BY DEF FailuresOK
  <2> SUFFICES ASSUME NEW s \in Task PROVE failures'[s] <= most
    BY DEF FailuresOK
  <2> HIDE DEF most
  <2>4. n <= most
    BY <2>1, <2>2 DEF Min2
  <2>. QED  BY <1>1, <2>1, <2>3, <2>4 DEF Types
<1>passed. passed' \in [Task -> 0..MaxPassed]
  <2>1. Scheduled(t)
    BY DEF FinishCheck
  <2>. QED  BY <1>1, <2>1, ScheduledTyped
<1> HIDE DEF t
<1>4. nextCheck'[t] >= now[w] + delay /\ nextCheck'[t] >= nextCheck[t] /\ nextCheck'[t] \in Int
  BY <1>1, <1>2 DEF Types, Max2
<1>5. Types'
  <2>1. nextCheck' \in [Task -> Int]
    BY <1>1, <1>2, <1>4 DEF Types
  <2>2. failures' \in [Task -> Nat]
    BY <1>1, <1>2 DEF Types
  <2>3. claim' \in [Task -> Worker \cup {NoWorker}] /\ leaseEnd' \in [Task -> Int]
    BY <1>1, <1>3 DEF Types, NoTime
  <2>. QED  BY <1>passed, <1>3, <2>1, <2>2, <2>3 DEF Types
<1>6. StageOK'
  BY <1>3 DEF Types, StageOK
<1>7. DueOK'
  BY <1>1, <1>2, <1>3, <1>4 DEF Types, DueOK, NoTime
<1>8. CheckOK'
  <2> SUFFICES ASSUME NEW v \in Worker, pc'[v] = "fetch"
               PROVE  /\ claim'[job'[v]] = v => fetched'[job'[v]] <= now'[v] + MailTime
                      /\ ~evicted'[v] => /\ claim'[job'[v]] = v
                                         /\ leaseEnd'[job'[v]] = now'[v] + Lease
    BY DEF CheckOK
  <2>1. v # w /\ v # NoWorker /\ pc[v] = "fetch" /\ job'[v] = job[v] /\ job[v] \in Task
    BY <1>3, NullsFresh DEF Types, StageOK
  <2>2. CASE job[v] = t
    BY <1>1, <1>3, <2>1, <2>2 DEF CheckOK, Types
  <2>3. CASE job[v] # t
    BY <1>1, <1>3, <2>1, <2>3 DEF CheckOK, Types
  <2>4. QED
    BY <2>2, <2>3
<1>9. BoundsOK'
  <2> SUFFICES ASSUME NEW s \in Task
               PROVE  nextCheck'[s] >= NoTime /\ leaseEnd'[s] >= NoTime
    BY <1>3 DEF BoundsOK
  <2>1. leaseEnd'[s] >= NoTime
    BY <1>1, <1>3 DEF Types, BoundsOK, NoTime
  <2>2. CASE s = t
    <3>1. nextCheck[t] \in Int /\ nextCheck[t] >= NoTime
      BY <1>1 DEF Types, BoundsOK
    <3>2. QED
      BY <1>4, <2>1, <2>2, <3>1 DEF NoTime
  <2>3. CASE s # t
    <3>1. nextCheck'[s] = nextCheck[s]
      BY <1>2, <2>3 DEF Types
    <3>2. QED
      BY <2>1, <3>1 DEF BoundsOK
  <2>4. QED
    BY <2>2, <2>3
<1>10. FloorLessMailTime'
  BY <1>3 DEF FloorLessMailTime
<1>11. SavedScheduleKept'
  BY <1>1, <1>2, <1>3, <1>4 DEF Types, SavedScheduleKept
<1>12. QED
  BY <1>count, <1>5, <1>6, <1>7, <1>8, <1>9, <1>10, <1>11

\* The requests of users.
LEMMA RunNowStep ==
    ASSUME ScheduleInv, NEW t \in Task, RunNow(t)
    PROVE  ScheduleInv'
<1> USE DEF ScheduleInv
<1>0. Types'
  BY ScheduledTyped DEF RunNow, Types, workers, NoTime
<1>1. StageOK' /\ CheckOK'
  BY DEF RunNow, StageOK, CheckOK, workers
<1>2. DueOK'
  BY DEF RunNow, Types, DueOK
<1>3. BoundsOK' /\ FailuresOK'
  BY DEF RunNow, Types, BoundsOK, FailuresOK, NoTime
<1>4. FloorLessMailTime' /\ SavedScheduleKept'
  BY DEF RunNow, Types, FloorLessMailTime, SavedScheduleKept
<1>5. QED
  BY <1>0, <1>1, <1>2, <1>3, <1>4

LEMMA EditStep ==
    ASSUME ScheduleInv, NEW s \in Setting, EditSettings(s)
    PROVE  ScheduleInv'
<1> USE DEF ScheduleInv
<1>1. /\ \A t \in Task : IntervalFor(s, t, clock) \in Nat /\ IntervalFor(s, t, clock) >= Floor
      /\ clock \in Nat
  BY IntervalBounds DEF Types
<1>2. PICK next \in [Task -> Int] :
        /\ nextCheck' = next /\ promised' = next
        /\ \A t \in Task : IF nextCheck[t] = NoTime THEN next[t] = NoTime
                            ELSE next[t] >= clock + Floor /\ next[t] >= clock
  <2>1. nextCheck' \in [Task -> Int] /\ promised' = nextCheck'
    BY <1>1 DEF EditSettings, NoTime
  <2>2. QED
    BY <1>1, <2>1, DurationsNat DEF EditSettings
<1>3. Types' /\ StageOK' /\ CheckOK'
  BY <1>2, DurationsNat DEF EditSettings, Types, StageOK, CheckOK, workers
<1>4. DueOK'
  BY <1>1, <1>2, DurationsNat DEF EditSettings, Types, DueOK
<1>5. BoundsOK' /\ FailuresOK'
  <2>1. UNCHANGED <<leaseEnd, fetched, gap, failures>>
    BY DEF EditSettings
  <2>2. \A t \in Task : nextCheck'[t] >= NoTime /\ promised'[t] >= NoTime
    BY <1>1, <1>2 DEF NoTime
  <2>. QED  BY <2>1, <2>2 DEF BoundsOK, FailuresOK
<1>6. FloorLessMailTime' /\ SavedScheduleKept'
  BY <1>1, <1>2 DEF EditSettings, Types, FloorLessMailTime, SavedScheduleKept
<1>7. QED
  BY <1>3, <1>4, <1>5, <1>6

LEMMA PauseStep ==
    ASSUME ScheduleInv, NEW t \in Task, PauseTask(t) \/ ResumeTask(t)
    PROVE  ScheduleInv'
<1> USE DEF ScheduleInv
<1>1. /\ claim' = [claim EXCEPT ![t] = NoWorker] /\ leaseEnd' = [leaseEnd EXCEPT ![t] = NoTime]
      /\ evicted' = [w \in Worker |-> evicted[w] \/ job[w] = t]
      /\ UNCHANGED <<clock, setting, pc, now, since, job, fetched, gap>>
  BY DEF PauseTask, ResumeTask, Evict, workers
<1>2. \/ /\ nextCheck' = [nextCheck EXCEPT ![t] = NoTime]
         /\ promised' = [promised EXCEPT ![t] = NoTime] /\ asked' = asked /\ failures' = failures
      \/ /\ nextCheck[t] = NoTime /\ nextCheck' = [nextCheck EXCEPT ![t] = clock]
         /\ promised' = promised /\ asked' = [asked EXCEPT ![t] = TRUE]
         /\ failures' = [failures EXCEPT ![t] = 0]
  BY DEF PauseTask, ResumeTask
<1>3. Types'
  <2>1. evicted' \in [Worker -> BOOLEAN]
    BY <1>1 DEF Types
  <2>2. nextCheck' \in [Task -> Int] /\ promised' \in [Task -> Int]
    BY <1>2 DEF Types, NoTime
  <2>3. asked' \in [Task -> BOOLEAN] /\ failures' \in [Task -> Nat]
    <3>1. asked' = asked \/ asked' = [asked EXCEPT ![t] = TRUE]
      BY <1>2
    <3>2. failures' = failures \/ failures' = [failures EXCEPT ![t] = 0]
      BY <1>2
    <3>3. asked' \in [Task -> BOOLEAN]
      BY <3>1 DEF Types
    <3>4. failures' \in [Task -> Nat]
      BY <3>2 DEF Types
    <3>5. QED
      BY <3>3, <3>4
  <2>4. claim' \in [Task -> Worker \cup {NoWorker}] /\ leaseEnd' \in [Task -> Int]
    BY <1>1 DEF Types, NoTime
  <2>5. passed' \in [Task -> 0..MaxPassed]
    BY ScheduledTyped DEF PauseTask, ResumeTask
  <2>6. QED
    BY <1>1, <2>1, <2>2, <2>3, <2>4, <2>5 DEF Types
<1>4. StageOK'
  BY <1>1 DEF StageOK
<1>5. CheckOK'
  <2> SUFFICES ASSUME NEW v \in Worker, pc[v] = "fetch"
               PROVE  /\ claim'[job[v]] = v => fetched[job[v]] <= now[v] + MailTime
                      /\ ~evicted'[v] => claim'[job[v]] = v /\ leaseEnd'[job[v]] = now[v] + Lease
    BY <1>1 DEF CheckOK
  <2>1. v # NoWorker /\ job[v] \in Task
    BY NullsFresh DEF StageOK
  <2>2. QED
    BY <1>1, <2>1 DEF CheckOK, Types
<1>6. DueOK'
  BY <1>1, <1>2 DEF Types, DueOK
<1>7. BoundsOK' /\ FailuresOK'
  <2>1. Len(Backoff) >= 0
    BY BackoffTyped
  <2>2. FailuresOK'
    BY <1>2, <2>1 DEF Types, FailuresOK
  <2>3. BoundsOK'
    BY <1>1, <1>2 DEF Types, BoundsOK, NoTime
  <2>. QED  BY <2>2, <2>3
<1>8. FloorLessMailTime' /\ SavedScheduleKept'
  BY <1>1, <1>2 DEF Types, FloorLessMailTime, SavedScheduleKept, NoTime
<1>9. QED
  BY <1>3, <1>4, <1>5, <1>6, <1>7, <1>8

LEMMA TickStep == ASSUME ScheduleInv, Tick PROVE ScheduleInv'
<1> USE DEF ScheduleInv
<1>1. clock' = clock + 1 /\ clock \in Nat /\ UNCHANGED <<setting, rows, workers, history>>
  BY DEF Tick, Types
<1>2. Types' /\ BoundsOK' /\ FailuresOK' /\ FloorLessMailTime' /\ SavedScheduleKept' /\ CheckOK'
  BY <1>1 DEF Types, BoundsOK, FailuresOK, FloorLessMailTime, SavedScheduleKept, CheckOK,
              rows, workers, history
<1>3. DueOK'
  BY <1>1 DEF Types, DueOK, rows, history
<1>4. StageOK'
  <2>1. \A w \in Worker : clock - since[w] < Limit(pc[w])
    BY DEF Tick
  <2>2. \A w \in Worker : /\ pc[w] = "mail" => Limit(pc[w]) = MailTime
                          /\ pc[w] = "fetch" => Limit(pc[w]) = FetchTime
    BY DEF Limit
  <2>3. QED
    BY <1>1, <2>1, <2>2, DurationsNat DEF Types, StageOK, workers
<1>5. QED
  BY <1>2, <1>3, <1>4

LEMMA ScheduleStep == ScheduleInv /\ [Next \/ \E w \in Worker : Crash(w)]_vars => ScheduleInv'
<1> SUFFICES ASSUME ScheduleInv, [Next \/ \E w \in Worker : Crash(w)]_vars
             PROVE  ScheduleInv'
  OBVIOUS
<1>1. CASE UNCHANGED vars
  BY <1>1 DEF vars, rows, workers, history, ScheduleInv, Types, StageOK, DueOK, CheckOK,
              BoundsOK, FailuresOK, FloorLessMailTime, SavedScheduleKept
<1>. QED
  BY <1>1, QuietStep, ClaimStep, FinishStep, RunNowStep, EditStep, PauseStep, TickStep
     DEF Next, WorkerStep, WebStep

LEMMA ScheduleInvariant == CrashSpec => []ScheduleInv
  BY InitSchedule, ScheduleStep, PTL DEF CrashSpec

-----------------------------------------------------------------------------
\* Clocks, times and counters keep their ranges, from any settings and any table
\* of waiting times, through the deaths of workers.
THEOREM ScheduleTypes == CrashSpec => []TypeOK
<1>1. ScheduleInv => TypeOK
  BY DEF ScheduleInv, Types, BoundsOK, FailuresOK, TypeOK, NoTime
<1>2. QED
  BY <1>1, ScheduleInvariant, PTL

\* No task is fetched again on schedule within the floor of the intervals less
\* the time of the mail work that precedes a fetch, whichever worker fetches it
\* and whatever dies in between: the lease outlasts that time as well.
THEOREM FloorHolds == CrashSpec => []FloorLessMailTime
<1>1. ScheduleInv => FloorLessMailTime
  BY DEF ScheduleInv
<1>2. QED
  BY <1>1, ScheduleInvariant, PTL

\* Without mail work the documented floor holds: that time, which a cycle spends
\* between its clock reading and its fetch, is all that is lost from it.
THEOREM FloorWithoutMail == ASSUME MailTime = 0 PROVE CrashSpec => []FloorBetweenFetches
<1>1. FloorLessMailTime => FloorBetweenFetches
  <2>1. Floor \in Nat
    BY DurationsNat
  <2>. QED  BY <2>1 DEF FloorLessMailTime, FloorBetweenFetches
<1>. QED  BY <1>1, FloorHolds, PTL

\* The end of a check takes the later of what it computed and what a save of
\* the settings had chosen in the meantime.
THEOREM SaveWins == CrashSpec => []SavedScheduleKept
<1>1. ScheduleInv => SavedScheduleKept
  BY DEF ScheduleInv
<1>2. QED
  BY <1>1, ScheduleInvariant, PTL

\* Two workers fetch a task at the same time only if its user cleared the claim
\* of one of them: a lease counted from the start of the cycle outlasts it.
THEOREM OneFetch == CrashSpec => []NoConcurrentFetch
<1>1. ScheduleInv => NoConcurrentFetch
  BY DEF ScheduleInv, CheckOK, NoConcurrentFetch, Fetches
<1>2. QED
  BY <1>1, ScheduleInvariant, PTL
-----------------------------------------------------------------------------
(* How long a task waits.                                                  *)

\* The time that the checks of the tasks of S take one after the other.
Debt(S) == Cardinality(S) * CycleTime

LEMMA CycleNat == CycleTime \in Nat /\ CycleTime = IdleTime + MailTime + FetchTime
  BY DurationsNat DEF CycleTime

LEMMA DebtMono ==
    ASSUME NEW T \in SUBSET Task, NEW S \in SUBSET T
    PROVE  Debt(S) \in Nat /\ Debt(S) <= Debt(T)
<1>1. IsFiniteSet(T) /\ IsFiniteSet(S)
  BY TasksFinite, FS_Subset
<1>2. Cardinality(S) \in Nat /\ Cardinality(T) \in Nat /\ Cardinality(S) <= Cardinality(T)
  BY <1>1, FS_CardinalityType, FS_Subset
<1>3. \A k, m, c \in Nat : k <= m => k * c \in Nat /\ k * c <= m * c
  OBVIOUS
<1>. QED  BY <1>2, <1>3, CycleNat DEF Debt

LEMMA DebtRemove ==
    ASSUME NEW S \in SUBSET Task, NEW s \in S
    PROVE  Debt(S) = Debt(S \ {s}) + CycleTime
<1>1. IsFiniteSet(S)
  BY TasksFinite, FS_Subset
<1>2. Cardinality(S \ {s}) \in Nat /\ Cardinality(S) = Cardinality(S \ {s}) + 1
  <2>1. Cardinality(S \ {s}) = Cardinality(S) - 1 /\ IsFiniteSet(S \ {s})
    BY <1>1, FS_RemoveElement
  <2>2. Cardinality(S) \in Nat /\ Cardinality(S \ {s}) \in Nat
    BY <1>1, <2>1, FS_CardinalityType
  <2>. QED  BY <2>1, <2>2
<1>3. \A k, c \in Nat : (k + 1) * c = k * c + c
  OBVIOUS
<1>. QED  BY <1>2, <1>3, CycleNat DEF Debt

\* The tasks that may be taken before task t, which waits.
Ahead(t) == {s \in Task \ {t} : nextCheck[s] # NoTime /\ nextCheck[s] <= nextCheck[t]}
Waits(t) == nextCheck[t] # NoTime /\ claim[t] = NoWorker

\* Task t may wait for all tasks, and one cycle more for each claim that found its
\* row held.
Bound(t) == (Cardinality(Task) + passed[t]) * CycleTime

\* What the cycle that worker w is in, and its next ones, leave of the bound.  A
\* cycle that began before t fell due may take any task; a later one takes t or
\* a task ahead of it, which is then scheduled behind t.
QueueOK(w, t) ==
    /\ pc[w] = "idle" =>
          since[w] + IdleTime + Debt(Ahead(t)) <= nextCheck[t] + Bound(t)
    /\ pc[w] = "mail" /\ now[w] > nextCheck[t] =>
          now[w] + Debt(Ahead(t)) <= nextCheck[t] + Bound(t)
    /\ pc[w] = "fetch" /\ now[w] > nextCheck[t] =>
          since[w] + Debt(Ahead(t) \ {job[w]}) + CycleTime
             <= nextCheck[t] + Bound(t) + MailTime

\* Free tasks have no lease and claimed ones a schedule; a worker is idle for a
\* limited time; a task taken from its worker is not due before its cycle began.
RowsOK ==
    \A t \in Task : /\ claim[t] = NoWorker => leaseEnd[t] = NoTime
                    /\ claim[t] # NoWorker => nextCheck[t] # NoTime

IdleOK == \A w \in Worker : pc[w] = "idle" => clock - since[w] <= IdleTime

EvictedOK ==
    \A w \in Worker : pc[w] = "fetch" /\ evicted[w] =>
        nextCheck[job[w]] = NoTime \/ nextCheck[job[w]] >= now[w]

QueueInv == ScheduleInv /\ RowsOK /\ IdleOK /\ EvictedOK

LEMMA BoundIs ==
    ASSUME Types, NEW t \in Task
    PROVE  Bound(t) \in Nat /\ Bound(t) >= Debt(Task)
<1>1. Cardinality(Task) \in Nat /\ passed[t] \in Nat
  BY TasksFinite, FS_CardinalityType DEF Types
<1>2. \A k, m, c \in Nat : (k + m) * c \in Nat /\ (k + m) * c >= k * c
  OBVIOUS
<1>. QED  BY <1>1, <1>2, CycleNat DEF Bound, Debt

\* A task's bound does not shrink while it keeps its schedule, and grows by a
\* cycle when a claim passes it over.
LEMMA BoundGrows ==
    ASSUME Types, Types', NEW t \in Task, passed'[t] >= passed[t]
    PROVE  /\ Bound(t)' >= Bound(t)
           /\ passed'[t] = passed[t] + 1 => Bound(t)' = Bound(t) + CycleTime
<1> DEFINE all == Cardinality(Task)
<1>1. all \in Nat /\ passed[t] \in Nat /\ passed'[t] \in Nat
  BY TasksFinite, FS_CardinalityType DEF Types
<1>2. \A k, m, n, c \in Nat : n >= m => (k + n) * c >= (k + m) * c
  <2> TAKE k, m, n, c \in Nat
  <2> HAVE n >= m
  <2>1. PICK d \in Nat : n = m + d
    <3>1. n - m \in Nat /\ n = m + (n - m)
      OBVIOUS
    <3>. QED  BY <3>1
  <2>2. (k + n) * c = (k + m) * c + d * c /\ d * c \in Nat /\ (k + m) * c \in Nat
    BY <2>1
  <2>. QED  BY <2>2
<1>3. \A k, m, c \in Nat : (k + (m + 1)) * c = (k + m) * c + c
  OBVIOUS
<1>4. Bound(t) = (all + passed[t]) * CycleTime /\ Bound(t)' = (all + passed'[t]) * CycleTime
  BY DEF Bound, CycleTime
<1> HIDE DEF all
<1>. QED  BY <1>1, <1>2, <1>3, <1>4, CycleNat

\* A task that fell due within one cycle has all its time left.
Recent(t) == clock <= nextCheck[t] + MailTime + FetchTime
RecentWaitsInTime == \A w \in Worker, t \in Task : Waits(t) /\ Recent(t) => QueueOK(w, t)

\* The end of a check moves its task, and no other, to a later time, and not
\* before the start of its cycle.
LEMMA FinishRaises ==
    ASSUME ScheduleInv, NEW w \in Worker, FinishCheck(w)
    PROVE  /\ job[w] \in Task
           /\ \A s \in Task \ {job[w]} : nextCheck'[s] = nextCheck[s]
           /\ nextCheck'[job[w]] \in Int
           /\ nextCheck'[job[w]] >= nextCheck[job[w]] /\ nextCheck'[job[w]] >= now[w]
<1>1. /\ job[w] \in Task /\ nextCheck \in [Task -> Int] /\ now[w] \in Nat /\ setting \in Setting
      /\ failures[job[w]] \in Nat
  BY DEF FinishCheck, ScheduleInv, StageOK, Types
<1>2. PICK delay :
        /\ nextCheck' = [nextCheck EXCEPT ![job[w]] = Max2(nextCheck[job[w]], now[w] + delay)]
        /\ \/ delay = IntervalFor(setting, job[w], now[w])
           \/ delay = FailureDelay(IntervalFor(setting, job[w], now[w]), failures[job[w]] + 1)
  BY <1>1 DEF FinishCheck, NotEarlierThanPersisted, FromCycle
<1>3. IntervalFor(setting, job[w], now[w]) \in Nat
  BY <1>1, IntervalBounds
<1>4. failures[job[w]] + 1 \in Nat \ {0}
  BY <1>1
<1>5. delay \in Nat
  BY <1>2, <1>3, <1>4, FailureDelayBounds
<1>. QED  BY <1>1, <1>2, <1>5 DEF Max2

LEMMA RecentIsInTime == QueueInv => RecentWaitsInTime
<1> SUFFICES ASSUME QueueInv, NEW w \in Worker, NEW t \in Task, Waits(t), Recent(t)
             PROVE  QueueOK(w, t)
  BY DEF RecentWaitsInTime
<1>1. /\ clock \in Nat /\ since[w] \in Nat /\ now[w] \in Nat /\ nextCheck[t] \in Int
      /\ since[w] <= clock /\ now[w] <= clock
      /\ clock <= nextCheck[t] + MailTime + FetchTime
  BY DEF QueueInv, ScheduleInv, Types, StageOK, Recent
<1>2. Debt(Task) = Debt(Task \ {t}) + CycleTime /\ Debt(Task \ {t}) \in Nat
  BY DebtRemove, DebtMono
<1>3. Debt(Ahead(t)) \in Nat /\ Debt(Ahead(t)) <= Debt(Task \ {t})
  <2>1. Ahead(t) \in SUBSET (Task \ {t})
    BY DEF Ahead
  <2>. QED  BY <2>1, DebtMono
<1>4. ASSUME pc[w] = "fetch", now[w] > nextCheck[t]
      PROVE  /\ Debt(Ahead(t) \ {job[w]}) \in Nat
             /\ Debt(Ahead(t) \ {job[w]}) + CycleTime <= Debt(Task \ {t})
  <2>1. job[w] \in Task /\ w # NoWorker
    BY <1>4, NullsFresh DEF QueueInv, ScheduleInv, StageOK
  <2>2. job[w] # t
    <3>1. ASSUME job[w] = t PROVE FALSE
      <4>1. claim[job[w]] # w /\ nextCheck[job[w]] # NoTime
        BY <2>1, <3>1 DEF Waits
      <4>2. evicted[w]
        BY <1>4, <4>1 DEF QueueInv, ScheduleInv, CheckOK
      <4>3. nextCheck[t] >= now[w]
        BY <1>4, <3>1, <4>1, <4>2 DEF QueueInv, EvictedOK
      <4>. QED  BY <1>1, <1>4, <4>3
    <3>. QED  BY <3>1
  <2>3. Debt(Task \ {t}) = Debt((Task \ {t}) \ {job[w]}) + CycleTime
    BY <2>1, <2>2, DebtRemove
  <2>4. Ahead(t) \ {job[w]} \in SUBSET ((Task \ {t}) \ {job[w]})
    BY DEF Ahead
  <2>5. /\ Debt(Ahead(t) \ {job[w]}) \in Nat /\ Debt((Task \ {t}) \ {job[w]}) \in Nat
        /\ Debt(Ahead(t) \ {job[w]}) <= Debt((Task \ {t}) \ {job[w]})
    BY <2>4, DebtMono
  <2>. QED  BY <2>3, <2>5, CycleNat
<1>bound. Bound(t) \in Nat /\ Bound(t) >= Debt(Task)
  BY BoundIs DEF QueueInv, ScheduleInv
<1>5. CASE pc[w] = "idle"
  BY <1>bound, <1>1, <1>2, <1>3, <1>5, CycleNat, DurationsNat DEF QueueOK
<1>6. CASE pc[w] = "mail"
  BY <1>bound, <1>1, <1>2, <1>3, <1>6, CycleNat, DurationsNat DEF QueueOK
<1>7. CASE pc[w] = "fetch"
  BY <1>bound, <1>1, <1>2, <1>4, <1>7, CycleNat, DurationsNat DEF QueueOK
<1>. QED  BY <1>5, <1>6, <1>7 DEF QueueOK

\* The rows and the workers' memory that the wait depends on, through any step.
LEMMA QueueInvStep == QueueInv /\ [Next \/ \E w \in Worker : Crash(w)]_vars => QueueInv'
<1> SUFFICES ASSUME QueueInv, [Next \/ \E w \in Worker : Crash(w)]_vars,
                    ScheduleInv, ScheduleInv'
             PROVE  RowsOK' /\ IdleOK' /\ EvictedOK'
  BY ScheduleStep DEF QueueInv
<1> USE DEF QueueInv
<1>1. /\ clock \in Nat /\ nextCheck \in [Task -> Int] /\ leaseEnd \in [Task -> Int]
      /\ claim \in [Task -> Worker \cup {NoWorker}]
      /\ pc \in [Worker -> {"idle", "mail", "fetch"}]
      /\ now \in [Worker -> Nat] /\ since \in [Worker -> Nat]
      /\ job \in [Worker -> Task \cup {NoTask}] /\ evicted \in [Worker -> BOOLEAN]
      /\ \A w \in Worker : now[w] <= clock /\ w # NoWorker
  BY NullsFresh DEF ScheduleInv, Types, StageOK
<1>2. ASSUME NEW w \in Worker, StartCycle(w) \/ NothingDue(w) \/ DiscardCheck(w) \/ Crash(w)
      PROVE  RowsOK' /\ IdleOK' /\ EvictedOK'
  <2>1. UNCHANGED <<clock, rows, evicted>>
    BY <1>2 DEF StartCycle, NothingDue, DiscardCheck, Crash, history
  <2>2. /\ pc'[w] # "fetch"
        /\ \A v \in Worker \ {w} : UNCHANGED <<pc[v], now[v], since[v], job[v]>>
        /\ pc'[w] = "idle" => since'[w] = clock
    BY <1>1, <1>2 DEF StartCycle, NothingDue, DiscardCheck, Crash, Enter
  <2>3. RowsOK'
    BY <2>1 DEF RowsOK, rows
  <2>4. IdleOK'
    BY <1>1, <2>1, <2>2, DurationsNat DEF IdleOK
  <2>5. EvictedOK'
    BY <2>1, <2>2 DEF EvictedOK, rows
  <2>. QED  BY <2>3, <2>4, <2>5
<1>3. ASSUME NEW w \in Worker, ClaimTask(w) PROVE RowsOK' /\ IdleOK' /\ EvictedOK'
  <2>1. PICK t \in Task : /\ Due(t, now[w])
                          /\ claim' = [claim EXCEPT ![t] = w]
                          /\ leaseEnd' = [leaseEnd EXCEPT ![t] = now[w] + Lease]
                          /\ job' = [job EXCEPT ![w] = t]
    BY <1>3 DEF ClaimTask, EarliestDue
  <2>2. /\ pc' = [pc EXCEPT ![w] = "fetch"] /\ since' = [since EXCEPT ![w] = clock]
        /\ evicted' = [evicted EXCEPT ![w] = FALSE] /\ UNCHANGED <<clock, nextCheck, now>>
    BY <1>3 DEF ClaimTask, Enter
  <2>3. RowsOK'
    BY <1>1, <2>1, <2>2 DEF RowsOK, Due
  <2>4. IdleOK'
    BY <1>1, <2>2 DEF IdleOK
  <2>5. EvictedOK'
    BY <1>1, <2>1, <2>2 DEF EvictedOK
  <2>. QED  BY <2>3, <2>4, <2>5
<1>4. ASSUME NEW w \in Worker, FinishCheck(w) PROVE RowsOK' /\ IdleOK' /\ EvictedOK'
  <2>1. /\ claim[job[w]] = w /\ claim' = [claim EXCEPT ![job[w]] = NoWorker]
        /\ leaseEnd' = [leaseEnd EXCEPT ![job[w]] = NoTime]
        /\ pc[w] = "fetch" /\ pc' = [pc EXCEPT ![w] = "idle"]
        /\ since' = [since EXCEPT ![w] = clock] /\ job' = [job EXCEPT ![w] = NoTask]
        /\ UNCHANGED <<clock, now, evicted>>
    BY <1>4 DEF FinishCheck, Enter
  <2>2. job[w] \in Task
    BY <2>1 DEF ScheduleInv, StageOK
  <2>3. /\ \A s \in Task \ {job[w]} : nextCheck'[s] = nextCheck[s]
        /\ nextCheck'[job[w]] >= nextCheck[job[w]] /\ nextCheck'[job[w]] \in Int
        /\ nextCheck[job[w]] # NoTime
    BY <1>1, <1>4, <2>1, <2>2, FinishRaises DEF RowsOK
  <2>4. RowsOK'
    BY <1>1, <2>1, <2>2, <2>3 DEF RowsOK
  <2>5. IdleOK'
    BY <1>1, <2>1, DurationsNat DEF IdleOK
  <2>6. EvictedOK'
    <3> SUFFICES ASSUME NEW v \in Worker \ {w}, pc[v] = "fetch", evicted[v]
                 PROVE  nextCheck'[job[v]] = NoTime \/ nextCheck'[job[v]] >= now[v]
      BY <1>1, <2>1 DEF EvictedOK
    <3>1. nextCheck[job[v]] = NoTime \/ nextCheck[job[v]] >= now[v]
      BY DEF EvictedOK
    <3>2. job[v] \in Task
      BY DEF ScheduleInv, StageOK
    <3>. QED  BY <1>1, <2>2, <2>3, <3>1, <3>2
  <2>. QED  BY <2>4, <2>5, <2>6
<1>5. ASSUME NEW t \in Task, RunNow(t) PROVE RowsOK' /\ IdleOK' /\ EvictedOK'
  <2>1. /\ nextCheck' = [nextCheck EXCEPT ![t] = clock]
        /\ UNCHANGED <<clock, claim, leaseEnd, pc, now, since, job, evicted>>
    BY <1>5 DEF RunNow, workers
  <2>2. RowsOK' /\ IdleOK'
    BY <1>1, <2>1 DEF RowsOK, IdleOK, NoTime
  <2>3. EvictedOK'
    BY <1>1, <2>1 DEF EvictedOK
  <2>. QED  BY <2>2, <2>3
<1>6. ASSUME NEW s \in Setting, EditSettings(s) PROVE RowsOK' /\ IdleOK' /\ EvictedOK'
  <2>1. /\ \A t \in Task : IF nextCheck[t] = NoTime THEN nextCheck'[t] = NoTime
                           ELSE nextCheck'[t] >= clock /\ nextCheck'[t] \in Int
        /\ UNCHANGED <<clock, claim, leaseEnd, pc, now, since, job, evicted>>
    BY <1>1, <1>6, IntervalBounds DEF EditSettings, workers
  <2>2. RowsOK' /\ IdleOK'
    BY <1>1, <2>1 DEF RowsOK, IdleOK, NoTime
  <2>3. EvictedOK'
    <3>1. \A w \in Worker : pc[w] = "fetch" => job[w] \in Task
      BY DEF ScheduleInv, StageOK
    <3>. QED  BY <1>1, <2>1, <3>1 DEF EvictedOK
  <2>. QED  BY <2>2, <2>3
<1>7. ASSUME NEW t \in Task, PauseTask(t) \/ ResumeTask(t)
      PROVE  RowsOK' /\ IdleOK' /\ EvictedOK'
  <2>1. /\ nextCheck' = [nextCheck EXCEPT ![t] = NoTime] \/ nextCheck' = [nextCheck EXCEPT ![t] = clock]
        /\ claim' = [claim EXCEPT ![t] = NoWorker] /\ leaseEnd' = [leaseEnd EXCEPT ![t] = NoTime]
        /\ evicted' = [w \in Worker |-> evicted[w] \/ job[w] = t]
        /\ UNCHANGED <<clock, pc, now, since, job>>
    BY <1>7 DEF PauseTask, ResumeTask, Evict, workers
  <2>2. RowsOK' /\ IdleOK'
    BY <1>1, <2>1 DEF RowsOK, IdleOK
  <2>3. EvictedOK'
    <3> SUFFICES ASSUME NEW v \in Worker, pc[v] = "fetch", evicted'[v]
                 PROVE  nextCheck'[job[v]] = NoTime \/ nextCheck'[job[v]] >= now[v]
      BY <2>1 DEF EvictedOK
    <3>1. job[v] \in Task
      BY DEF ScheduleInv, StageOK
    <3>2. CASE job[v] = t
      BY <1>1, <2>1, <3>1, <3>2
    <3>3. CASE job[v] # t
      <4>1. evicted[v] /\ nextCheck'[job[v]] = nextCheck[job[v]]
        BY <1>1, <2>1, <3>1, <3>3
      <4>. QED  BY <4>1 DEF EvictedOK
    <3>. QED  BY <3>2, <3>3
  <2>. QED  BY <2>2, <2>3
<1>8. CASE Tick
  <2>1. clock' = clock + 1 /\ UNCHANGED <<rows, workers, evicted>>
    BY <1>8 DEF Tick, history
  <2>2. \A w \in Worker : pc[w] = "idle" => clock - since[w] < IdleTime
    BY <1>8 DEF Tick, Limit
  <2>3. RowsOK' /\ EvictedOK'
    BY <2>1 DEF RowsOK, EvictedOK, rows, workers
  <2>4. IdleOK'
    BY <1>1, <2>1, <2>2, DurationsNat DEF IdleOK, workers
  <2>. QED  BY <2>3, <2>4
<1>9. CASE UNCHANGED vars
  BY <1>9 DEF vars, rows, workers, history, RowsOK, IdleOK, EvictedOK
<1>. QED
  BY <1>2, <1>3, <1>4, <1>5, <1>6, <1>7, <1>8, <1>9 DEF Next, WorkerStep, WebStep

\* A waiting task stays where it is, and no task comes ahead of it.
Place(t) ==
    Waits(t) /\ nextCheck'[t] = nextCheck[t] /\ passed'[t] >= passed[t] /\ Ahead(t)' \subseteq Ahead(t)

LEMMA PlaceStep ==
    ASSUME QueueInv, QueueInv', [Next \/ \E w \in Worker : Crash(w)]_vars, NEW t \in Task,
           Waits(t)', ~Recent(t)'
    PROVE  Place(t)
<1> USE DEF QueueInv
<1>1. /\ clock \in Nat /\ nextCheck \in [Task -> Int] /\ nextCheck' \in [Task -> Int]
      /\ claim \in [Task -> Worker \cup {NoWorker}]
      /\ \A w \in Worker : now[w] \in Nat /\ w # NoWorker
      /\ clock' \in Nat /\ clock' > nextCheck'[t] + MailTime + FetchTime
      /\ nextCheck'[t] # NoTime /\ claim'[t] = NoWorker /\ MailTime \in Nat /\ FetchTime \in Nat
  BY NullsFresh, DurationsNat DEF ScheduleInv, Types, Waits, Recent
<1>pass. passed \in [Task -> 0..MaxPassed] /\ \A n \in 0..MaxPassed : n >= n
  BY DurationsNat DEF ScheduleInv, Types
<1>2. ASSUME nextCheck' = nextCheck, claim[t] = NoWorker, passed'[t] >= passed[t] PROVE Place(t)
  BY <1>1, <1>2 DEF Place, Waits, Ahead
<1>3. ASSUME NEW w \in Worker, StartCycle(w) \/ NothingDue(w) \/ DiscardCheck(w) \/ Crash(w)
      PROVE  Place(t)
  <2>1. nextCheck' = nextCheck /\ claim' = claim
    BY <1>3 DEF StartCycle, NothingDue, DiscardCheck, Crash, rows
  <2>2. NothingDue(w) \/ passed' = passed
    BY <1>3 DEF StartCycle, DiscardCheck, Crash, history
  <2>3. passed'[t] >= passed[t]
    BY <1>pass, <2>2, PassedTyped DEF ScheduleInv
  <2>. QED  BY <1>1, <1>2, <2>1, <2>3
<1>4. ASSUME NEW w \in Worker, ClaimTask(w) PROVE Place(t)
  <2>1. PICK s \in Task : claim' = [claim EXCEPT ![s] = w]
    BY <1>4 DEF ClaimTask
  <2>2. claim[t] = NoWorker
    BY <1>1, <2>1
  <2>3. nextCheck' = nextCheck
    BY <1>4 DEF ClaimTask
  <2>4. passed'[t] >= passed[t]
    BY <1>4, PassedTyped DEF ScheduleInv
  <2>. QED  BY <1>2, <2>2, <2>3, <2>4
<1>5. ASSUME NEW w \in Worker, FinishCheck(w) PROVE Place(t)
  <2>1. /\ job[w] \in Task /\ \A s \in Task \ {job[w]} : nextCheck'[s] = nextCheck[s]
        /\ nextCheck'[job[w]] >= nextCheck[job[w]] /\ nextCheck'[job[w]] >= now[w]
    BY <1>5, FinishRaises
  <2>2. /\ pc[w] = "fetch" /\ claim[job[w]] = w /\ claim' = [claim EXCEPT ![job[w]] = NoWorker]
        /\ clock' = clock /\ passed' = [passed EXCEPT ![job[w]] = 0]
    BY <1>5 DEF FinishCheck, Scheduled
  <2>3. clock <= now[w] + MailTime + FetchTime
    BY <1>1, <2>2, DurationsNat DEF ScheduleInv, StageOK, Types
  <2>4. t # job[w]
    BY <1>1, <2>1, <2>2, <2>3
  <2>5. nextCheck'[t] = nextCheck[t] /\ claim[t] = NoWorker
    BY <1>1, <2>1, <2>2, <2>4
  <2>6. nextCheck[job[w]] # NoTime
    BY <1>1, <2>1, <2>2 DEF RowsOK
  <2>7. Ahead(t)' \subseteq Ahead(t)
    <3> SUFFICES ASSUME NEW s \in Task \ {t}, nextCheck'[s] # NoTime, nextCheck'[s] <= nextCheck'[t]
                 PROVE  nextCheck[s] # NoTime /\ nextCheck[s] <= nextCheck[t]
      BY DEF Ahead
    <3>1. nextCheck[s] \in Int /\ nextCheck[t] \in Int /\ nextCheck'[s] \in Int
      BY <1>1
    <3>2. CASE s = job[w]
      BY <2>1, <2>5, <2>6, <3>1, <3>2
    <3>3. CASE s # job[w]
      BY <2>1, <2>5, <3>3
    <3>. QED  BY <3>2, <3>3
  <2>8. passed'[t] >= passed[t]
    BY <1>pass, <2>2, <2>4
  <2>. QED  BY <1>1, <2>5, <2>7, <2>8 DEF Place, Waits
<1>6. ASSUME NEW r \in Task, RunNow(r) \/ PauseTask(r) \/ ResumeTask(r) PROVE Place(t)
  <2>1. /\ \/ nextCheck' = [nextCheck EXCEPT ![r] = clock]
           \/ nextCheck' = [nextCheck EXCEPT ![r] = NoTime]
        /\ claim' = claim \/ claim' = [claim EXCEPT ![r] = NoWorker]
        /\ clock' = clock /\ passed' = [passed EXCEPT ![r] = 0]
    BY <1>6 DEF RunNow, PauseTask, ResumeTask, Scheduled
  <2>2. r # t
    BY <1>1, <2>1
  <2>3. nextCheck'[t] = nextCheck[t] /\ claim[t] = NoWorker
    BY <1>1, <2>1, <2>2
  <2>4. Ahead(t)' \subseteq Ahead(t)
    <3> SUFFICES ASSUME NEW s \in Task \ {t}, nextCheck'[s] # NoTime, nextCheck'[s] <= nextCheck'[t]
                 PROVE  nextCheck'[s] = nextCheck[s]
      BY <2>3 DEF Ahead
    <3>1. s # r
      BY <1>1, <2>1
    <3>. QED  BY <1>1, <2>1, <3>1
  <2>5. passed'[t] >= passed[t]
    BY <1>pass, <2>1, <2>2
  <2>. QED  BY <1>1, <2>3, <2>4, <2>5 DEF Place, Waits
<1>7. ASSUME NEW s \in Setting, EditSettings(s) PROVE Place(t)
  <2>1. nextCheck'[t] >= clock /\ clock' = clock
    BY <1>1, <1>7, IntervalBounds DEF EditSettings
  <2>. QED  BY <1>1, <2>1
<1>8. CASE Tick
  BY <1>pass, <1>1, <1>2, <1>8 DEF Tick, rows, history
<1>9. CASE UNCHANGED vars
  BY <1>pass, <1>1, <1>2, <1>9 DEF vars, rows, history
<1>. QED
  BY <1>3, <1>4, <1>5, <1>6, <1>7, <1>8, <1>9 DEF Next, WorkerStep, WebStep

\* Every process but worker w may die.
Steady(w) == Next \/ \E v \in Worker \ {w} : Crash(v)

LEMMA OwnSteps ==
    ASSUME Types, NEW w \in Worker, [Steady(w)]_vars, ~WorkerStep(w)
    PROVE  UNCHANGED <<pc[w], now[w], since[w], job[w]>>
<1>1. ASSUME NEW v \in Worker \ {w}, WorkerStep(v) \/ Crash(v)
      PROVE  UNCHANGED <<pc[w], now[w], since[w], job[w]>>
  <2>1. /\ \E stage : pc' = [pc EXCEPT ![v] = stage]
        /\ since' = [since EXCEPT ![v] = clock]
    BY <1>1 DEF WorkerStep, StartCycle, ClaimTask, NothingDue, FinishCheck, DiscardCheck, Crash, Enter
  <2>2. /\ now' = now \/ now' = [now EXCEPT ![v] = clock]
        /\ job' = job \/ \E t : job' = [job EXCEPT ![v] = t]
    BY <1>1 DEF WorkerStep, StartCycle, ClaimTask, NothingDue, FinishCheck, DiscardCheck, Crash
  <2>. QED  BY <2>1, <2>2 DEF Types
<1>2. CASE WebStep \/ Tick \/ UNCHANGED vars
  BY <1>2 DEF WebStep, RunNow, PauseTask, ResumeTask, EditSettings, Tick, vars, workers
<1>. QED  BY <1>1, <1>2 DEF Steady, Next

\* One step of the system brings worker w no further from any waiting task.
LEMMA QueueStep ==
    ASSUME QueueInv, QueueInv', RecentWaitsInTime', NEW w \in Worker, [Steady(w)]_vars,
           \A t \in Task : Waits(t) => QueueOK(w, t),
           NEW t \in Task, Waits(t)'
    PROVE  QueueOK(w, t)'
<1>0. CASE Recent(t)'
  BY <1>0 DEF RecentWaitsInTime
<1> SUFFICES ASSUME ~Recent(t)' PROVE QueueOK(w, t)'
  BY <1>0
<1>1. Place(t)
  BY PlaceStep DEF Steady
<1>2. QueueOK(w, t) /\ nextCheck'[t] = nextCheck[t] /\ nextCheck[t] # NoTime /\ claim[t] = NoWorker
  BY <1>1 DEF Place, Waits
<1>3. /\ clock \in Nat /\ now[w] \in Nat /\ since[w] \in Nat /\ nextCheck[t] \in Int
      /\ pc \in [Worker -> {"idle", "mail", "fetch"}] /\ pc[w] \in {"idle", "mail", "fetch"}
      /\ now \in [Worker -> Nat] /\ since \in [Worker -> Nat]
      /\ job \in [Worker -> Task \cup {NoTask}]
      /\ pc[w] = "mail" => clock <= now[w] + MailTime
      /\ pc[w] = "fetch" => /\ job[w] \in Task /\ clock <= since[w] + FetchTime
                            /\ clock <= now[w] + MailTime + FetchTime
      /\ pc[w] = "idle" => clock <= since[w] + IdleTime
  BY DurationsNat DEF QueueInv, ScheduleInv, Types, StageOK, IdleOK
<1>4. clock' > nextCheck[t] + MailTime + FetchTime /\ clock' \in Nat /\ nextCheck'[t] \in Int
  <2>1. clock' \in Nat /\ nextCheck'[t] \in Int
    BY DEF QueueInv, ScheduleInv, Types
  <2>. QED  BY <1>2, <2>1, DurationsNat DEF Recent
<1>5. /\ Debt(Ahead(t)) \in Nat /\ Debt(Ahead(t)') \in Nat /\ Debt(Ahead(t)') <= Debt(Ahead(t))
      /\ Bound(t) \in Nat /\ Bound(t)' \in Nat /\ Bound(t)' >= Bound(t)
      /\ passed'[t] = passed[t] + 1 => Bound(t)' = Bound(t) + CycleTime
      /\ \A s : /\ Debt(Ahead(t) \ {s}) \in Nat
                /\ Debt(Ahead(t)' \ {s}) \in Nat
                /\ Debt(Ahead(t)' \ {s}) <= Debt(Ahead(t) \ {s})
                /\ s \in Ahead(t) => Debt(Ahead(t)) = Debt(Ahead(t) \ {s}) + CycleTime
                /\ s \notin Ahead(t)' => Debt(Ahead(t)') <= Debt(Ahead(t) \ {s})
  <2>1. Ahead(t) \in SUBSET Task /\ Ahead(t)' \in SUBSET Ahead(t)
    BY <1>1 DEF Place, Ahead
  <2>2. \A T \in SUBSET Task : \A S \in SUBSET T : Debt(S) \in Nat /\ Debt(S) <= Debt(T)
    BY DebtMono
  <2>3. \A S \in SUBSET Task : \A s \in S : Debt(S) = Debt(S \ {s}) + CycleTime
    BY DebtRemove
  <2>4. Types /\ Types' /\ passed'[t] >= passed[t]
    BY <1>1 DEF QueueInv, ScheduleInv, Place
  <2>5. /\ Bound(t) \in Nat /\ Bound(t)' >= Bound(t)
        /\ passed'[t] = passed[t] + 1 => Bound(t)' = Bound(t) + CycleTime
    BY <2>4, BoundIs, BoundGrows
  <2>6. Types => Bound(t) \in Nat
    BY BoundIs
  <2>7. (Types => Bound(t) \in Nat)'
    BY BoundIs, PTL
  <2>8. Bound(t)' \in Nat
    BY <2>4, <2>7
  <2>. QED  BY <2>1, <2>2, <2>3, <2>5, <2>8
<1>6. CASE UNCHANGED <<pc[w], now[w], since[w], job[w]>>
  <2>1. pc'[w] = pc[w] /\ now'[w] = now[w] /\ since'[w] = since[w] /\ job'[w] = job[w]
    BY <1>6
  <2>2. CASE pc[w] = "idle"
    BY <1>2, <1>3, <1>5, <2>1, <2>2, DurationsNat DEF QueueOK
  <2>3. CASE pc[w] = "mail"
    BY <1>2, <1>3, <1>5, <2>1, <2>3 DEF QueueOK
  <2>4. CASE pc[w] = "fetch"
    <3>1. /\ Debt(Ahead(t)' \ {job'[w]}) <= Debt(Ahead(t) \ {job[w]})
          /\ Debt(Ahead(t)' \ {job'[w]}) \in Nat /\ Debt(Ahead(t) \ {job[w]}) \in Nat
          /\ Bound(t) \in Nat /\ Bound(t)' \in Nat /\ Bound(t)' >= Bound(t)
      BY <1>5, <2>1
    <3>. QED  BY <1>2, <1>3, <2>1, <2>4, <3>1, CycleNat, DurationsNat DEF QueueOK
  <2>. QED  BY <1>3, <2>2, <2>3, <2>4
<1>7. CASE StartCycle(w)
  <2>1. /\ pc[w] = "idle" /\ pc'[w] = "mail" /\ now'[w] = clock
    BY <1>3, <1>7 DEF StartCycle, Enter
  <2>. QED  BY <1>2, <1>3, <1>5, <2>1, CycleNat, DurationsNat DEF QueueOK
<1>due. Due(t, now[w]) <=> nextCheck[t] <= now[w]
  BY <1>2 DEF Due, Expired, QueueInv, RowsOK
<1>8. CASE ClaimTask(w)
  <2>1. PICK held \in SUBSET MayBeHeld, s \in Task :
          /\ EarliestDue(s, now[w], held)
          /\ PassOver({r \in held : nextCheck[r] < nextCheck[s]}, now[w])
          /\ claim' = [claim EXCEPT ![s] = w]
          /\ job' = [job EXCEPT ![w] = s]
    BY <1>8 DEF ClaimTask
  <2>2. /\ pc[w] = "mail" /\ pc'[w] = "fetch" /\ since'[w] = clock /\ now'[w] = now[w]
        /\ job'[w] = s /\ s # t
    <3>1. claim'[t] = NoWorker /\ w # NoWorker /\ claim \in [Task -> Worker \cup {NoWorker}]
      BY NullsFresh DEF Waits, QueueInv, ScheduleInv, Types
    <3>2. s # t
      BY <2>1, <3>1
    <3>. QED  BY <1>3, <1>8, <2>1, <3>2 DEF ClaimTask, Enter
  <2>3. ASSUME now[w] > nextCheck[t]
        PROVE  s \in Ahead(t) \/ passed'[t] = passed[t] + 1
    <3>1. Due(t, now[w]) /\ nextCheck[s] # NoTime /\ nextCheck[s] \in Int
      <4>1. nextCheck[s] \in Int
        BY DEF QueueInv, ScheduleInv, Types
      <4>. QED  BY <1>3, <1>due, <2>1, <2>3, <4>1 DEF EarliestDue, Due
    <3>2. CASE nextCheck[s] <= nextCheck[t]
      BY <2>2, <3>1, <3>2 DEF Ahead
    <3>3. CASE nextCheck[s] > nextCheck[t]
      <4>1. t \in held
        BY <1>3, <2>1, <3>1, <3>3 DEF EarliestDue
      <4>2. t \in {r \in held : nextCheck[r] < nextCheck[s]}
        BY <1>3, <3>1, <3>3, <4>1
      <4>. QED  BY <2>1, <3>1, <4>2, PassOverCounts DEF QueueInv, ScheduleInv
    <3>. QED  BY <1>3, <3>1, <3>2, <3>3
  <2>4. ASSUME now[w] > nextCheck[t]
        PROVE  since'[w] + Debt(Ahead(t)' \ {s}) + CycleTime
                  <= nextCheck[t] + Bound(t)' + MailTime
    <3>1. now[w] + Debt(Ahead(t)) <= nextCheck[t] + Bound(t)
      BY <1>2, <2>2, <2>4 DEF QueueOK
    <3>2. CASE s \in Ahead(t)
      <4>1. Debt(Ahead(t)) = Debt(Ahead(t) \ {s}) + CycleTime
        BY <1>5, <3>2
      <4>2. /\ Debt(Ahead(t)' \ {s}) <= Debt(Ahead(t) \ {s})
            /\ Debt(Ahead(t)' \ {s}) \in Nat /\ Debt(Ahead(t) \ {s}) \in Nat
        BY <1>5
      <4>. QED  BY <1>3, <1>5, <2>2, <3>1, <4>1, <4>2, CycleNat, DurationsNat
    <3>3. CASE passed'[t] = passed[t] + 1
      <4>1. Debt(Ahead(t)' \ {s}) \in Nat /\ Debt(Ahead(t)' \ {s}) <= Debt(Ahead(t))
        <5>1. Ahead(t)' \in SUBSET Ahead(t) /\ Ahead(t) \in SUBSET Task
          BY <1>1 DEF Place, Ahead
        <5>. QED  BY <5>1, DebtMono
      <4>2. Bound(t)' = Bound(t) + CycleTime
        BY <1>5, <3>3
      <4>. QED  BY <1>3, <1>5, <2>2, <3>1, <4>1, <4>2, CycleNat, DurationsNat
    <3>. QED  BY <2>3, <2>4, <3>2, <3>3
  <2>5. Bound(t)' \in Nat /\ nextCheck'[t] = nextCheck[t]
    BY <1>2, <1>5
  <2>. QED  BY <1>2, <2>2, <2>4, <2>5 DEF QueueOK
<1>9. CASE NothingDue(w)
  <2>1. /\ pc[w] = "mail" /\ pc'[w] = "idle" /\ since'[w] = clock /\ clock' = clock
    BY <1>3, <1>9 DEF NothingDue, Enter
  <2>2. now[w] > nextCheck[t]
    BY <1>3, <1>4, <2>1, DurationsNat
  <2>3. passed'[t] = passed[t] + 1
    <3>1. PICK held \in SUBSET MayBeHeld : /\ \A s \in Task \ held : ~Due(s, now[w])
                                           /\ PassOver(held, now[w])
      BY <1>9 DEF NothingDue
    <3>2. Due(t, now[w]) /\ t \in held
      BY <1>3, <1>due, <2>2, <3>1
    <3>. QED  BY <3>1, <3>2, PassOverCounts DEF QueueInv, ScheduleInv
  <2>4. now[w] + Debt(Ahead(t)) <= nextCheck[t] + Bound(t)
    BY <1>2, <2>1, <2>2 DEF QueueOK
  <2>5. Bound(t)' = Bound(t) + CycleTime
    BY <1>5, <2>3
  <2>6. since'[w] + IdleTime + Debt(Ahead(t)') <= nextCheck[t] + Bound(t)'
    BY <1>3, <1>5, <2>1, <2>4, <2>5, CycleNat, DurationsNat
  <2>. QED  BY <1>2, <2>1, <2>6 DEF QueueOK
<1>10. CASE FinishCheck(w) \/ DiscardCheck(w)
  <2>1. /\ pc[w] = "fetch" /\ pc'[w] = "idle" /\ since'[w] = clock /\ clock' = clock
    BY <1>3, <1>10 DEF FinishCheck, DiscardCheck, Enter
  <2>2. now[w] > nextCheck[t]
    BY <1>3, <1>4, <2>1, DurationsNat
  <2>3. job[w] \notin Ahead(t)'
    <3>1. nextCheck'[job[w]] = NoTime \/ nextCheck'[job[w]] >= now[w]
      <4>1. CASE FinishCheck(w)
        BY <4>1, FinishRaises DEF QueueInv
      <4>2. CASE DiscardCheck(w)
        <5>1. evicted[w] /\ nextCheck' = nextCheck
          BY <2>1, <4>2 DEF DiscardCheck, QueueInv, ScheduleInv, CheckOK, rows
        <5>. QED  BY <2>1, <5>1 DEF QueueInv, EvictedOK
      <4>. QED  BY <1>10, <4>1, <4>2
    <3>2. nextCheck'[job[w]] \in Int
      BY <1>3, <2>1 DEF QueueInv, ScheduleInv, Types
    <3>. QED  BY <1>2, <1>3, <2>2, <3>1, <3>2 DEF Ahead
  <2>4. since[w] + Debt(Ahead(t) \ {job[w]}) + CycleTime <= nextCheck[t] + Bound(t) + MailTime
    BY <1>2, <2>1, <2>2 DEF QueueOK
  <2>5. Debt(Ahead(t)') <= Debt(Ahead(t) \ {job[w]}) /\ Debt(Ahead(t) \ {job[w]}) \in Nat
    BY <1>5, <2>3
  <2>6. since'[w] + IdleTime + Debt(Ahead(t)') <= nextCheck[t] + Bound(t)'
    BY <1>3, <1>5, <2>1, <2>4, <2>5, CycleNat, DurationsNat
  <2>. QED  BY <1>2, <2>1, <2>6 DEF QueueOK
<1>. QED
  BY <1>6, <1>7, <1>8, <1>9, <1>10, OwnSteps DEF WorkerStep, QueueInv, ScheduleInv

\* A due task waits for the cycle under way, one cycle for each other task, the
\* mail work of its own and one cycle for each claim that found its row held by
\* another transaction, however often users ask for other checks, edit the
\* settings, pause and resume, and whichever other workers die: it takes one
\* worker that stays alive.
THEOREM NothingStarves ==
    ASSUME NEW w \in Worker
    PROVE  Init /\ [][Steady(w)]_vars => []NoStarvation
<1> DEFINE InTime == \A t \in Task : Waits(t) => QueueOK(w, t)
<1>1. Init => QueueInv
  <2>1. Init => RowsOK /\ IdleOK /\ EvictedOK
    BY DurationsNat DEF Init, RowsOK, IdleOK, EvictedOK
  <2>. QED  BY <2>1, InitSchedule DEF QueueInv
<1>2. Init => InTime
  <2>1. Init => \A t \in Task : Recent(t)
    BY DurationsNat DEF Init, Recent
  <2>. QED  BY <1>1, <2>1, RecentIsInTime DEF RecentWaitsInTime
<1>3. QueueInv /\ [Steady(w)]_vars => QueueInv'
  BY QueueInvStep DEF Steady
<1>4. QueueInv' => RecentWaitsInTime'
  BY RecentIsInTime, PTL
<1>5. QueueInv /\ InTime /\ [Steady(w)]_vars => InTime'
  BY <1>3, <1>4, QueueStep
<1>6. QueueInv /\ InTime => NoStarvation
  <2> SUFFICES ASSUME QueueInv, InTime, NEW t \in Task, Waits(t)
               PROVE  clock - nextCheck[t] <= Bound(t) + MailTime
    BY DEF NoStarvation, Waits, Bound
  <2> HIDE DEF InTime
  <2>1. QueueOK(w, t)
    BY DEF InTime
  <2>2. /\ clock \in Nat /\ now[w] \in Nat /\ since[w] \in Nat /\ nextCheck[t] \in Int
        /\ pc[w] \in {"idle", "mail", "fetch"}
        /\ pc[w] = "idle" => clock <= since[w] + IdleTime
        /\ pc[w] = "mail" => clock <= now[w] + MailTime
        /\ pc[w] = "fetch" => /\ clock <= since[w] + FetchTime
                              /\ clock <= now[w] + MailTime + FetchTime
    BY DurationsNat DEF QueueInv, ScheduleInv, Types, StageOK, IdleOK
  <2>3. /\ Debt(Ahead(t)) \in Nat /\ Debt(Ahead(t) \ {job[w]}) \in Nat
        /\ Bound(t) \in Nat /\ Bound(t) >= CycleTime
    <3>1. Ahead(t) \in SUBSET Task /\ Ahead(t) \ {job[w]} \in SUBSET Task
      BY DEF Ahead
    <3>2. Debt(Task) = Debt(Task \ {t}) + CycleTime /\ Debt(Task \ {t}) \in Nat
      BY DebtMono, DebtRemove
    <3>3. Bound(t) \in Nat /\ Bound(t) >= Debt(Task)
      BY BoundIs DEF QueueInv, ScheduleInv
    <3>. QED  BY <3>1, <3>2, <3>3, DebtMono, CycleNat
  <2>. QED  BY <2>1, <2>2, <2>3, CycleNat, DurationsNat DEF QueueOK
<1>. QED  BY <1>1, <1>2, <1>3, <1>5, <1>6, PTL

-----------------------------------------------------------------------------
(* Waking up.  The steps of WakeUp are steps of the schedule or leave it   *)
(* alone, so that what is proved above holds of WakeUp.                    *)

OneWorker == \A v, w \in Worker : v = w

LEMMA WakeIsSchedule == WakeSpec => Spec
<1>1. [WakeNext]_<<vars, wakeVars>> => [Next]_vars
  BY DEF WakeNext, Cycle, Claim, EndCheck, EndIdle, Pop, TimeOut, EndWait, Clear, RedisFails, Ask,
     Pause, Reschedule, Notify, LoseNotice, Next, WorkerStep, WebStep
<1>2. WakeInit => Init
  BY DEF WakeInit
<1>. QED  BY <1>1, <1>2, PTL DEF WakeSpec, Spec

\* Nor does a due task starve however the worker waits: as long as nobody dies, and
\* whether or not a wake-up arrives.
THEOREM NothingStarvesAwake == ASSUME Worker # {} PROVE WakeSpec => []NoStarvation
<1>1. PICK w \in Worker : TRUE
  OBVIOUS
<1>2. [Next]_vars => [Steady(w)]_vars
  BY DEF Steady
<1>3. Init /\ [][Steady(w)]_vars => []NoStarvation
  BY NothingStarves
<1>. QED  BY <1>2, <1>3, WakeIsSchedule, PTL DEF Spec

LEMMA WakeKeepsSchedule == WakeSpec => []ScheduleInv
<1>1. [Next]_vars => [Next \/ \E w \in Worker : Crash(w)]_vars
  OBVIOUS
<1>. QED  BY <1>1, WakeIsSchedule, ScheduleInvariant, PTL DEF Spec, CrashSpec

\* Only an idle worker waits; from the start of a cycle on, a wake-up that
\* arrived has its token until the worker waits again.
WaitOK ==
    /\ WakeTypeOK
    /\ \A w \in Worker : wait[w] # "none" => pc[w] = "idle"
    /\ \A w \in Worker : pc[w] # "idle" /\ ~token => ~owed
    /\ WakeIsNotLost

\* A hinted task is free and due; a cycle that began since its wake-up knows it.
HintOK ==
    /\ \A t \in hinted : claim[t] = NoWorker /\ Due(t, clock)
    /\ \A w \in Worker : pc[w] = "mail" /\ ~token => \A t \in hinted : Due(t, now[w])
    /\ HintedTaskIsTaken

LEMMA WaitStep ==
    ASSUME OneWorker, Types, WaitOK, [WakeNext]_<<vars, wakeVars>>
    PROVE  WaitOK'
<1> USE DEF WaitOK, WakeTypeOK, WakeIsNotLost, workers, history, rows
<1>1. pc \in [Worker -> {"idle", "mail", "fetch"}]
  BY DEF Types
<1>2. ASSUME NEW w \in Worker, Cycle(w) PROVE WaitOK'
  BY <1>1, <1>2 DEF Cycle, StartCycle, Enter, OneWorker
<1>3. ASSUME NEW w \in Worker, Claim(w) PROVE WaitOK'
  BY <1>1, <1>3 DEF Claim, ClaimTask, Enter, OneWorker
<1>4. ASSUME NEW w \in Worker, EndCheck(w) \/ EndIdle(w) PROVE WaitOK'
  <2>1. pc[w] # "idle" /\ pc' = [pc EXCEPT ![w] = "idle"]
    BY <1>4 DEF EndCheck, EndIdle, FinishCheck, DiscardCheck, NothingDue, Enter
  <2>2. /\ UNCHANGED <<token, mode, notices, owed>> /\ hinted' \subseteq hinted
        /\ \E next \in {"none", "redis", "event"} : wait' = [wait EXCEPT ![w] = next]
    BY <1>4 DEF EndCheck, EndIdle, EndCycle, WaitsAfter, TokenKept
  <2>. QED  BY <1>1, <2>1, <2>2 DEF OneWorker
<1>5. ASSUME NEW w \in Worker, Pop(w) \/ TimeOut(w) \/ EndWait(w) \/ Clear(w) PROVE WaitOK'
  BY <1>1, <1>5 DEF Pop, TimeOut, EndWait, Clear, OneWorker, vars
<1>6. CASE RedisFails
  BY <1>1, <1>6 DEF RedisFails, vars
<1>7. ASSUME NEW t \in Task, Ask(t) \/ Pause(t) PROVE WaitOK'
  BY <1>7 DEF Ask, Pause, RunNow, ResumeTask, PauseTask
<1>8. CASE Reschedule
  BY <1>8 DEF Reschedule, EditSettings
<1>9. ASSUME NEW n \in notices, Notify(n) \/ LoseNotice(n) PROVE WaitOK'
  <2>1. /\ notices' \subseteq notices /\ UNCHANGED <<pc, mode, wait>>
        /\ \/ token' = TRUE /\ owed' = TRUE
           \/ UNCHANGED <<token, owed>>
    BY <1>9 DEF Notify, LoseNotice, vars
  <2>2. hinted' \subseteq Task
    BY <1>9 DEF Notify, LoseNotice
  <2>3. token' \in BOOLEAN /\ owed' \in BOOLEAN
    BY <2>1
  <2>4. CASE token' = TRUE
    BY <2>1, <2>2, <2>3, <2>4
  <2>5. CASE UNCHANGED <<token, owed>>
    BY <2>1, <2>2, <2>3, <2>5
  <2>. QED  BY <2>1, <2>4, <2>5
<1>10. CASE Tick /\ UNCHANGED wakeVars
  BY <1>10 DEF Tick, wakeVars
<1>11. CASE UNCHANGED <<vars, wakeVars>>
  BY <1>11 DEF vars, wakeVars
<1>. QED
  BY <1>2, <1>3, <1>4, <1>5, <1>6, <1>7, <1>8, <1>9, <1>10, <1>11 DEF WakeNext

LEMMA HintStep ==
    ASSUME OneWorker, Types, CheckOK, WaitOK, HintOK, [WakeNext]_<<vars, wakeVars>>
    PROVE  HintOK'
<1> USE DEF HintOK, HintedTaskIsTaken, workers, history, rows
<1>1. /\ pc \in [Worker -> {"idle", "mail", "fetch"}] /\ now \in [Worker -> Nat]
      /\ clock \in Nat /\ nextCheck \in [Task -> Int] /\ leaseEnd \in [Task -> Int]
      /\ claim \in [Task -> Worker \cup {NoWorker}] /\ NoWorker \notin Worker
      /\ wait \in [Worker -> {"none", "redis", "fallback", "event", "woken"}]
      /\ hinted \subseteq Task
      /\ \A w \in Worker : wait[w] # "none" => pc[w] = "idle"
  BY NullsFresh DEF Types, WaitOK, WakeTypeOK
<1>2. ASSUME NEW w \in Worker, Cycle(w) PROVE HintOK'
  BY <1>1, <1>2 DEF Cycle, StartCycle, Enter, OneWorker, Due, Expired
<1>3. ASSUME NEW w \in Worker, Claim(w) PROVE HintOK'
  <2>1. PICK t \in Task : /\ claim' = [claim EXCEPT ![t] = w]
                          /\ leaseEnd' = [leaseEnd EXCEPT ![t] = now[w] + Lease]
    BY <1>3 DEF Claim, ClaimTask
  <2>2. /\ pc' = [pc EXCEPT ![w] = "fetch"] /\ pc[w] = "mail"
        /\ UNCHANGED <<clock, nextCheck, now, wait, token>>
        /\ hinted' = {s \in hinted : claim'[s] # w}
    BY <1>3 DEF Claim, ClaimTask, Enter
  <2>3. t \notin hinted'
    BY <1>1, <2>1, <2>2
  <2>4. \A s \in hinted' : s \in hinted /\ claim'[s] = claim[s] /\ leaseEnd'[s] = leaseEnd[s]
    BY <1>1, <2>1, <2>2, <2>3
  <2>. QED  BY <1>1, <2>2, <2>4 DEF OneWorker, Due, Expired
<1>4. ASSUME NEW w \in Worker, EndCheck(w) PROVE HintOK'
  <2>1. /\ pc[w] = "fetch" /\ pc' = [pc EXCEPT ![w] = "idle"]
        /\ UNCHANGED <<clock, now, token, mode, hinted>>
        /\ \E next \in {"none", "event"} : wait' = [wait EXCEPT ![w] = next]
    BY <1>4 DEF EndCheck, FinishCheck, DiscardCheck, Enter, EndCycle, WaitsAfter, TokenKept
  <2>2. \A s \in hinted : UNCHANGED <<claim[s], leaseEnd[s], nextCheck[s]>>
    <3>1. CASE DiscardCheck(w)
      BY <3>1 DEF DiscardCheck
    <3>2. CASE FinishCheck(w)
      <4>1. /\ claim[job[w]] = w /\ claim' = [claim EXCEPT ![job[w]] = NoWorker]
            /\ leaseEnd' = [leaseEnd EXCEPT ![job[w]] = NoTime]
            /\ \E n : nextCheck' = [nextCheck EXCEPT ![job[w]] = n]
        BY <3>2 DEF FinishCheck
      <4>2. \A s \in hinted : s # job[w]
        BY <1>1, <4>1
      <4>. QED  BY <1>1, <4>1, <4>2
    <3>. QED  BY <1>4, <3>1, <3>2 DEF EndCheck
  <2>. QED  BY <1>1, <2>1, <2>2 DEF OneWorker, Due, Expired
<1>5. ASSUME NEW w \in Worker, EndIdle(w) PROVE HintOK'
  <2>1. /\ pc[w] = "mail" /\ pc' = [pc EXCEPT ![w] = "idle"]
        /\ UNCHANGED <<clock, rows, now, token, mode>> /\ hinted' \subseteq hinted
    BY <1>5 DEF EndIdle, NothingDue, Enter, EndCycle, TokenKept
  <2>2. ASSUME ~token, NEW t \in hinted PROVE t \notin hinted'
    <3>1. PICK held \in SUBSET MayBeHeld : /\ \A s \in Task \ held : ~Due(s, now[w])
                                           /\ PassOver(held, now[w])
      BY <1>5 DEF EndIdle, NothingDue
    <3>2. Due(t, now[w]) /\ t \in held /\ t \in Task
      BY <1>1, <2>1, <2>2, <3>1
    <3>3. passed'[t] = passed[t] + 1 /\ passed[t] \in 0..MaxPassed
      BY <3>1, <3>2, PassOverCounts DEF Types
    <3>4. passed'[t] # passed[t]
      BY <3>3, DurationsNat
    <3>. QED  BY <1>5, <3>4 DEF EndIdle
  <2>3. ~token => hinted' = {}
    BY <2>1, <2>2
  <2>. QED  BY <1>1, <2>1, <2>3 DEF OneWorker, Due, Expired
<1>6. ASSUME NEW w \in Worker, Pop(w) \/ TimeOut(w) \/ EndWait(w) \/ Clear(w) PROVE HintOK'
  BY <1>1, <1>6 DEF Pop, TimeOut, EndWait, Clear, OneWorker, vars, Due, Expired
<1>7. CASE RedisFails
  BY <1>1, <1>7 DEF RedisFails, vars
<1>8. ASSUME NEW t \in Task, Ask(t) \/ Pause(t) PROVE HintOK'
  <2>1. /\ hinted' = hinted \ {t}
        /\ UNCHANGED <<clock, now, pc, token, wait>>
    BY <1>8 DEF Ask, Pause, RunNow, ResumeTask, PauseTask
  <2>2. \A s \in hinted' : UNCHANGED <<claim[s], leaseEnd[s], nextCheck[s]>>
    BY <1>1, <1>8, <2>1 DEF Ask, Pause, RunNow, ResumeTask, PauseTask
  <2>. QED  BY <1>1, <2>1, <2>2 DEF Due, Expired
<1>9. CASE Reschedule
  BY <1>9 DEF Reschedule
<1>10. ASSUME NEW n \in notices, Notify(n) PROVE HintOK'
  BY <1>1, <1>10 DEF Notify, vars, Due, Expired
<1>11. ASSUME NEW n \in notices, LoseNotice(n) PROVE HintOK'
  BY <1>11 DEF LoseNotice, vars, Due, Expired
<1>12. CASE Tick /\ UNCHANGED wakeVars
  BY <1>1, <1>12 DEF Tick, wakeVars, Due, Expired
<1>13. CASE UNCHANGED <<vars, wakeVars>>
  BY <1>13 DEF vars, wakeVars, Due, Expired
<1>. QED
  BY <1>2, <1>3, <1>4, <1>5, <1>6, <1>7, <1>8, <1>9, <1>10, <1>11, <1>12, <1>13 DEF WakeNext

LEMMA WakeInvariant == ASSUME OneWorker PROVE WakeSpec => [](WaitOK /\ HintOK)
<1>1. WakeInit => WaitOK /\ HintOK
  BY DEF WakeInit, Init, WaitOK, HintOK, WakeTypeOK, WakeIsNotLost, HintedTaskIsTaken
<1>2. ScheduleInv /\ WaitOK /\ HintOK /\ [WakeNext]_<<vars, wakeVars>> => (WaitOK /\ HintOK)'
  BY WaitStep, HintStep DEF ScheduleInv
<1>. QED  BY <1>1, <1>2, WakeKeepsSchedule, PTL DEF WakeSpec

\* One worker never sleeps through a wake-up that arrived, on Redis and as local
\* scheduler, for any number of tasks.  While Redis fails, the wait on the local
\* event is not covered: NothingStarves bounds what it costs.
THEOREM NoWakeLost == ASSUME OneWorker PROVE WakeSpec => []WakeIsNotLost
<1>1. WaitOK => WakeIsNotLost
  BY DEF WaitOK
<1>. QED  BY <1>1, WakeInvariant, PTL

\* One token is enough for any number of tasks asked for at once: the worker
\* does not wait on Redis while one of them is due and its wake-up has arrived,
\* unless its row was held when the last cycle looked for work.
THEOREM HintsAreServed == ASSUME OneWorker PROVE WakeSpec => []HintedTaskIsTaken
<1>1. HintOK => HintedTaskIsTaken
  BY DEF HintOK
<1>. QED  BY <1>1, WakeInvariant, PTL
=============================================================================
