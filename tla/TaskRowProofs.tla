---------------------------- MODULE TaskRowProofs ----------------------------
(***************************************************************************)
(* More theorems of TaskLifecycle, for every set of tasks, accounts and    *)
(* workers: the columns of a task's row agree with each other and with its *)
(* mails, and a check that was overtaken is discarded.  They rest on the   *)
(* type invariant of TaskLifecycleProofs.                                  *)
(***************************************************************************)
EXTENDS TaskLifecycleProofs

-----------------------------------------------------------------------------
(* Claim, lease and next check agree with the status.                      *)

RowInv == ClaimOnlyWhileMonitoring /\ ScheduledIffMonitoring

LEMMA RowStep == TypeInv /\ RowInv /\ [Next]_vars => RowInv'
<1> SUFFICES ASSUME TypeInv, RowInv, [Next]_vars PROVE RowInv'
    OBVIOUS
<1> USE DEF RowInv, ClaimOnlyWhileMonitoring, ScheduledIffMonitoring, taskVars,
            ReleaseClaims
<1>0. /\ status \in [Task -> TaskStatus] /\ claim \in [Task -> Worker \cup {NoWorker}]
      /\ lease \in [Task -> {"free", "held", "lapsed"}]
      /\ nextCheck \in [Task -> {"none", "due", "later"}]
      /\ \A t \in admitted : status[t] = "ABSENT"
  BY DEF TypeInv, TypeOK, AdmittedOK
<1>1. ASSUME NEW t \in Task, CreateTask(t) PROVE RowInv'
  BY <1>0, <1>1 DEF CreateTask
<1>2. ASSUME NEW t \in Task, PauseTask(t) PROVE RowInv'
  BY <1>0, <1>2 DEF PauseTask
<1>3. ASSUME NEW t \in Task, ResumeTask(t) PROVE RowInv'
  BY <1>0, <1>3 DEF ResumeTask
<1>4. ASSUME NEW t \in Task, CancelTask(t) PROVE RowInv'
  BY <1>0, <1>4 DEF CancelTask
<1>5. ASSUME NEW t \in Task, RunNow(t) PROVE RowInv'
  BY <1>0, <1>5 DEF RunNow
<1>6. CASE EditSettings
  BY <1>0, <1>6 DEF EditSettings, Rescheduled
<1>7. ASSUME NEW u \in User, ToggleUser(u) PROVE RowInv'
  BY <1>0, <1>7 DEF ToggleUser
<1>8. ASSUME NEW w \in Worker, ExpireDue(w) PROVE RowInv'
  BY <1>0, <1>8 DEF ExpireDue, Expirable
<1>9. ASSUME NEW w \in Worker, SettleQueued(w) PROVE RowInv'
  BY <1>0, <1>9 DEF SettleQueued
<1>10. ASSUME NEW w \in Worker, ClaimTask(w) PROVE RowInv'
  BY <1>0, <1>10, NullsAreFresh DEF ClaimTask, Claim, ClaimNone, Claimable
<1>11. ASSUME NEW w \in Worker, CheckBroken(w) PROVE RowInv'
  BY <1>0, <1>11 DEF CheckBroken, FinishCheck
<1>12. ASSUME NEW w \in Worker, CheckUnopened(w) PROVE RowInv'
  BY <1>0, <1>12 DEF CheckUnopened, FinishCheck
<1>13. ASSUME NEW w \in Worker, CheckOpened(w) PROVE RowInv'
  BY <1>0, <1>13 DEF CheckOpened, FinishCheck
<1>14. ASSUME NEW t \in Task, LeaseLapses(t) \/ CheckFallsDue(t) PROVE RowInv'
  BY <1>0, <1>14 DEF LeaseLapses, CheckFallsDue
<1>15. ASSUME UNCHANGED <<status, claim, lease, nextCheck>> PROVE RowInv'
  BY <1>15
<1>16. ASSUME NEW t \in Task, AdmitTask(t) \/ DatePasses(t) PROVE RowInv'
  BY <1>15, <1>16 DEF AdmitTask, DatePasses
<1>17. ASSUME NEW w \in Worker,
              \/ Boot(w) \/ Dispatch(w) \/ StartDelivery(w) \/ ParkUnverified(w) \/ SendMail(w)
              \/ SettleUncertain(w) \/ SettleBroken(w) \/ SettleTemporary(w) \/ SettleRejected(w)
              \/ DieOfStaleClaim(w) \/ ReadTask(w) \/ Crash(w)
       PROVE  RowInv'
  BY <1>15, <1>17 DEF Boot, Dispatch, StartDelivery, ParkUnverified, SendMail, SettleUncertain,
     SettleBroken, SettleTemporary, SettleRejected, DieOfStaleClaim, ReadTask, Crash
<1>18. ASSUME AttestMail \/ (\E n \in Note : RetryFallsDue(n)) \/ UNCHANGED vars PROVE RowInv'
  BY <1>15, <1>18 DEF AttestMail, RetryFallsDue, vars
<1>19. QED
  BY <1>1, <1>2, <1>3, <1>4, <1>5, <1>6, <1>7, <1>8, <1>9, <1>10, <1>11, <1>12, <1>13, <1>14,
     <1>16, <1>17, <1>18 DEF Next, WebStep, WorkerStep, MailStep, CheckStep, TimePasses

\* A monitored task always has a next check and no other task has one: none is
\* forgotten by the scheduler, none is checked after it ended, through every
\* order of pauses, settings, expiry and endings of checks.
THEOREM ScheduleAgrees == Spec => []ScheduledIffMonitoring
<1>1. Init => TypeInv /\ RowInv
  BY InitTyped DEF Init, RowInv, ClaimOnlyWhileMonitoring, ScheduledIffMonitoring
<1>2. TypeInv /\ RowInv /\ [Next]_vars => TypeInv' /\ RowInv'
  BY TypeStep, RowStep
<1>3. RowInv => ScheduledIffMonitoring
  BY DEF RowInv
<1>4. QED
  BY <1>1, <1>2, <1>3, PTL DEF Spec

\* A claim lives only on a monitored task and exactly as long as its lease, for
\* any number of workers that claim, lose and outlive it.
THEOREM ClaimsAgree == Spec => []ClaimOnlyWhileMonitoring
<1>1. Init => TypeInv /\ RowInv
  BY InitTyped DEF Init, RowInv, ClaimOnlyWhileMonitoring, ScheduledIffMonitoring
<1>2. TypeInv /\ RowInv /\ [Next]_vars => TypeInv' /\ RowInv'
  BY TypeStep, RowStep
<1>3. RowInv => ClaimOnlyWhileMonitoring
  BY DEF RowInv
<1>4. QED
  BY <1>1, <1>2, <1>3, PTL DEF Spec

-----------------------------------------------------------------------------
(* The mails of a task agree with its status.                              *)

\* Which opening mail a task of each status may have.
OpeningOK(t) ==
    /\ status[t] \in {"ABSENT", "MONITORING", "PAUSED", "ERROR", "EXPIRED"}
          => note[Opening(t)] = "ABSENT"
    /\ status[t] = "DETECTED" => note[Opening(t)] \notin {"ABSENT", "SENT"}
    /\ status[t] = "COMPLETED" <=> note[Opening(t)] = "SENT"
    /\ status[t] = "CANCELLED" => note[Opening(t)] \notin {"PENDING", "SENDING"}

OtherMailsOK(t) ==
    /\ status[t] = "EXPIRED" <=> note[Expiry(t)] # "ABSENT"
    /\ status[t] = "ERROR" => note[Alert(t)] # "ABSENT"

AnnouncedInv == \A t \in Task : OpeningOK(t) /\ OtherMailsOK(t)

LEMMA NotesDiffer ==
    \A s, t \in Task : /\ Opening(s) # Expiry(t) /\ Opening(s) # Alert(t) /\ Expiry(s) # Alert(t)
                       /\ s # t => Opening(s) # Opening(t) /\ Expiry(s) # Expiry(t) /\ Alert(s) # Alert(t)
BY DEF Opening, Expiry, Alert

\* Steps that write a status or a notification only where the pairing of the
\* two is not at stake.
AnnouncedQuiet ==
    /\ UNCHANGED status
    /\ \A n \in Note : \/ note'[n] = note[n]
                       \/ /\ note[n] \in {"PENDING", "SENDING"}
                          /\ note'[n] \in {"PENDING", "PERMANENT_FAILED", "FAILED", "NEEDS_REVIEW"}
                          /\ note'[n] = "PENDING" => note[n] = "SENDING"
                       \/ note[n] = "PENDING" /\ note'[n] = "SENDING"

LEMMA AnnouncedQuietStep == AnnouncedInv /\ AnnouncedQuiet => AnnouncedInv'
<1> SUFFICES ASSUME AnnouncedInv, AnnouncedQuiet, NEW t \in Task
             PROVE  OpeningOK(t)' /\ OtherMailsOK(t)'
    BY DEF AnnouncedInv
<1> DEFINE Kept(n) == /\ note'[n] = "ABSENT" <=> note[n] = "ABSENT"
                      /\ note'[n] = "SENT" <=> note[n] = "SENT"
                      /\ note'[n] \in {"PENDING", "SENDING"} => note[n] \in {"PENDING", "SENDING"}
<1>1. Kept(Opening(t)) /\ Kept(Expiry(t)) /\ Kept(Alert(t)) /\ status'[t] = status[t]
  BY NoteParts DEF AnnouncedQuiet
<1>2. OpeningOK(t) /\ OtherMailsOK(t)
  BY DEF AnnouncedInv
<1>3. OpeningOK(t)'
  BY <1>1, <1>2 DEF OpeningOK
<1>4. OtherMailsOK(t)'
  BY <1>1, <1>2 DEF OtherMailsOK
<1>5. QED
  BY <1>3, <1>4

\* A step that concerns one task only.
LEMMA OneTaskAnnounced ==
    ASSUME AnnouncedInv, NEW t \in Task, OpeningOK(t)', OtherMailsOK(t)',
           \A s \in Task \ {t} : /\ status'[s] = status[s]
                                 /\ note'[Opening(s)] = note[Opening(s)]
                                 /\ note'[Expiry(s)] = note[Expiry(s)]
                                 /\ note'[Alert(s)] = note[Alert(s)]
    PROVE  AnnouncedInv'
<1> SUFFICES ASSUME NEW s \in Task PROVE OpeningOK(s)' /\ OtherMailsOK(s)'
    BY DEF AnnouncedInv
<1>1. CASE s = t
  BY <1>1
<1>2. CASE s # t
  <2>1. OpeningOK(s) /\ OtherMailsOK(s)
    BY DEF AnnouncedInv
  <2>2. QED
    BY <1>2, <2>1 DEF OpeningOK, OtherMailsOK
<1>3. QED
  BY <1>1, <1>2

LEMMA AnnouncedStep == TypeInv /\ AnnouncedInv /\ [Next]_vars => AnnouncedInv'
<1> SUFFICES ASSUME TypeInv, AnnouncedInv, [Next]_vars PROVE AnnouncedInv'
    OBVIOUS
<1> USE NoteParts, NotesDiffer DEF taskVars, noteVars, SetNote
<1>0. /\ status \in [Task -> TaskStatus] /\ note \in [Note -> NoteStatus]
      /\ \A t \in admitted : status[t] = "ABSENT"
      /\ \A w \in Worker : /\ pc[w] \in {"deliver", "send", "settle"} => sending[w] \in Note
                           /\ pc[w] \in {"read", "check"} => checking[w] \in Task
  BY DEF TypeInv, TypeOK, AdmittedOK, MemoryOK
<1>1. ASSUME UNCHANGED <<status, note>> PROVE AnnouncedInv'
  BY <1>1, AnnouncedQuietStep DEF AnnouncedQuiet
<1>2. ASSUME NEW t \in Task, NEW s \in TaskStatus,
             UNCHANGED note, status' = [status EXCEPT ![t] = s],
             status[t] \in {"ABSENT", "MONITORING", "PAUSED", "ERROR"},
             s \in {"MONITORING", "PAUSED"}
      PROVE  AnnouncedInv'
  <2>1. OpeningOK(t) /\ OtherMailsOK(t)
    BY DEF AnnouncedInv
  <2>2. status'[t] = s /\ note[Opening(t)] = "ABSENT" /\ note[Expiry(t)] = "ABSENT"
    BY <1>0, <1>2, <2>1 DEF OpeningOK, OtherMailsOK
  <2>3. OpeningOK(t)' /\ OtherMailsOK(t)'
    BY <1>2, <2>2 DEF OpeningOK, OtherMailsOK
  <2>4. \A r \in Task \ {t} : status'[r] = status[r]
    BY <1>0, <1>2
  <2>. QED  BY <1>2, <2>3, <2>4, OneTaskAnnounced
<1>3. ASSUME NEW t \in Task, CreateTask(t) PROVE AnnouncedInv'
  BY <1>0, <1>1, <1>2, <1>3 DEF CreateTask, TaskStatus
<1>4. ASSUME NEW t \in Task, PauseTask(t) \/ ResumeTask(t) PROVE AnnouncedInv'
  BY <1>0, <1>2, <1>4 DEF PauseTask, ResumeTask, TaskStatus
<1>5. ASSUME NEW t \in Task, CancelTask(t) PROVE AnnouncedInv'
  <2>1. /\ status[t] \in Unfinished /\ note[Opening(t)] # "SENDING"
        /\ status' = [status EXCEPT ![t] = "CANCELLED"]
        /\ \/ note[Opening(t)] = "PENDING" /\ note' = [note EXCEPT ![Opening(t)] = "PERMANENT_FAILED"]
           \/ note[Opening(t)] # "PENDING" /\ UNCHANGED note
    BY <1>5 DEF CancelTask, Cancellable
  <2>2. note[Opening(t)] # "SENT" /\ note[Expiry(t)] = "ABSENT"
    BY <2>1 DEF AnnouncedInv, OpeningOK, OtherMailsOK, Unfinished
  <2>3. /\ status'[t] = "CANCELLED" /\ note'[Opening(t)] \notin {"PENDING", "SENDING", "SENT"}
        /\ note'[Expiry(t)] = "ABSENT"
    BY <1>0, <2>1, <2>2
  <2>4. \A s \in Task \ {t} : /\ status'[s] = status[s] /\ note'[Opening(s)] = note[Opening(s)]
                              /\ note'[Expiry(s)] = note[Expiry(s)] /\ note'[Alert(s)] = note[Alert(s)]
    BY <1>0, <2>1
  <2>5. OpeningOK(t)' /\ OtherMailsOK(t)'
    BY <2>3 DEF OpeningOK, OtherMailsOK
  <2>6. QED
    BY <2>4, <2>5, OneTaskAnnounced
<1>6. ASSUME NEW u \in User, ToggleUser(u) PROVE AnnouncedInv'
  BY <1>0, <1>6 DEF ToggleUser, AnnouncedInv, OpeningOK, OtherMailsOK
<1>7. ASSUME NEW w \in Worker, Boot(w) PROVE AnnouncedInv'
  BY <1>0, <1>7, AnnouncedQuietStep DEF Boot, AfterRestart, AnnouncedQuiet
<1>8. ASSUME NEW w \in Worker, ExpireDue(w) PROVE AnnouncedInv'
  <2> SUFFICES ASSUME NEW t \in Task PROVE OpeningOK(t)' /\ OtherMailsOK(t)'
    BY DEF AnnouncedInv
  <2>1. OpeningOK(t) /\ OtherMailsOK(t)
    BY DEF AnnouncedInv
  <2>2. CASE status[t] \in Expirable /\ past[t]
    <3>1. note[Opening(t)] = "ABSENT"
      BY <2>1, <2>2 DEF OpeningOK, Expirable
    <3>2. /\ status'[t] = "EXPIRED" /\ note'[Opening(t)] = "ABSENT"
          /\ note'[Expiry(t)] # "ABSENT"
      BY <1>8, <2>2, <3>1 DEF ExpireDue, Opening, Expiry
    <3>. QED  BY <3>2 DEF OpeningOK, OtherMailsOK
  <2>3. CASE ~(status[t] \in Expirable /\ past[t])
    <3>1. /\ status'[t] = status[t] /\ note'[Opening(t)] = note[Opening(t)]
          /\ note'[Expiry(t)] = note[Expiry(t)] /\ note'[Alert(t)] = note[Alert(t)]
      BY <1>8, <2>3 DEF ExpireDue, Opening, Expiry, Alert
    <3>. QED  BY <2>1, <3>1 DEF OpeningOK, OtherMailsOK
  <2>. QED  BY <2>2, <2>3
<1>9. ASSUME NEW w \in Worker, StartDelivery(w) \/ ParkUnverified(w) PROVE AnnouncedInv'
  BY <1>0, <1>9, AnnouncedQuietStep DEF StartDelivery, ParkUnverified, AnnouncedQuiet
<1>10. ASSUME NEW w \in Worker, SettleQueued(w) PROVE AnnouncedInv'
  <2>1. PICK n \in Note : n = sending[w]
    BY <1>0, <1>10 DEF SettleQueued, Settle
  <2>2. CASE ~StillSending(w)
    BY <1>1, <1>10, <2>2 DEF SettleQueued
  <2>3. CASE StillSending(w) /\ n[2] # "OPENING"
    <3>1. UNCHANGED status /\ note' = [note EXCEPT ![n] = "SENT"] /\ note[n] = "SENDING"
      BY <1>10, <2>1, <2>3 DEF SettleQueued, StillSending
    <3>2. \A t \in Task : Opening(t) # n
      BY <2>3 DEF Opening
    <3>3. QED
      BY <1>0, <2>1, <3>1, <3>2 DEF AnnouncedInv, OpeningOK, OtherMailsOK
  <2>4. CASE StillSending(w) /\ n[2] = "OPENING"
    <3>1. PICK t \in Task : t = n[1]
      OBVIOUS
    <3>2. n = Opening(t) /\ note[n] = "SENDING"
      BY <2>1, <2>4, <3>1 DEF Opening, StillSending
    <3>3. status[t] = "DETECTED" /\ OtherMailsOK(t)
      BY <1>0, <3>2 DEF AnnouncedInv, OpeningOK, TaskStatus
    <3>4. /\ status' = [status EXCEPT ![t] = "COMPLETED"]
          /\ note' = [note EXCEPT ![n] = "SENT"]
      BY <1>10, <2>1, <2>4, <3>1, <3>3 DEF SettleQueued
    <3>5. /\ status'[t] = "COMPLETED" /\ note'[Opening(t)] = "SENT"
          /\ note'[Expiry(t)] = note[Expiry(t)]
      BY <1>0, <3>2, <3>4
    <3>6. OpeningOK(t)' /\ OtherMailsOK(t)'
      BY <3>3, <3>5 DEF OpeningOK, OtherMailsOK
    <3>7. \A s \in Task \ {t} : /\ status'[s] = status[s] /\ note'[Opening(s)] = note[Opening(s)]
                                /\ note'[Expiry(s)] = note[Expiry(s)] /\ note'[Alert(s)] = note[Alert(s)]
      BY <1>0, <3>2, <3>4
    <3>8. QED
      BY <3>6, <3>7, OneTaskAnnounced
  <2>5. QED
    BY <2>2, <2>3, <2>4
<1>11. ASSUME NEW w \in Worker,
              SettleUncertain(w) \/ SettleBroken(w) \/ SettleTemporary(w) \/ SettleRejected(w)
       PROVE  AnnouncedInv'
  <2>1. UNCHANGED status /\ sending[w] \in Note
    BY <1>0, <1>11 DEF SettleUncertain, SettleBroken, SettleTemporary, SettleRejected, Settle
  <2>2. \/ UNCHANGED note
        \/ /\ note[sending[w]] = "SENDING"
           /\ \E s \in {"NEEDS_REVIEW", "PENDING", "FAILED", "PERMANENT_FAILED"} :
                 note' = [note EXCEPT ![sending[w]] = s]
    BY <1>11 DEF SettleUncertain, SettleBroken, SettleTemporary, SettleRejected, StillSending
  <2>3. AnnouncedQuiet
    BY <1>0, <2>1, <2>2 DEF AnnouncedQuiet
  <2>4. QED
    BY <2>3, AnnouncedQuietStep
<1>12. ASSUME NEW w \in Worker, CheckBroken(w) PROVE AnnouncedInv'
  <2>1. PICK t \in Task : t = checking[w] /\ status[t] = "MONITORING"
    BY <1>0, <1>12 DEF CheckBroken, FinishCheck
  <2>2. CASE UNCHANGED <<status, note>>
    BY <1>1, <2>2
  <2>3. CASE /\ status' = [status EXCEPT ![t] = "ERROR"]
             /\ CreateNotes({Alert(t)})
    <3>1. OpeningOK(t) /\ OtherMailsOK(t)
      BY <2>1 DEF AnnouncedInv
    <3>2. /\ status'[t] = "ERROR" /\ note'[Alert(t)] # "ABSENT"
          /\ note'[Opening(t)] = note[Opening(t)]
          /\ note'[Expiry(t)] = note[Expiry(t)]
      BY <1>0, <2>1, <2>3 DEF CreateNotes
    <3>3. OpeningOK(t)' /\ OtherMailsOK(t)'
      BY <2>1, <3>1, <3>2 DEF OpeningOK, OtherMailsOK
    <3>4. \A s \in Task \ {t} :
            /\ status'[s] = status[s] /\ note'[Opening(s)] = note[Opening(s)]
            /\ note'[Expiry(s)] = note[Expiry(s)] /\ note'[Alert(s)] = note[Alert(s)]
      BY <1>0, <2>1, <2>3 DEF CreateNotes
    <3>. QED  BY <2>1, <3>3, <3>4, OneTaskAnnounced
  <2>4. QED
    BY <1>12, <2>1, <2>2, <2>3 DEF CheckBroken
<1>13. ASSUME NEW w \in Worker, CheckOpened(w) PROVE AnnouncedInv'
  <2>1. PICK t \in Task : t = checking[w] /\ status[t] = "MONITORING"
    BY <1>0, <1>13 DEF CheckOpened, FinishCheck
  <2>2. OpeningOK(t) /\ OtherMailsOK(t)
    BY <2>1 DEF AnnouncedInv
  <2>3. /\ status' = [status EXCEPT ![t] = "DETECTED"]
        /\ CreateNotes({Opening(t)})
    BY <1>13, <2>1 DEF CheckOpened
  <2>4. /\ status'[t] = "DETECTED" /\ note'[Opening(t)] = "PENDING"
        /\ note'[Expiry(t)] = note[Expiry(t)]
    BY <1>0, <2>1, <2>2, <2>3 DEF CreateNotes, OpeningOK
  <2>5. OpeningOK(t)' /\ OtherMailsOK(t)'
    BY <2>1, <2>2, <2>4 DEF OpeningOK, OtherMailsOK
  <2>6. \A s \in Task \ {t} :
          /\ status'[s] = status[s] /\ note'[Opening(s)] = note[Opening(s)]
          /\ note'[Expiry(s)] = note[Expiry(s)] /\ note'[Alert(s)] = note[Alert(s)]
    BY <1>0, <2>1, <2>3 DEF CreateNotes
  <2>. QED  BY <2>1, <2>5, <2>6, OneTaskAnnounced
<1>14. ASSUME NEW t \in Task,
              AdmitTask(t) \/ RunNow(t) \/ LeaseLapses(t) \/ CheckFallsDue(t) \/ DatePasses(t)
       PROVE  AnnouncedInv'
  BY <1>1, <1>14 DEF AdmitTask, RunNow, LeaseLapses, CheckFallsDue, DatePasses
<1>15. ASSUME NEW w \in Worker,
              \/ Dispatch(w) \/ SendMail(w) \/ ClaimTask(w) \/ DieOfStaleClaim(w) \/ ReadTask(w)
              \/ CheckUnopened(w) \/ Crash(w)
       PROVE  AnnouncedInv'
  BY <1>1, <1>15 DEF Dispatch, SendMail, ClaimTask, Claim, ClaimNone, DieOfStaleClaim, ReadTask,
     CheckUnopened, Crash
<1>16. ASSUME \/ EditSettings \/ AttestMail \/ UNCHANGED vars
              \/ \E n \in Note : RetryFallsDue(n)
       PROVE  AnnouncedInv'
  BY <1>1, <1>16 DEF EditSettings, AttestMail, RetryFallsDue, vars
<1>17. QED
  BY <1>3, <1>4, <1>5, <1>6, <1>7, <1>8, <1>9, <1>10, <1>11, <1>12, <1>13, <1>14, <1>15, <1>16
     DEF Next, WebStep, WorkerStep, MailStep, CheckStep, TimePasses

LEMMA AnnouncedAlways == Spec => [](TypeInv /\ AnnouncedInv)
<1>1. Init => TypeInv /\ AnnouncedInv
  BY InitTyped, NoteParts DEF Init, AnnouncedInv, OpeningOK, OtherMailsOK
<1>2. TypeInv /\ AnnouncedInv /\ [Next]_vars => TypeInv' /\ AnnouncedInv'
  BY TypeStep, AnnouncedStep
<1>3. QED
  BY <1>1, <1>2, PTL DEF Spec

\* An opening mail that waits or is being sent belongs to a detected task:
\* cancellation, expiry and late results never strand one.
THEOREM LiveOpeningDetected == Spec => []LiveOpeningMeansDetected
<1>1. TypeInv /\ AnnouncedInv => LiveOpeningMeansDetected
  BY DEF TypeInv, TypeOK, TaskStatus, AnnouncedInv, OpeningOK, LiveOpeningMeansDetected
<1>2. QED
  BY <1>1, AnnouncedAlways, PTL

\* A task is COMPLETED exactly if its opening mail is recorded as sent, whatever
\* second workers, restarts and users do between the mail and its recording.
THEOREM CompletedMeansSent == Spec => []CompletedIffOpeningSent
<1>1. AnnouncedInv => CompletedIffOpeningSent
  BY DEF AnnouncedInv, OpeningOK, CompletedIffOpeningSent
<1>2. QED
  BY <1>1, AnnouncedAlways, PTL

\* Detection, expiry and the stop after errors create their mail in the same
\* transaction.
THEOREM OutcomeAnnounced == Spec => []OutcomeIsAnnounced
<1>1. AnnouncedInv => OutcomeIsAnnounced
  BY DEF AnnouncedInv, OpeningOK, OtherMailsOK, OutcomeIsAnnounced
<1>2. QED
  BY <1>1, AnnouncedAlways, PTL

-----------------------------------------------------------------------------
(* What the provider was given.  Only mails of existing rows are sent, and  *)
(* a task has no rows of both kinds.                                        *)

GivenInv ==
    /\ \A w \in Worker : pc[w] \in {"deliver", "send", "settle"} => note[sending[w]] # "ABSENT"
    /\ \A n \in Note : accepted[n] > 0 => note[n] # "ABSENT"

\* No notification row ever disappears.
LEMMA NotesStay ==
    TypeInv /\ [Next]_vars => \A n \in Note : note[n] # "ABSENT" => note'[n] # "ABSENT"
<1> SUFFICES ASSUME TypeInv, [Next]_vars, NEW n \in Note, note[n] # "ABSENT"
             PROVE  note'[n] # "ABSENT"
    OBVIOUS
<1> USE DEF noteVars, SetNote
<1>0. note \in [Note -> NoteStatus]
  BY DEF TypeInv, TypeOK
<1>1. ASSUME UNCHANGED note PROVE note'[n] # "ABSENT"
  BY <1>1
<1>2. ASSUME NEW t \in Task, CancelTask(t) PROVE note'[n] # "ABSENT"
  BY <1>0, <1>2 DEF CancelTask
<1>3. ASSUME NEW w \in Worker, Boot(w) \/ ExpireDue(w) PROVE note'[n] # "ABSENT"
  BY <1>0, <1>3 DEF Boot, AfterRestart, ExpireDue
<1>4. ASSUME NEW w \in Worker,
             \/ StartDelivery(w) \/ ParkUnverified(w) \/ SettleQueued(w) \/ SettleUncertain(w)
             \/ SettleBroken(w) \/ SettleTemporary(w) \/ SettleRejected(w)
      PROVE  note'[n] # "ABSENT"
  BY <1>0, <1>4 DEF StartDelivery, ParkUnverified, SettleQueued, SettleUncertain, SettleBroken,
     SettleTemporary, SettleRejected
<1>5. ASSUME NEW w \in Worker, CheckBroken(w) \/ CheckOpened(w) PROVE note'[n] # "ABSENT"
  BY <1>0, <1>5 DEF CheckBroken, CheckOpened, CreateNotes
<1>6. ASSUME NEW t \in Task,
             \/ AdmitTask(t) \/ CreateTask(t) \/ PauseTask(t) \/ ResumeTask(t) \/ RunNow(t)
             \/ LeaseLapses(t) \/ CheckFallsDue(t) \/ DatePasses(t)
      PROVE  note'[n] # "ABSENT"
  BY <1>1, <1>6 DEF AdmitTask, CreateTask, PauseTask, ResumeTask, RunNow, LeaseLapses,
     CheckFallsDue, DatePasses
<1>7. ASSUME NEW w \in Worker,
             \/ Dispatch(w) \/ SendMail(w) \/ ClaimTask(w) \/ DieOfStaleClaim(w) \/ ReadTask(w)
             \/ CheckUnopened(w) \/ Crash(w)
      PROVE  note'[n] # "ABSENT"
  BY <1>1, <1>7 DEF Dispatch, SendMail, ClaimTask, Claim, ClaimNone, DieOfStaleClaim, ReadTask,
     CheckUnopened, Crash
<1>8. ASSUME \/ EditSettings \/ AttestMail \/ UNCHANGED vars
             \/ \E u \in User : ToggleUser(u)
             \/ \E m \in Note : RetryFallsDue(m)
      PROVE  note'[n] # "ABSENT"
  BY <1>1, <1>8 DEF EditSettings, AttestMail, ToggleUser, RetryFallsDue, vars
<1>9. QED
  BY <1>2, <1>3, <1>4, <1>5, <1>6, <1>7, <1>8
     DEF Next, WebStep, WorkerStep, MailStep, CheckStep, TimePasses

LEMMA GivenStep == TypeInv /\ GivenInv /\ [Next]_vars => GivenInv'
<1> SUFFICES ASSUME TypeInv, GivenInv, [Next]_vars PROVE GivenInv'
    OBVIOUS
<1> DEFINE Busy(w) == pc[w] \in {"deliver", "send", "settle"}
<1>0. /\ \A n \in Note : note[n] # "ABSENT" => note'[n] # "ABSENT"
      /\ \A w \in Worker : Busy(w) => sending[w] \in Note
      /\ pc \in [Worker -> Stage] /\ sending \in [Worker -> Note \cup {NoNote}]
      /\ accepted \in [Note -> Nat]
  BY NotesStay DEF TypeInv, TypeOK, MemoryOK
<1>1. ASSUME UNCHANGED accepted,
             \A w \in Worker : pc'[w] \in {"deliver", "send", "settle"}
                                  => Busy(w) /\ sending'[w] = sending[w]
      PROVE  GivenInv'
  BY <1>0, <1>1 DEF GivenInv
<1>2. ASSUME NEW w \in Worker, Dispatch(w) PROVE GivenInv'
  <2>1. CASE /\ pc' = [pc EXCEPT ![w] = "deliver"]
             /\ \E n \in Note : Deliverable(n) /\ sending' = [sending EXCEPT ![w] = n]
    BY <1>0, <1>2, <2>1 DEF Dispatch, noteVars, Deliverable, GivenInv
  <2>2. CASE pc' = [pc EXCEPT ![w] = "claim"] /\ UNCHANGED sending
    BY <1>0, <1>1, <1>2, <2>2 DEF Dispatch
  <2>3. QED
    BY <1>2, <2>1, <2>2 DEF Dispatch, Oldest, Goto
<1>3. ASSUME NEW w \in Worker, StartDelivery(w) PROVE GivenInv'
  BY <1>0, <1>1, <1>3 DEF StartDelivery, Goto
<1>4. ASSUME NEW w \in Worker, SendMail(w) PROVE GivenInv'
  <2>1. /\ sending[w] \in Note /\ note[sending[w]] # "ABSENT"
        /\ pc' = [pc EXCEPT ![w] = "settle"] /\ UNCHANGED <<note, sending>>
        /\ \E k \in 0..1 : accepted' = [accepted EXCEPT ![sending[w]] = @ + k]
    BY <1>0, <1>4 DEF SendMail, Goto, noteVars, GivenInv
  <2>2. \A n \in Note : accepted'[n] = accepted[n] \/ n = sending[w]
    BY <1>0, <2>1
  <2>3. \A n \in Note : accepted'[n] > 0 => note'[n] # "ABSENT"
    BY <2>1, <2>2 DEF GivenInv
  <2>4. \A v \in Worker : pc'[v] \in {"deliver", "send", "settle"} => Busy(v)
    BY <1>0, <1>4, <2>1 DEF SendMail
  <2>5. QED
    BY <2>1, <2>3, <2>4 DEF GivenInv
<1>5. ASSUME NEW w \in Worker,
             \/ Boot(w) \/ ExpireDue(w) \/ ParkUnverified(w) \/ Crash(w)
             \/ SettleQueued(w) \/ SettleUncertain(w)
             \/ SettleBroken(w) \/ SettleTemporary(w) \/ SettleRejected(w)
      PROVE  GivenInv'
  <2>1. /\ UNCHANGED accepted
        /\ \E s \in {"expire", "dispatch", "claim", "down"} : pc' = [pc EXCEPT ![w] = s]
        /\ \A v \in Worker \ {w} : sending'[v] = sending[v]
    BY <1>0, <1>5 DEF Boot, ExpireDue, ParkUnverified, Crash, SettleQueued, SettleUncertain,
       SettleBroken, SettleTemporary, SettleRejected, Settle, Goto, memoryVars
  <2>2. QED
    BY <1>0, <1>1, <2>1
<1>6. ASSUME NEW w \in Worker, CheckStep(w) PROVE GivenInv'
  <2>1. /\ UNCHANGED <<accepted, sending>>
        /\ \E s \in {"read", "check", "expire", "down"} : pc' = [pc EXCEPT ![w] = s]
    BY <1>6 DEF CheckStep, ClaimTask, Claim, ClaimNone, DieOfStaleClaim, ReadTask, CheckBroken, CheckUnopened,
       CheckOpened, FinishCheck, EndCheck, Goto, memoryVars, EndCheck
  <2>2. QED
    BY <1>0, <1>1, <2>1
<1>7. ASSUME WebStep \/ AttestMail \/ TimePasses \/ UNCHANGED vars PROVE GivenInv'
  <2>1. UNCHANGED <<accepted, sending, pc>>
    BY <1>7 DEF WebStep, AdmitTask, CreateTask, PauseTask, ResumeTask, CancelTask, RunNow,
       EditSettings, ToggleUser, AttestMail, TimePasses, LeaseLapses, CheckFallsDue, DatePasses,
       RetryFallsDue, memoryVars, vars
  <2>2. QED
    BY <1>1, <2>1
<1>8. QED
  BY <1>2, <1>3, <1>4, <1>5, <1>6, <1>7 DEF Next, WorkerStep, MailStep

\* No owner is told both that tickets are on sale and that the date passed
\* without them, whatever the mail CLI's answers hide.
THEOREM NoContradiction == Spec => []NoContradictoryMails
<1>1. Init => TypeInv /\ GivenInv
  BY InitTyped DEF Init, GivenInv
<1>2. TypeInv /\ GivenInv /\ [Next]_vars => TypeInv' /\ GivenInv'
  BY TypeStep, GivenStep
<1>3. GivenInv /\ AnnouncedInv => NoContradictoryMails
  BY NoteParts DEF GivenInv, AnnouncedInv, OpeningOK, OtherMailsOK, NoContradictoryMails
<1>4. QED
  BY <1>1, <1>2, <1>3, AnnouncedAlways, PTL DEF Spec

-----------------------------------------------------------------------------
(* One unfinished task per target.                                         *)

\* A step after which no further task is unfinished.
FewerUnfinished == \A t \in Task : status'[t] \in Unfinished => status[t] \in Unfinished

LEMMA FewerUnfinishedStep == OneUnfinishedPerTarget /\ FewerUnfinished => OneUnfinishedPerTarget'
BY DEF OneUnfinishedPerTarget, FewerUnfinished, UnfinishedOf

LEMMA InsertStep ==
    ASSUME TypeInv, OneUnfinishedPerTarget, NEW t \in Task, MayInsert(t),
           status' = [status EXCEPT ![t] = "MONITORING"]
    PROVE  OneUnfinishedPerTarget'
<1> SUFFICES ASSUME NEW u \in User, NEW r \in Task, NEW s \in Task,
                    OwnerOf[r] = u, OwnerOf[s] = u, TargetOf[r] = TargetOf[s],
                    status'[r] \in Unfinished, status'[s] \in Unfinished
             PROVE  r = s
    BY DEF OneUnfinishedPerTarget, UnfinishedOf
<1>1. /\ r # t => status[r] \in Unfinished
      /\ s # t => status[s] \in Unfinished
  BY DEF TypeInv, TypeOK
<1>2. \A q \in Task : status[q] \in Unfinished /\ OwnerOf[q] = OwnerOf[t] => TargetOf[q] # TargetOf[t]
  BY DEF MayInsert, UnfinishedOf
<1>3. CASE r # t /\ s # t
  BY <1>1, <1>3 DEF OneUnfinishedPerTarget, UnfinishedOf
<1>4. CASE r = t \/ s = t
  BY <1>1, <1>2, <1>4
<1>5. QED
  BY <1>3, <1>4

LEMMA OneUnfinishedStep ==
    TypeInv /\ OneUnfinishedPerTarget /\ [Next]_vars => OneUnfinishedPerTarget'
<1> SUFFICES ASSUME TypeInv, OneUnfinishedPerTarget, [Next]_vars PROVE OneUnfinishedPerTarget'
    OBVIOUS
<1> USE DEF taskVars
<1>0. /\ status \in [Task -> TaskStatus]
      /\ \A w \in Worker : /\ pc[w] \in {"read", "check"} => checking[w] \in Task
                           /\ pc[w] = "settle" => sending[w][1] \in Task
  BY NoteParts DEF TypeInv, TypeOK, MemoryOK
<1>1. ASSUME NEW t \in Task, CreateTask(t) PROVE OneUnfinishedPerTarget'
  BY <1>1, InsertStep, FewerUnfinishedStep DEF CreateTask, FewerUnfinished
<1>2. ASSUME FewerUnfinished PROVE OneUnfinishedPerTarget'
  BY <1>2, FewerUnfinishedStep
<1>3. ASSUME NEW t \in Task,
             \/ AdmitTask(t) \/ PauseTask(t) \/ ResumeTask(t) \/ CancelTask(t) \/ RunNow(t)
             \/ LeaseLapses(t) \/ CheckFallsDue(t) \/ DatePasses(t)
      PROVE  FewerUnfinished
  BY <1>0, <1>3 DEF AdmitTask, PauseTask, ResumeTask, CancelTask, RunNow, LeaseLapses,
     CheckFallsDue, DatePasses, FewerUnfinished, Unfinished
<1>4. ASSUME NEW u \in User, ToggleUser(u) PROVE FewerUnfinished
  BY <1>0, <1>4 DEF ToggleUser, FewerUnfinished, Unfinished
<1>5. ASSUME NEW w \in Worker, ExpireDue(w) PROVE FewerUnfinished
  BY <1>0, <1>5 DEF ExpireDue, FewerUnfinished, Unfinished
<1>6. ASSUME NEW w \in Worker, SettleQueued(w) PROVE FewerUnfinished
  BY <1>0, <1>6 DEF SettleQueued, Settle, FewerUnfinished, Unfinished
<1>7. ASSUME NEW w \in Worker, CheckBroken(w) \/ CheckUnopened(w) \/ CheckOpened(w)
      PROVE  FewerUnfinished
  BY <1>0, <1>7 DEF CheckBroken, CheckUnopened, CheckOpened, FinishCheck, FewerUnfinished, Unfinished
<1>8. ASSUME NEW w \in Worker,
             \/ Boot(w) \/ Dispatch(w) \/ StartDelivery(w) \/ ParkUnverified(w) \/ SendMail(w)
             \/ SettleUncertain(w) \/ SettleBroken(w) \/ SettleTemporary(w) \/ SettleRejected(w)
             \/ ClaimTask(w) \/ DieOfStaleClaim(w) \/ ReadTask(w) \/ Crash(w)
      PROVE  FewerUnfinished
  BY <1>8 DEF Boot, Dispatch, StartDelivery, ParkUnverified, SendMail, SettleUncertain,
     SettleBroken, SettleTemporary, SettleRejected, ClaimTask, Claim, ClaimNone, DieOfStaleClaim, ReadTask, Crash,
     FewerUnfinished
<1>9. ASSUME \/ EditSettings \/ AttestMail \/ UNCHANGED vars
             \/ \E n \in Note : RetryFallsDue(n)
      PROVE  FewerUnfinished
  BY <1>9 DEF EditSettings, AttestMail, RetryFallsDue, vars, FewerUnfinished
<1>10. QED
  BY <1>1, <1>2, <1>3, <1>4, <1>5, <1>6, <1>7, <1>8, <1>9
     DEF Next, WebStep, WorkerStep, MailStep, CheckStep, TimePasses

\* No account has two unfinished tasks for one target, in whatever order tasks
\* are created, paused, failed and resumed: the constraint on the target
\* outlives pauses and errors, so a resumption can never collide.
THEOREM OneUnfinished == Spec => []OneUnfinishedPerTarget
<1>1. Init => TypeInv /\ OneUnfinishedPerTarget
  BY InitTyped DEF Init, OneUnfinishedPerTarget, UnfinishedOf, Unfinished
<1>2. TypeInv /\ OneUnfinishedPerTarget /\ [Next]_vars => TypeInv' /\ OneUnfinishedPerTarget'
  BY TypeStep, OneUnfinishedStep
<1>3. QED
  BY <1>1, <1>2, PTL DEF Spec

-----------------------------------------------------------------------------
(* Overtaken checks.  The token of a worker that was overtaken is no longer *)
(* on the row: what overtakes it removes the token or replaces it.          *)

OvertakenInv ==
    \A w \in Worker : pc[w] \in {"read", "check"} /\ overtaken[w] => ~ClaimMatches(w)

\* A step that takes claims away from the tasks of S.
Releases(S) ==
    /\ ReleaseClaims(S) /\ Overtake(S)
    /\ UNCHANGED checking

LEMMA ReleasesStep ==
    ASSUME TypeInv, OvertakenInv, NEW S, Releases(S),
           \A w \in Worker : pc'[w] \in {"read", "check"} => pc[w] = pc'[w]
    PROVE  OvertakenInv'
<1> SUFFICES ASSUME NEW w \in Worker, pc'[w] \in {"read", "check"}, overtaken'[w]
             PROVE  claim'[checking[w]] # w
    BY DEF OvertakenInv, ClaimMatches, Releases
<1>1. checking[w] \in Task /\ pc[w] \in {"read", "check"}
  BY DEF TypeInv, MemoryOK
<1>2. CASE checking[w] \in S
  BY <1>1, <1>2, NullsAreFresh DEF Releases, ReleaseClaims
<1>3. CASE checking[w] \notin S
  <2>1. overtaken[w] /\ claim'[checking[w]] = claim[checking[w]]
    BY <1>1, <1>3 DEF Releases, ReleaseClaims, Overtake
  <2>2. QED
    BY <1>1, <2>1 DEF OvertakenInv, ClaimMatches
<1>4. QED
  BY <1>2, <1>3

LEMMA OvertakenStep == TypeInv /\ OvertakenInv /\ [Next]_vars => OvertakenInv'
<1> SUFFICES ASSUME TypeInv, OvertakenInv, [Next]_vars PROVE OvertakenInv'
    OBVIOUS
<1> USE DEF taskVars, memoryVars, Goto
<1>0. /\ pc \in [Worker -> Stage] /\ claim \in [Task -> Worker \cup {NoWorker}]
      /\ checking \in [Worker -> Task \cup {NoTask}] /\ overtaken \in [Worker -> BOOLEAN]
      /\ \A w \in Worker : pc[w] \in {"read", "check"} => checking[w] \in Task
  BY DEF TypeInv, TypeOK, MemoryOK
<1>1. ASSUME NEW t \in Task, PauseTask(t) \/ ResumeTask(t) \/ CancelTask(t) PROVE OvertakenInv'
  <2>1. Releases({t}) /\ UNCHANGED pc
    BY <1>1 DEF PauseTask, ResumeTask, CancelTask, Releases
  <2>2. QED
    BY <2>1, ReleasesStep
<1>2. ASSUME NEW u \in User, ToggleUser(u) PROVE OvertakenInv'
  <2>1. (\E S : Releases(S)) /\ UNCHANGED pc
    BY <1>2, Zenon DEF ToggleUser, Releases
  <2>2. QED
    BY <2>1, ReleasesStep
<1>3. ASSUME NEW w \in Worker, ExpireDue(w) PROVE OvertakenInv'
  <2>1. (\E S : Releases(S)) /\ pc' = [pc EXCEPT ![w] = "dispatch"]
    BY <1>3, Zenon DEF ExpireDue, Releases
  <2>2. \A v \in Worker : pc'[v] \in {"read", "check"} => pc[v] = pc'[v]
    BY <1>0, <2>1
  <2>3. QED
    BY <2>1, <2>2, ReleasesStep
<1>4. ASSUME NEW w \in Worker, ClaimTask(w) PROVE OvertakenInv'
  <2>1. CASE /\ pc' = [pc EXCEPT ![w] = "expire"]
             /\ UNCHANGED <<claim, checking, overtaken>>
    BY <1>0, <2>1 DEF OvertakenInv, ClaimMatches
  <2>2. ASSUME NEW t \in Task,
               claim' = [claim EXCEPT ![t] = w],
               checking' = [checking EXCEPT ![w] = t],
               overtaken' = [v \in Worker |-> v # w /\ (overtaken[v] \/ checking[v] = t)],
               pc' = [pc EXCEPT ![w] = "read"]
        PROVE  OvertakenInv'
    <3>1. SUFFICES ASSUME NEW v \in Worker, pc'[v] \in {"read", "check"}, overtaken'[v]
                   PROVE  claim'[checking'[v]] # v
      BY DEF OvertakenInv, ClaimMatches
    <3>2. v # w /\ pc[v] \in {"read", "check"} /\ checking'[v] = checking[v] /\ checking[v] \in Task
      BY <1>0, <2>2, <3>1
    <3>3. CASE checking[v] = t
      BY <1>0, <2>2, <3>2, <3>3
    <3>4. CASE checking[v] # t
      BY <1>0, <2>2, <3>1, <3>2, <3>4 DEF OvertakenInv, ClaimMatches
    <3>5. QED
      BY <3>3, <3>4
  <2>3. QED
    BY <1>4, <2>1, <2>2, Zenon DEF ClaimTask, Claim, ClaimNone, Goto
<1>5. ASSUME NEW w \in Worker,
             DieOfStaleClaim(w) \/ CheckBroken(w) \/ CheckUnopened(w) \/ CheckOpened(w) \/ Crash(w)
      PROVE  OvertakenInv'
  <2>1. /\ \E s \in {"expire", "down"} : pc' = [pc EXCEPT ![w] = s]
        /\ checking' = [checking EXCEPT ![w] = NoTask]
        /\ overtaken' = [overtaken EXCEPT ![w] = FALSE]
    BY <1>5 DEF DieOfStaleClaim, CheckBroken, CheckUnopened, CheckOpened, FinishCheck, EndCheck, Crash
  <2>2. UNCHANGED claim \/ ReleaseClaims({checking[w]})
    BY <1>5 DEF DieOfStaleClaim, CheckBroken, CheckUnopened, CheckOpened, FinishCheck, Crash
  <2>3. \A t \in Task : claim'[t] \in {claim[t], NoWorker}
    BY <1>0, <2>2 DEF ReleaseClaims
  <2>4. QED
    BY <1>0, <2>1, <2>3, NullsAreFresh DEF OvertakenInv, ClaimMatches
<1>6. ASSUME UNCHANGED <<claim, checking, overtaken>>,
             \A w \in Worker : pc'[w] \in {"read", "check"} => pc[w] \in {"read", "check"}
      PROVE  OvertakenInv'
  BY <1>6 DEF OvertakenInv, ClaimMatches
<1>7. ASSUME NEW w \in Worker, Boot(w) \/ MailStep(w) \/ ReadTask(w) PROVE OvertakenInv'
  <2>1. /\ UNCHANGED <<claim, checking, overtaken>>
        /\ \/ \E s \in Stage \ {"read", "check"} : pc' = [pc EXCEPT ![w] = s]
           \/ pc[w] = "read" /\ pc' = [pc EXCEPT ![w] = "check"]
    BY <1>7 DEF Boot, MailStep, Dispatch, StartDelivery, ParkUnverified, SendMail, SettleQueued,
       SettleUncertain, SettleBroken, SettleTemporary, SettleRejected, Settle, ReadTask, Stage
  <2>2. QED
    BY <1>0, <1>6, <2>1
<1>8. ASSUME \/ \E t \in Task : AdmitTask(t) \/ CreateTask(t) \/ RunNow(t)
             \/ EditSettings \/ AttestMail \/ TimePasses \/ UNCHANGED vars
      PROVE  OvertakenInv'
  <2>1. UNCHANGED <<claim, checking, overtaken, pc>>
    BY <1>8 DEF AdmitTask, CreateTask, RunNow, EditSettings, AttestMail, TimePasses, LeaseLapses,
       CheckFallsDue, DatePasses, RetryFallsDue, vars
  <2>2. QED
    BY <1>6, <2>1
<1>9. QED
  BY <1>1, <1>2, <1>3, <1>4, <1>5, <1>7, <1>8 DEF Next, WebStep, WorkerStep, CheckStep

\* What a step may do to a worker that is about to close its check.
LEMMA CheckEnds ==
    ASSUME TypeInv, [Next]_vars, NEW w \in Worker, pc[w] = "check", pc'[w] # pc[w]
    PROVE  ClaimMatches(w) \/ UNCHANGED <<taskVars, noteVars>>
<1> USE DEF Goto
<1>0. pc \in [Worker -> Stage]
  BY DEF TypeInv, TypeOK
<1>1. CASE WebStep \/ AttestMail \/ TimePasses \/ UNCHANGED vars
  <2>1. UNCHANGED pc
    BY <1>1 DEF WebStep, AdmitTask, CreateTask, PauseTask, ResumeTask, CancelTask, RunNow,
       EditSettings, ToggleUser, AttestMail, TimePasses, LeaseLapses, CheckFallsDue, DatePasses,
       RetryFallsDue, vars
  <2>2. QED
    BY <2>1
<1>2. ASSUME NEW v \in Worker, Boot(v) \/ ExpireDue(v) \/ MailStep(v)
      PROVE  FALSE
  <2>1. pc[v] # "check" /\ \E s \in Stage : pc' = [pc EXCEPT ![v] = s]
    BY <1>2 DEF Boot, ExpireDue, MailStep, Dispatch, StartDelivery, ParkUnverified, SendMail,
       SettleQueued, SettleUncertain, SettleBroken, SettleTemporary, SettleRejected, Settle, Stage
  <2>2. QED
    BY <1>0, <2>1
<1>3. ASSUME NEW v \in Worker, CheckStep(v) \/ Crash(v)
      PROVE  ClaimMatches(w) \/ UNCHANGED <<taskVars, noteVars>>
  <2>1. v = w
    BY <1>0, <1>3 DEF CheckStep, ClaimTask, Claim, ClaimNone, DieOfStaleClaim, ReadTask,
       CheckBroken, CheckUnopened,
       CheckOpened, FinishCheck, EndCheck, Crash
  <2>2. QED
    BY <1>3, <2>1 DEF CheckStep, ClaimTask, Claim, ClaimNone, DieOfStaleClaim, ReadTask,
       CheckBroken, CheckUnopened,
       CheckOpened, FinishCheck, Crash
<1>4. QED
  BY <1>1, <1>2, <1>3 DEF Next, WorkerStep

\* A check that was overtaken changes nothing when it ends, for any number of
\* workers: whoever pauses, resumes, cancels, expires or claims its task takes
\* the token away, and the closing transaction compares it.
THEOREM OvertakenDiscarded == Spec => OvertakenCheckIsDiscarded
<1>1. Init => TypeInv /\ OvertakenInv
  BY InitTyped DEF Init, OvertakenInv
<1>2. TypeInv /\ OvertakenInv /\ [Next]_vars => TypeInv' /\ OvertakenInv'
  BY TypeStep, OvertakenStep
<1>3. TypeInv /\ OvertakenInv /\ [Next]_vars
      => [\A w \in Worker : pc[w] = "check" /\ overtaken[w] /\ pc'[w] # pc[w]
             => UNCHANGED <<taskVars, noteVars>>]_vars
  BY CheckEnds DEF OvertakenInv
<1>4. QED
  BY <1>1, <1>2, <1>3, PTL DEF Spec, OvertakenCheckIsDiscarded
=============================================================================
