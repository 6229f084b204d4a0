---------------------------- MODULE PromiseProofs ----------------------------
(***************************************************************************)
(* One worker keeps the promise made to the owners, for any number of      *)
(* tasks, accounts and limits: TaskLifecycle implements OwnerPromise.      *)
(*                                                                         *)
(* That there is one worker matters: it alone writes NEEDS_REVIEW into a   *)
(* notification that is SENDING when it starts, so that none is taken from *)
(* it while it talks to the provider.                                      *)
(***************************************************************************)
EXTENDS PromiseKept, TaskRowProofs

OneWorker == \A v, w \in Worker : v = w

\* The contract of the mail CLI: what it reports as a definite failure was not
\* accepted.
FailuresAreDefinite == MayBeAccepted \subseteq {"queued", "uncertain"}

-----------------------------------------------------------------------------
(* What the worker knows while it delivers.                                *)

\* Its notification stays SENDING, and is accepted when the CLI says so.
DeliveryInv ==
    \A w \in Worker :
        Delivers(w) => /\ note[sending[w]] = "SENDING"
                       /\ pc[w] = "settle" /\ outcome[w] = "queued" => accepted[sending[w]] = 1

\* Steps of others, and of the worker when it does not deliver afterwards.
LEMMA DeliveryKept ==
    ASSUME TypeInv, DeliveryInv, UNCHANGED accepted,
           \A w \in Worker : Delivers(w)' => /\ Delivers(w) /\ sending'[w] = sending[w]
                                             /\ pc'[w] = pc[w] /\ outcome'[w] = outcome[w],
           (\E w \in Worker : Delivers(w)') =>
               \A n \in Note : note[n] = "SENDING" => note'[n] = "SENDING"
    PROVE  DeliveryInv'
  BY DEF DeliveryInv, Delivers, TypeInv, MemoryOK

LEMMA DeliveryStep ==
    ASSUME OneWorker, TypeInv, MailInv, DeliveryInv, [Next]_vars
    PROVE  DeliveryInv'
<1> USE DEF taskVars, noteVars, memoryVars, SetNote, Goto
<1>0. /\ pc \in [Worker -> Stage] /\ note \in [Note -> NoteStatus]
      /\ sending \in [Worker -> Note \cup {NoNote}]
      /\ outcome \in [Worker -> Outcome \cup {"none"}] /\ accepted \in [Note -> Nat]
      /\ \A w \in Worker : pc[w] \in {"deliver", "send", "settle"} => sending[w] \in Note
  BY DEF TypeInv, TypeOK, MemoryOK
<1>1. CASE WebStep \/ AttestMail \/ TimePasses \/ UNCHANGED vars
  <2>1. UNCHANGED <<pc, sending, outcome, accepted>>
    BY <1>1 DEF WebStep, AdmitTask, CreateTask, PauseTask, ResumeTask, CancelTask, RunNow,
       EditSettings, ToggleUser, AttestMail, TimePasses, LeaseLapses, CheckFallsDue, DatePasses,
       RetryFallsDue, vars
  <2>2. \A n \in Note : note[n] = "SENDING" => note'[n] = "SENDING"
    <3>1. ASSUME NEW t \in Task, CancelTask(t)
          PROVE  \A n \in Note : note[n] = "SENDING" => note'[n] = "SENDING"
      BY <1>0, <3>1, NoteParts DEF CancelTask
    <3>2. CASE UNCHANGED note
      BY <3>2
    <3>. QED
      BY <1>1, <3>1, <3>2
      DEF WebStep, AdmitTask, CreateTask, PauseTask, ResumeTask, RunNow, EditSettings,
          ToggleUser, AttestMail, TimePasses, LeaseLapses, CheckFallsDue, DatePasses,
          RetryFallsDue, vars
  <2>. QED  BY <2>1, <2>2, DeliveryKept DEF Delivers
<1>2. ASSUME NEW w \in Worker, StartDelivery(w) PROVE DeliveryInv'
  <2>1. CASE pc' = [pc EXCEPT ![w] = "claim"]
    <3>1. \A v \in Worker : v = w
      BY DEF OneWorker
    <3>2. ~Delivers(w)'
      BY <1>0, <2>1 DEF Delivers
    <3>. QED  BY <3>1, <3>2 DEF DeliveryInv
  <2>2. CASE /\ pc' = [pc EXCEPT ![w] = "send"]
             /\ note' = [note EXCEPT ![sending[w]] = "SENDING"]
    <3>1. sending[w] \in Note /\ sending'[w] = sending[w]
      BY <1>0, <1>2, <2>2 DEF StartDelivery
    <3>2. note'[sending'[w]] = "SENDING" /\ pc'[w] = "send"
      BY <1>0, <2>2, <3>1
    <3>3. \A v \in Worker : v = w
      BY DEF OneWorker
    <3>. QED  BY <3>2, <3>3 DEF DeliveryInv
  <2>. QED  BY <1>2, <2>1, <2>2 DEF StartDelivery
<1>3. ASSUME NEW w \in Worker, SendMail(w) PROVE DeliveryInv'
  <2>1. PICK o \in Outcome, taken \in 0..1 :
           /\ o = "queued" => taken = 1
           /\ outcome' = [outcome EXCEPT ![w] = o]
           /\ accepted' = [accepted EXCEPT ![sending[w]] = @ + taken]
    BY <1>3 DEF SendMail
  <2>2. /\ pc[w] = "send" /\ sending[w] \in Note /\ note[sending[w]] = "SENDING"
        /\ accepted[sending[w]] = 0 /\ UNCHANGED <<note, sending>>
    BY <1>0, <1>3 DEF SendMail, DeliveryInv, Delivers, MailInv
  <2>3. outcome'[w] = o /\ accepted'[sending[w]] = taken
    BY <1>0, <2>1, <2>2
  <2>4. \A v \in Worker : v = w
    BY DEF OneWorker
  <2>. QED  BY <2>1, <2>2, <2>3, <2>4 DEF DeliveryInv
<1>4. ASSUME NEW w \in Worker,
             \/ Boot(w) \/ ExpireDue(w) \/ Dispatch(w) \/ ParkUnverified(w) \/ SettleQueued(w)
             \/ SettleUncertain(w) \/ SettleBroken(w) \/ SettleTemporary(w) \/ SettleRejected(w)
             \/ CheckStep(w) \/ Crash(w)
      PROVE  DeliveryInv'
  <2>1. \E s \in Stage \ {"send", "settle"} : pc' = [pc EXCEPT ![w] = s]
    BY <1>4 DEF Boot, ExpireDue, Dispatch, ParkUnverified, SettleQueued, SettleUncertain,
       SettleBroken, SettleTemporary, SettleRejected, Settle, CheckStep, ClaimTask, Claim, ClaimNone,
       DieOfStaleClaim, ReadTask, CheckBroken, CheckUnopened, CheckOpened, FinishCheck, EndCheck,
       Crash, Stage
  <2>2. ~Delivers(w)'
    BY <1>0, <2>1 DEF Delivers
  <2>3. \A v \in Worker : v = w
    BY DEF OneWorker
  <2>. QED  BY <2>2, <2>3 DEF DeliveryInv
<1>. QED
  BY <1>1, <1>2, <1>3, <1>4 DEF Next, WorkerStep, MailStep

\* Only existing tasks are announced: none is back at ABSENT, and an alert is
\* made of a monitored one.
AlertInv == \A t \in Task : status[t] = "ABSENT" => note[Alert(t)] = "ABSENT"

LEMMA AlertStep == TypeInv /\ AlertInv /\ [Next]_vars => AlertInv'
<1> SUFFICES ASSUME TypeInv, AlertInv, [Next]_vars, NEW t \in Task, status'[t] = "ABSENT"
             PROVE  note'[Alert(t)] = "ABSENT"
    BY DEF AlertInv
<1> USE NoteParts, NotesDiffer DEF taskVars, noteVars, SetNote
<1>0. /\ status \in [Task -> TaskStatus] /\ note \in [Note -> NoteStatus]
      /\ \A w \in Worker : /\ pc[w] \in {"deliver", "send", "settle"} => sending[w] \in Note
                           /\ pc[w] \in {"read", "check"} => checking[w] \in Task
  BY DEF TypeInv, TypeOK, MemoryOK
<1>1. ASSUME status[t] = "ABSENT", note'[Alert(t)] = note[Alert(t)]
      PROVE  note'[Alert(t)] = "ABSENT"
  BY <1>1 DEF AlertInv
<1>2. CASE UNCHANGED <<status, note>>
  BY <1>1, <1>2
<1>3. ASSUME NEW s \in Task,
             CreateTask(s) \/ PauseTask(s) \/ ResumeTask(s) \/ CancelTask(s)
      PROVE  note'[Alert(t)] = "ABSENT"
  <2>1. status[t] = "ABSENT"
    BY <1>0, <1>3 DEF CreateTask, PauseTask, ResumeTask, CancelTask
  <2>2. UNCHANGED note \/ note' = [note EXCEPT ![Opening(s)] = "PERMANENT_FAILED"]
    BY <1>3 DEF CreateTask, PauseTask, ResumeTask, CancelTask
  <2>3. note'[Alert(t)] = note[Alert(t)]
    BY <1>0, <2>2
  <2>. QED  BY <1>1, <2>1, <2>3
<1>4. ASSUME NEW u \in User, ToggleUser(u) PROVE note'[Alert(t)] = "ABSENT"
  BY <1>0, <1>1, <1>4 DEF ToggleUser
<1>5. ASSUME NEW w \in Worker, Boot(w) PROVE note'[Alert(t)] = "ABSENT"
  BY <1>0, <1>1, <1>5 DEF Boot, AfterRestart, AlertInv
<1>6. ASSUME NEW w \in Worker, ExpireDue(w) PROVE note'[Alert(t)] = "ABSENT"
  <2>1. status[t] = "ABSENT"
    BY <1>0, <1>6 DEF ExpireDue
  <2>2. note'[Alert(t)] = note[Alert(t)]
    <3>1. Alert(t)[2] = "SYSTEM_ALERT"
      BY DEF Alert
    <3>. QED  BY <1>0, <1>6, <3>1 DEF ExpireDue
  <2>. QED  BY <1>1, <2>1, <2>2
<1>7. ASSUME NEW w \in Worker,
             \/ StartDelivery(w) \/ ParkUnverified(w) \/ SettleUncertain(w)
             \/ SettleBroken(w) \/ SettleTemporary(w) \/ SettleRejected(w)
      PROVE  note'[Alert(t)] = "ABSENT"
  <2>1. status[t] = "ABSENT" /\ note[Alert(t)] = "ABSENT" /\ sending[w] \in Note
    BY <1>0, <1>7 DEF StartDelivery, ParkUnverified, SettleUncertain, SettleBroken,
       SettleTemporary, SettleRejected, Settle, AlertInv
  <2>2. UNCHANGED note \/ note[sending[w]] \in {"PENDING", "SENDING"}
    BY <1>7 DEF StartDelivery, ParkUnverified, SettleUncertain, SettleBroken,
       SettleTemporary, SettleRejected, StillSending
  <2>3. UNCHANGED note \/ \E s : note' = [note EXCEPT ![sending[w]] = s]
    BY <1>7 DEF StartDelivery, ParkUnverified, SettleUncertain, SettleBroken,
       SettleTemporary, SettleRejected
  <2>. QED  BY <1>0, <2>1, <2>2, <2>3
<1>8. ASSUME NEW w \in Worker, SettleQueued(w) PROVE note'[Alert(t)] = "ABSENT"
  <2>1. sending[w] \in Note
    BY <1>0, <1>8 DEF SettleQueued, Settle
  <2>2. status[t] = "ABSENT" /\ note[Alert(t)] = "ABSENT"
    BY <1>0, <1>8, <2>1 DEF SettleQueued, AlertInv
  <2>3. \/ UNCHANGED note
        \/ note[sending[w]] = "SENDING" /\ note' = [note EXCEPT ![sending[w]] = "SENT"]
    BY <1>8 DEF SettleQueued, StillSending
  <2>. QED  BY <1>0, <2>1, <2>2, <2>3
<1>9. ASSUME NEW w \in Worker, CheckBroken(w) \/ CheckOpened(w) PROVE note'[Alert(t)] = "ABSENT"
  <2>1. /\ checking[w] \in Task /\ status[checking[w]] = "MONITORING"
        /\ \/ status' = status \/ status' = [status EXCEPT ![checking[w]] = "ERROR"]
           \/ status' = [status EXCEPT ![checking[w]] = "DETECTED"]
    BY <1>0, <1>9 DEF CheckBroken, CheckOpened, FinishCheck
  <2>2. status[t] = "ABSENT" /\ t # checking[w] /\ note[Alert(t)] = "ABSENT"
    BY <1>0, <2>1 DEF AlertInv
  <2>3. \A n \in Note : n # Alert(checking[w]) /\ n # Opening(checking[w]) => note'[n] = note[n]
    BY <1>9 DEF CheckBroken, CheckOpened, CreateNotes
  <2>. QED  BY <2>1, <2>2, <2>3
<1>10. ASSUME NEW w \in Worker,
              \/ Dispatch(w) \/ SendMail(w) \/ ClaimTask(w) \/ DieOfStaleClaim(w) \/ ReadTask(w)
              \/ CheckUnopened(w) \/ Crash(w)
       PROVE  note'[Alert(t)] = "ABSENT"
  BY <1>2, <1>10 DEF Dispatch, SendMail, ClaimTask, Claim, ClaimNone, DieOfStaleClaim, ReadTask,
     CheckUnopened, Crash
<1>11. CASE \/ \E s \in Task : AdmitTask(s) \/ RunNow(s)
            \/ EditSettings \/ AttestMail \/ TimePasses \/ UNCHANGED vars
  BY <1>2, <1>11 DEF AdmitTask, RunNow, EditSettings, AttestMail, TimePasses, LeaseLapses,
     CheckFallsDue, DatePasses, RetryFallsDue, vars
<1>. QED
  BY <1>3, <1>4, <1>5, <1>6, <1>7, <1>8, <1>9, <1>10, <1>11
  DEF Next, WebStep, WorkerStep, MailStep, CheckStep

PromiseInv == TypeInv /\ MailInv /\ AnnouncedInv /\ GivenInv /\ DeliveryInv /\ AlertInv

LEMMA PromiseInvariant ==
    ASSUME OneWorker, FailuresAreDefinite
    PROVE  Spec => []PromiseInv
<1>1. Init => PromiseInv
  BY InitTyped, NoteParts
  DEF Init, PromiseInv, MailInv, Delivers, AnnouncedInv, OpeningOK, OtherMailsOK, GivenInv,
      DeliveryInv, AlertInv
<1>2. PromiseInv /\ [Next]_vars => PromiseInv'
  BY TypeStep, MailInvStep, AnnouncedStep, GivenStep, DeliveryStep, AlertStep
  DEF PromiseInv, FailuresAreDefinite
<1>. QED  BY <1>1, <1>2, PTL DEF Spec

-----------------------------------------------------------------------------
(* Every step maps to a step of the promise, or to a stutter.              *)

LEMMA PhaseValues ==
    /\ PhaseOf("ABSENT") = "none"
    /\ \A s \in {"MONITORING", "PAUSED", "ERROR"} : PhaseOf(s) = "watched"
    /\ PhaseOf("DETECTED") = "found" /\ PhaseOf("COMPLETED") = "told"
    /\ PhaseOf("CANCELLED") = "cancelled" /\ PhaseOf("EXPIRED") = "expired"
  BY DEF PhaseOf

\* The provider takes a mail: for the first time, and at the right time.
LEMMA MailTaken ==
    ASSUME PromiseInv, NEW w \in Worker, SendMail(w), ~ UNCHANGED accepted
    PROVE  /\ sending[w] \in Note /\ accepted[sending[w]] = 0
           /\ accepted' = [accepted EXCEPT ![sending[w]] = 1]
           /\ \A t \in Task : sending[w] = Opening(t) => status[t] = "DETECTED"
           /\ \A t \in Task : sending[w] = Expiry(t) => status[t] = "EXPIRED"
           /\ \A t \in Task : sending[w] = Alert(t) => status[t] # "ABSENT"
<1>1. /\ sending[w] \in Note /\ accepted[sending[w]] = 0 /\ note[sending[w]] = "SENDING"
      /\ accepted \in [Note -> Nat] /\ status \in [Task -> TaskStatus]
  BY DEF PromiseInv, TypeInv, TypeOK, MemoryOK, MailInv, DeliveryInv, Delivers, SendMail
<1>2. accepted' = [accepted EXCEPT ![sending[w]] = 1]
  <2>1. PICK taken \in 0..1 : accepted' = [accepted EXCEPT ![sending[w]] = accepted[sending[w]] + taken]
    BY DEF SendMail
  <2>2. CASE taken = 0
    BY <1>1, <2>1, <2>2
  <2>3. CASE taken = 1
    BY <1>1, <2>1, <2>3
  <2>. QED  BY <2>2, <2>3
<1>3. \A t \in Task : OpeningOK(t) /\ OtherMailsOK(t) /\ (status[t] = "ABSENT" => note[Alert(t)] = "ABSENT")
  BY DEF PromiseInv, AnnouncedInv, AlertInv
<1>. QED  BY <1>1, <1>2, <1>3 DEF OpeningOK, OtherMailsOK, TaskStatus

LEMMA PromiseStep ==
    ASSUME PromiseInv, [Next]_vars
    PROVE  [Promise!Next]_<<[t \in Task |-> PhaseOf(status[t])], accepted>>
<1> DEFINE phase == [t \in Task |-> PhaseOf(status[t])]
           Goal == Promise!Next \/ UNCHANGED <<phase, accepted>>
<1> SUFFICES Goal
    OBVIOUS
<1> USE NoteParts DEF taskVars, noteVars, SetNote
<1>0. /\ status \in [Task -> TaskStatus] /\ note \in [Note -> NoteStatus]
      /\ \A t \in admitted : status[t] = "ABSENT"
      /\ \A w \in Worker : /\ pc[w] \in {"deliver", "send", "settle"} => sending[w] \in Note
                           /\ pc[w] \in {"read", "check"} => checking[w] \in Task
  BY DEF PromiseInv, TypeInv, TypeOK, AdmittedOK, MemoryOK
<1>same. ASSUME UNCHANGED accepted, \A t \in Task : PhaseOf(status'[t]) = PhaseOf(status[t])
         PROVE  Goal
  BY <1>same
<1>move. ASSUME NEW t \in Task
          PROVE  /\ status' = [status EXCEPT ![t] = "MONITORING"]
                      => phase' = [u \in Task |-> IF u \in {t} THEN "watched" ELSE phase[u]]
                 /\ status' = [status EXCEPT ![t] = "CANCELLED"]
                      => phase' = [u \in Task |-> IF u \in {t} THEN "cancelled" ELSE phase[u]]
                 /\ status' = [status EXCEPT ![t] = "COMPLETED"]
                      => phase' = [u \in Task |-> IF u \in {t} THEN "told" ELSE phase[u]]
                 /\ status' = [status EXCEPT ![t] = "DETECTED"]
                      => phase' = [u \in Task |-> IF u \in {t} THEN "found" ELSE phase[u]]
  <2>1. ASSUME status' = [status EXCEPT ![t] = "MONITORING"]
       PROVE  phase' = [u \in Task |-> IF u \in {t} THEN "watched" ELSE phase[u]]
    <3>1. \A u \in Task : PhaseOf(status'[u]) = IF u \in {t} THEN "watched" ELSE PhaseOf(status[u])
      BY <1>0, <2>1, PhaseValues
    <3>. QED  BY <3>1
  <2>2. ASSUME status' = [status EXCEPT ![t] = "CANCELLED"]
       PROVE  phase' = [u \in Task |-> IF u \in {t} THEN "cancelled" ELSE phase[u]]
    <3>1. \A u \in Task : PhaseOf(status'[u]) = IF u \in {t} THEN "cancelled" ELSE PhaseOf(status[u])
      BY <1>0, <2>2, PhaseValues
    <3>. QED  BY <3>1
  <2>3. ASSUME status' = [status EXCEPT ![t] = "COMPLETED"]
       PROVE  phase' = [u \in Task |-> IF u \in {t} THEN "told" ELSE phase[u]]
    <3>1. \A u \in Task : PhaseOf(status'[u]) = IF u \in {t} THEN "told" ELSE PhaseOf(status[u])
      BY <1>0, <2>3, PhaseValues
    <3>. QED  BY <3>1
  <2>4. ASSUME status' = [status EXCEPT ![t] = "DETECTED"]
       PROVE  phase' = [u \in Task |-> IF u \in {t} THEN "found" ELSE phase[u]]
    <3>1. \A u \in Task : PhaseOf(status'[u]) = IF u \in {t} THEN "found" ELSE PhaseOf(status[u])
      BY <1>0, <2>4, PhaseValues
    <3>. QED  BY <3>1
  <2>. QED  BY <2>1, <2>2, <2>3, <2>4
<1>1. CASE UNCHANGED <<status, accepted>>
  BY <1>1
<1>2. ASSUME NEW t \in Task, CreateTask(t) PROVE Goal
  <2>1. CASE status' = [status EXCEPT ![t] = "MONITORING"]
    <3>1. phase[t] = "none" /\ UNCHANGED accepted
      BY <1>0, <1>2, PhaseValues DEF CreateTask
    <3>2. phase' = [u \in Task |-> IF u \in {t} THEN "watched" ELSE phase[u]]
      BY <1>move, <2>1
    <3>3. Promise!Watch(t)
      BY <3>1, <3>2 DEF Promise!Watch, Promise!Enter
    <3>. QED  BY <3>3 DEF Promise!Next
  <2>. QED  BY <1>1, <1>2, <2>1 DEF CreateTask
<1>3. ASSUME NEW t \in Task, CancelTask(t) PROVE Goal
  <2>1. /\ status[t] \in Unfinished /\ UNCHANGED accepted
        /\ status' = [status EXCEPT ![t] = "CANCELLED"]
    BY <1>3 DEF CancelTask, Cancellable
  <2>2. phase[t] \in {"watched", "found"}
    BY <2>1, PhaseValues DEF Unfinished
  <2>3. phase' = [u \in Task |-> IF u \in {t} THEN "cancelled" ELSE phase[u]]
    BY <1>move, <2>1
  <2>4. Promise!Cancel(t)
    BY <2>1, <2>2, <2>3 DEF Promise!Cancel, Promise!Enter
  <2>. QED  BY <2>4 DEF Promise!Next
<1>4. ASSUME NEW t \in Task, PauseTask(t) \/ ResumeTask(t) PROVE Goal
  <2>1. /\ UNCHANGED accepted
        /\ \E s \in {"MONITORING", "PAUSED", "ERROR"}, r \in {"MONITORING", "PAUSED", "ERROR"} :
              status[t] = r /\ status' = [status EXCEPT ![t] = s]
    BY <1>4 DEF PauseTask, ResumeTask
  <2>2. ASSUME NEW u \in Task PROVE PhaseOf(status'[u]) = PhaseOf(status[u])
    <3>1. CASE u = t
      BY <1>0, <2>1, <3>1, PhaseValues
    <3>2. CASE u # t
      BY <1>0, <2>1, <3>2
    <3>. QED  BY <3>1, <3>2
  <2>. QED  BY <1>same, <2>1, <2>2
<1>5. ASSUME NEW u \in User, ToggleUser(u) PROVE Goal
  BY <1>0, <1>5, <1>same, PhaseValues DEF ToggleUser
<1>6. ASSUME NEW w \in Worker, ExpireDue(w) PROVE Goal
  <2> DEFINE gone == {t \in Task : status[t] \in Expirable /\ past[t]}
  <2>1. UNCHANGED accepted /\ status' = [t \in Task |-> IF t \in gone THEN "EXPIRED" ELSE status[t]]
    BY <1>6 DEF ExpireDue
  <2>2. phase' = [t \in Task |-> IF t \in gone THEN "expired" ELSE phase[t]]
    BY <2>1, PhaseValues
  <2>3. \A t \in gone : phase[t] = "watched"
    BY PhaseValues DEF Expirable
  <2>4. Promise!Expire(gone)
    BY <2>1, <2>2, <2>3 DEF Promise!Expire, Promise!Enter
  <2>. QED  BY <2>4 DEF Promise!Next
<1>7. ASSUME NEW w \in Worker, SettleQueued(w) PROVE Goal
  <2>1. /\ sending[w] \in Note /\ UNCHANGED accepted /\ accepted[sending[w]] = 1
    BY <1>0, <1>7 DEF SettleQueued, Settle, PromiseInv, DeliveryInv, Delivers
  <2>2. PICK t \in Task : t = sending[w][1]
    BY <2>1
  <2>3. CASE /\ sending[w][2] = "OPENING" /\ status[t] = "DETECTED"
             /\ status' = [status EXCEPT ![t] = "COMPLETED"]
    <3>1. accepted[<<t, "OPENING">>] = 1 /\ phase[t] = "found"
      BY <2>1, <2>2, <2>3, PhaseValues
    <3>2. phase' = [u \in Task |-> IF u \in {t} THEN "told" ELSE phase[u]]
      BY <1>move, <2>3
    <3>3. Promise!Tell(t)
      BY <2>1, <3>1, <3>2 DEF Promise!Tell, Promise!Enter
    <3>. QED  BY <3>3 DEF Promise!Next
  <2>4. CASE status' = status
    BY <1>1, <2>1, <2>4
  <2>. QED  BY <1>7, <2>2, <2>3, <2>4 DEF SettleQueued
<1>8. ASSUME NEW w \in Worker, SendMail(w) PROVE Goal
  <2>1. CASE UNCHANGED accepted
    BY <1>1, <1>8, <2>1 DEF SendMail
  <2>2. CASE ~ UNCHANGED accepted
    <3>1. /\ sending[w] \in Note /\ accepted[sending[w]] = 0
          /\ accepted' = [accepted EXCEPT ![sending[w]] = 1]
          /\ \A t \in Task : sending[w] = Opening(t) => status[t] = "DETECTED"
          /\ \A t \in Task : sending[w] = Expiry(t) => status[t] = "EXPIRED"
          /\ \A t \in Task : sending[w] = Alert(t) => status[t] # "ABSENT"
      BY <1>8, <2>2, MailTaken
    <3>2. PICK t \in Task, k \in Kind : sending[w] = <<t, k>>
      BY <3>1
    <3>3. /\ k = "OPENING" => phase[t] = "found"
          /\ k = "EXPIRY" => phase[t] = "expired"
      BY <3>1, <3>2, PhaseValues DEF Opening, Expiry
    <3>4. phase[t] # "none"
      <4>1. status[t] # "ABSENT" /\ status[t] \in TaskStatus
        BY <1>0, <3>1, <3>2 DEF Opening, Expiry, Alert, Kind
      <4>. QED  BY <4>1, PhaseValues DEF TaskStatus
    <3>5. UNCHANGED status
      BY <1>8 DEF SendMail
    <3>6. Promise!SendMail(t, k)
      BY <3>1, <3>2, <3>3, <3>4, <3>5 DEF Promise!SendMail
    <3>. QED  BY <3>6 DEF Promise!Next
  <2>. QED  BY <2>1, <2>2
<1>9. ASSUME NEW w \in Worker, CheckBroken(w) PROVE Goal
  <2>1. checking[w] \in Task /\ status[checking[w]] = "MONITORING" /\ UNCHANGED accepted
    BY <1>0, <1>9 DEF CheckBroken, FinishCheck
  <2>2. status' = status \/ status' = [status EXCEPT ![checking[w]] = "ERROR"]
    BY <1>9 DEF CheckBroken
  <2>3. ASSUME NEW u \in Task PROVE PhaseOf(status'[u]) = PhaseOf(status[u])
    <3>1. CASE u = checking[w]
      BY <1>0, <2>1, <2>2, <3>1, PhaseValues
    <3>2. CASE u # checking[w]
      BY <1>0, <2>1, <2>2, <3>2
    <3>. QED  BY <3>1, <3>2
  <2>. QED  BY <1>same, <2>1, <2>3
<1>10. ASSUME NEW w \in Worker, CheckOpened(w) PROVE Goal
  <2>1. PICK t \in Task : t = checking[w] /\ status[t] = "MONITORING" /\ UNCHANGED accepted
    BY <1>0, <1>10 DEF CheckOpened, FinishCheck
  <2>2. status' = [status EXCEPT ![t] = "DETECTED"]
    BY <1>10, <2>1 DEF CheckOpened
  <2>3. phase' = [u \in Task |-> IF u \in {t} THEN "found" ELSE phase[u]]
    BY <1>move, <2>2
  <2>4. Promise!Find(t)
    BY <2>1, <2>3, PhaseValues DEF Promise!Find, Promise!Enter
  <2>. QED  BY <2>4 DEF Promise!Next
<1>11. ASSUME NEW w \in Worker,
              \/ Boot(w) \/ Dispatch(w) \/ StartDelivery(w) \/ ParkUnverified(w)
              \/ SettleUncertain(w) \/ SettleBroken(w) \/ SettleTemporary(w) \/ SettleRejected(w)
              \/ ClaimTask(w) \/ DieOfStaleClaim(w) \/ ReadTask(w) \/ CheckUnopened(w) \/ Crash(w)
       PROVE  Goal
  BY <1>1, <1>11 DEF Boot, Dispatch, StartDelivery, ParkUnverified, SettleUncertain, SettleBroken,
     SettleTemporary, SettleRejected, ClaimTask, Claim, ClaimNone, DieOfStaleClaim, ReadTask, CheckUnopened,
     FinishCheck, Crash
<1>12. CASE \/ \E t \in Task : AdmitTask(t) \/ RunNow(t)
            \/ EditSettings \/ AttestMail \/ TimePasses \/ UNCHANGED vars
  BY <1>1, <1>12 DEF AdmitTask, RunNow, EditSettings, AttestMail, TimePasses, LeaseLapses,
     CheckFallsDue, DatePasses, RetryFallsDue, vars
<1>. QED
  BY <1>2, <1>3, <1>4, <1>5, <1>6, <1>7, <1>8, <1>9, <1>10, <1>11, <1>12
  DEF Next, WebStep, WorkerStep, MailStep, CheckStep

\* One worker, however often it dies, keeps the promise: mails at most once, in
\* the phase they speak of, and no task counts as told without its mail.
THEOREM PromiseHolds ==
    ASSUME OneWorker, FailuresAreDefinite
    PROVE  Spec => PromiseIsKept
<1>1. Init => Promise!Init
  BY PhaseValues DEF Init, Promise!Init, Note
<1>2. PromiseInv /\ [Next]_vars => [Promise!Next]_<<[t \in Task |-> PhaseOf(status[t])], accepted>>
  BY PromiseStep
<1>. QED
  BY <1>1, <1>2, PromiseInvariant, PTL DEF Spec, PromiseIsKept, Promise!Spec

\* With one worker no opening mail leaves for a task that is not DETECTED any
\* more: a cancellation is refused as soon as its worker may be at the provider.
THEOREM OpeningOnlyForDetected ==
    ASSUME OneWorker, FailuresAreDefinite
    PROVE  Spec => OpeningMailOnlyWhileDetected
<1>1. PromiseInv /\ [Next]_vars
        => [\A t \in Task : accepted'[Opening(t)] > accepted[Opening(t)]
                               => status[t] = "DETECTED"]_vars
  <2> SUFFICES ASSUME PromiseInv, [Next]_vars, NEW t \in Task,
                      accepted'[Opening(t)] > accepted[Opening(t)]
               PROVE  status[t] = "DETECTED"
      OBVIOUS
  <2>0. accepted[Opening(t)] \in Nat
    BY NoteParts DEF PromiseInv, TypeInv, TypeOK
  <2>1. ~ UNCHANGED accepted
    BY <2>0
  <2>2. PICK w \in Worker : SendMail(w)
    <3>1. ~WebStep
      BY <2>1 DEF WebStep, AdmitTask, CreateTask, PauseTask, ResumeTask, CancelTask, RunNow,
         EditSettings, ToggleUser
    <3>2. ~AttestMail /\ ~TimePasses /\ ~UNCHANGED vars
      BY <2>1 DEF AttestMail, TimePasses, LeaseLapses, CheckFallsDue, DatePasses,
         RetryFallsDue, vars
    <3>3. ASSUME NEW w \in Worker PROVE ~Boot(w) /\ ~ExpireDue(w) /\ ~CheckStep(w) /\ ~Crash(w)
      BY <2>1 DEF Boot, ExpireDue, CheckStep, ClaimTask, Claim, ClaimNone, DieOfStaleClaim,
         ReadTask, CheckBroken,
         CheckUnopened, CheckOpened, FinishCheck, Crash
    <3>4. ASSUME NEW w \in Worker, MailStep(w) PROVE SendMail(w)
      BY <2>1, <3>4 DEF MailStep, Dispatch, StartDelivery, ParkUnverified, SettleQueued,
         SettleUncertain, SettleBroken, SettleTemporary, SettleRejected
    <3>. QED  BY <3>1, <3>2, <3>3, <3>4 DEF Next, WorkerStep
  <2>3. /\ accepted' = [accepted EXCEPT ![sending[w]] = 1]
        /\ sending[w] = Opening(t) => status[t] = "DETECTED"
    BY <2>1, <2>2, MailTaken
  <2>4. sending[w] = Opening(t)
    BY <2>0, <2>3
  <2>. QED  BY <2>3, <2>4
<1>. QED
  BY <1>1, PromiseInvariant, PTL DEF Spec, OpeningMailOnlyWhileDetected
=============================================================================
