------------------------- MODULE TaskLifecycleProofs -------------------------
(***************************************************************************)
(* Theorems of TaskLifecycle, for every set of tasks, accounts and workers *)
(* and every limit.                                                        *)
(***************************************************************************)
EXTENDS TaskLifecycle, FiniteSetTheorems, TLAPS

-----------------------------------------------------------------------------
(* Type correctness.                                                       *)

\* What a worker remembers belongs to what it does next.
MemoryOK ==
    \A w \in Worker :
        /\ pc[w] \in {"deliver", "send", "settle"} => sending[w] \in Note
        /\ pc[w] \in {"read", "check"} => checking[w] \in Task

\* Monitored tasks have a terminal failure to spare; the others keep the count.
FailuresOK ==
    \A t \in Task : status[t] \in {"ABSENT", "MONITORING"} => fails[t] < TerminalLimit

\* A creation request is admitted only while its task does not exist.
AdmittedOK == \A t \in admitted : status[t] = "ABSENT"

TypeInv == TypeOK /\ MemoryOK /\ FailuresOK /\ AdmittedOK

LEMMA NoteFinite == IsFiniteSet(Note)
<1>1. IsFiniteSet(Kind)
  <2>1. IsFiniteSet({}) BY FS_EmptySet
  <2>2. Kind = (({} \cup {"OPENING"}) \cup {"EXPIRY"}) \cup {"SYSTEM_ALERT"}  BY DEF Kind
  <2>3. QED BY <2>1, <2>2, FS_AddElement
<1>2. QED BY <1>1, TasksFinite, FS_Product DEF Note

\* The rank that a new notification gets in the queue is a number.
LEMMA RankIsNat == Cardinality({n \in Note : note[n] # "ABSENT"}) + 1 \in Nat
<1>1. IsFiniteSet({n \in Note : note[n] # "ABSENT"})
  BY NoteFinite, FS_Subset, {n \in Note : note[n] # "ABSENT"} \subseteq Note
<1>2. QED BY <1>1, FS_CardinalityType

LEMMA NoteParts ==
    /\ \A t \in Task : Opening(t) \in Note /\ Expiry(t) \in Note /\ Alert(t) \in Note
    /\ \A n \in Note : n[1] \in Task /\ n[2] \in Kind /\ n = <<n[1], n[2]>>
BY DEF Opening, Expiry, Alert, Note, Kind

\* The building blocks of the actions keep the types of what they write.
LEMMA SetNoteTyped ==
    ASSUME TypeOK, NEW n \in Note, NEW s \in NoteStatus, NEW d \in BOOLEAN, SetNote(n, s, d)
    PROVE  note' \in [Note -> NoteStatus] /\ delayed' \in [Note -> BOOLEAN]
BY DEF SetNote, TypeOK

LEMMA ReleaseTyped ==
    ASSUME TypeOK, NEW S, ReleaseClaims(S)
    PROVE  claim' \in [Task -> Worker \cup {NoWorker}] /\ lease' \in [Task -> {"free", "held", "lapsed"}]
BY DEF ReleaseClaims, TypeOK

LEMMA OvertakeTyped ==
    ASSUME NEW S, Overtake(S)
    PROVE  overtaken' \in [Worker -> BOOLEAN]
BY DEF Overtake

LEMMA CreateNotesTyped ==
    ASSUME TypeOK, NEW S, CreateNotes(S)
    PROVE  note' \in [Note -> NoteStatus] /\ born' \in [Note -> Nat]
BY RankIsNat DEF CreateNotes, TypeOK, NoteStatus

\* After the CLI call a worker forgets the mail and goes on to its claim.
LEMMA SettleTyped ==
    ASSUME TypeInv, NEW w \in Worker, NEW o, Settle(w, o), UNCHANGED checking
    PROVE  /\ pc' \in [Worker -> Stage] /\ sending' \in [Worker -> Note \cup {NoNote}]
           /\ outcome' \in [Worker -> Outcome \cup {"none"}]
           /\ MemoryOK'
BY DEF Settle, Goto, TypeInv, TypeOK, MemoryOK, Stage

\* One step keeps the types and what the workers remember.
LEMMA TypeStep == TypeInv /\ [Next]_vars => TypeInv'
<1> SUFFICES ASSUME TypeInv, [Next]_vars PROVE TypeInv'
    OBVIOUS
<1> USE DEF TypeInv, TypeOK, MemoryOK, FailuresOK, AdmittedOK, TaskStatus, NoteStatus, Stage, Outcome,
            taskVars, noteVars, memoryVars
<1>1. ASSUME NEW t \in Task, AdmitTask(t) PROVE TypeInv'
  BY <1>1 DEF AdmitTask
<1>2. ASSUME NEW t \in Task, CreateTask(t) PROVE TypeInv'
  BY <1>2 DEF CreateTask
<1>3. ASSUME NEW t \in Task, PauseTask(t) PROVE TypeInv'
  BY <1>3 DEF PauseTask, ReleaseClaims, Overtake
<1>4. ASSUME NEW t \in Task, ResumeTask(t) PROVE TypeInv'
  BY LimitsPositive, <1>4 DEF ResumeTask, ReleaseClaims, Overtake
<1>5. ASSUME NEW t \in Task, CancelTask(t) PROVE TypeInv'
  <2>1. note' \in [Note -> NoteStatus] /\ delayed' \in [Note -> BOOLEAN]
    BY <1>5, NoteParts, SetNoteTyped DEF CancelTask
  <2>2. claim' \in [Task -> Worker \cup {NoWorker}] /\ lease' \in [Task -> {"free", "held", "lapsed"}]
    BY <1>5, ReleaseTyped DEF CancelTask
  <2>3. overtaken' \in [Worker -> BOOLEAN]
    BY <1>5, OvertakeTyped DEF CancelTask
  <2>4. MemoryOK'
    BY <1>5 DEF CancelTask
  <2>5. FailuresOK' /\ AdmittedOK'
    BY <1>5 DEF CancelTask, Cancellable, Unfinished
  <2> HIDE DEF MemoryOK, FailuresOK, AdmittedOK
  <2>. QED  BY <1>5, <2>1, <2>2, <2>3, <2>4, <2>5 DEF CancelTask
<1>6. ASSUME NEW t \in Task, RunNow(t) PROVE TypeInv'
  BY <1>6 DEF RunNow
<1>7. ASSUME EditSettings PROVE TypeInv'
  BY <1>7 DEF EditSettings, Rescheduled
<1>8. ASSUME NEW u \in User, ToggleUser(u) PROVE TypeInv'
  BY <1>8 DEF ToggleUser, ReleaseClaims, Overtake
<1>9. ASSUME NEW w \in Worker, Boot(w) PROVE TypeInv'
  BY <1>9 DEF Boot, Goto, AfterRestart
<1>10. ASSUME NEW w \in Worker, ExpireDue(w) PROVE TypeInv'
  <2>1. note' \in [Note -> NoteStatus] /\ born' \in [Note -> Nat]
    BY <1>10, RankIsNat DEF ExpireDue
  <2>2. delayed' \in [Note -> BOOLEAN]
    BY <1>10 DEF ExpireDue
  <2>3. claim' \in [Task -> Worker \cup {NoWorker}] /\ lease' \in [Task -> {"free", "held", "lapsed"}]
    BY <1>10, ReleaseTyped DEF ExpireDue
  <2>4. overtaken' \in [Worker -> BOOLEAN]
    BY <1>10, OvertakeTyped DEF ExpireDue
  <2>5. status' \in [Task -> TaskStatus] /\ nextCheck' \in [Task -> {"none", "due", "later"}]
    BY <1>10 DEF ExpireDue
  <2>6. pc' \in [Worker -> Stage] /\ MemoryOK'
    BY <1>10 DEF ExpireDue, Goto
  <2>7. FailuresOK' /\ AdmittedOK'
    BY <1>10 DEF ExpireDue, Expirable
  <2>8. QED
    BY <1>10, <2>1, <2>2, <2>3, <2>4, <2>5, <2>6, <2>7 DEF ExpireDue
<1>11. ASSUME NEW w \in Worker, Dispatch(w) PROVE TypeInv'
  BY <1>11 DEF Dispatch, Goto
<1>12. ASSUME NEW w \in Worker, StartDelivery(w) PROVE TypeInv'
  <2>1. sending[w] \in Note
    BY <1>12 DEF StartDelivery
  <2>2. note' \in [Note -> NoteStatus] /\ delayed' \in [Note -> BOOLEAN]
    BY <1>12, <2>1, SetNoteTyped DEF StartDelivery
  <2>3. /\ \/ pc' = [pc EXCEPT ![w] = "claim"]
           \/ pc' = [pc EXCEPT ![w] = "send"]
        /\ sending' = [sending EXCEPT ![w] = IF pc'[w] = "send" THEN sending[w] ELSE NoNote]
    BY <1>12 DEF StartDelivery, Goto
  <2>4. pc' \in [Worker -> Stage] /\ sending' \in [Worker -> Note \cup {NoNote}]
    BY <2>1, <2>3
  <2>5. MemoryOK'
    BY <1>12, <2>1, <2>3 DEF StartDelivery
  <2>6. QED
    BY <1>12, <2>2, <2>4, <2>5 DEF StartDelivery
<1>13. ASSUME NEW w \in Worker, ParkUnverified(w) PROVE TypeInv'
  <2>1. sending[w] \in Note /\ pc[w] # "down"
    BY <1>13 DEF ParkUnverified
  <2>2. note' \in [Note -> NoteStatus] /\ delayed' \in [Note -> BOOLEAN]
    BY <1>13, <2>1, SetNoteTyped DEF ParkUnverified
  <2>9. QED
    BY <1>13, <2>1, <2>2 DEF ParkUnverified, Goto
<1>14. ASSUME NEW w \in Worker, SendMail(w) PROVE TypeInv'
  BY <1>14 DEF SendMail, Goto
<1>15. ASSUME NEW w \in Worker, SettleQueued(w) PROVE TypeInv'
  <2>1. sending[w] \in Note /\ pc[w] # "down"
    BY <1>15 DEF SettleQueued, Settle
  <2>2. note' \in [Note -> NoteStatus] /\ delayed' \in [Note -> BOOLEAN]
    BY <1>15, <2>1, SetNoteTyped DEF SettleQueued, Settle
  <2>3. status' \in [Task -> TaskStatus] /\ nextCheck' \in [Task -> {"none", "due", "later"}]
    BY <1>15, <2>1, NoteParts DEF SettleQueued
  <2>4. \A t \in Task : status'[t] \in {"ABSENT", "MONITORING"} => status'[t] = status[t]
    BY <1>15, <2>1, NoteParts DEF SettleQueued
  <2>5. \A t \in admitted : status'[t] = status[t]
    <3>1. \A t \in Task : status'[t] # status[t] => status[t] = "DETECTED"
      BY <1>15, <2>1, NoteParts DEF SettleQueued
    <3>. QED  BY <3>1
  <2>6. FailuresOK' /\ AdmittedOK'
    <3>1. UNCHANGED <<fails, admitted>>
      BY <1>15 DEF SettleQueued
    <3>. QED  BY <2>4, <2>5, <3>1
  <2>7. /\ pc' \in [Worker -> Stage] /\ sending' \in [Worker -> Note \cup {NoNote}]
        /\ outcome' \in [Worker -> Outcome \cup {"none"}]
        /\ MemoryOK'
    BY <1>15, SettleTyped DEF SettleQueued
  <2> HIDE DEF MemoryOK, FailuresOK, AdmittedOK
  <2>. QED  BY <1>15, <2>2, <2>3, <2>6, <2>7 DEF SettleQueued
<1>16. ASSUME NEW w \in Worker, SettleUncertain(w) PROVE TypeInv'
  <2>1. sending[w] \in Note /\ pc[w] # "down"
    BY <1>16 DEF SettleUncertain, Settle
  <2>2. note' \in [Note -> NoteStatus] /\ delayed' \in [Note -> BOOLEAN]
    BY <1>16, <2>1, SetNoteTyped DEF SettleUncertain, Settle
  <2>3. /\ pc' \in [Worker -> Stage] /\ sending' \in [Worker -> Note \cup {NoNote}]
        /\ outcome' \in [Worker -> Outcome \cup {"none"}]
        /\ MemoryOK'
    BY <1>16, SettleTyped DEF SettleUncertain
  <2>4. FailuresOK' /\ AdmittedOK'
    BY <1>16 DEF SettleUncertain
  <2> HIDE DEF MemoryOK, FailuresOK, AdmittedOK
  <2>. QED  BY <1>16, <2>2, <2>3, <2>4 DEF SettleUncertain
<1>17. ASSUME NEW w \in Worker, SettleBroken(w) PROVE TypeInv'
  <2>1. sending[w] \in Note /\ pc[w] # "down"
    BY <1>17 DEF SettleBroken, Settle
  <2>2. note' \in [Note -> NoteStatus] /\ delayed' \in [Note -> BOOLEAN]
    BY <1>17, <2>1, SetNoteTyped DEF SettleBroken, Settle
  <2>3. /\ pc' \in [Worker -> Stage] /\ sending' \in [Worker -> Note \cup {NoNote}]
        /\ outcome' \in [Worker -> Outcome \cup {"none"}]
        /\ MemoryOK'
    BY <1>17, SettleTyped DEF SettleBroken
  <2>4. FailuresOK' /\ AdmittedOK'
    BY <1>17 DEF SettleBroken
  <2> HIDE DEF MemoryOK, FailuresOK, AdmittedOK
  <2>. QED  BY <1>17, <2>2, <2>3, <2>4 DEF SettleBroken
<1>18. ASSUME NEW w \in Worker, SettleTemporary(w) PROVE TypeInv'
  <2>1. sending[w] \in Note /\ pc[w] # "down"
    BY <1>18 DEF SettleTemporary, Settle
  <2>2. note' \in [Note -> NoteStatus] /\ delayed' \in [Note -> BOOLEAN]
    BY <1>18, <2>1, SetNoteTyped DEF SettleTemporary, Settle
  <2>3. retry' \in [Note -> 0..RetryLimit]
    <3>1. CASE UNCHANGED retry
      BY <3>1
    <3>2. CASE /\ retry[sending[w]] < RetryLimit
               /\ retry' = [retry EXCEPT ![sending[w]] = @ + 1]
      <4>1. retry[sending[w]] \in 0..RetryLimit
        BY <2>1
      <4>2. retry[sending[w]] + 1 \in 0..RetryLimit
        BY <3>2, <4>1, LimitsPositive
      <4>3. QED
        BY <3>2, <4>2
    <3>3. QED
      BY <1>18, <3>1, <3>2, Zenon DEF SettleTemporary, RetriesLeft
  <2>4. /\ pc' \in [Worker -> Stage] /\ sending' \in [Worker -> Note \cup {NoNote}]
        /\ outcome' \in [Worker -> Outcome \cup {"none"}]
        /\ MemoryOK'
    BY <1>18, SettleTyped DEF SettleTemporary
  <2>5. FailuresOK' /\ AdmittedOK'
    BY <1>18 DEF SettleTemporary
  <2> HIDE DEF MemoryOK, FailuresOK, AdmittedOK
  <2>. QED  BY <1>18, <2>2, <2>3, <2>4, <2>5 DEF SettleTemporary
<1>19. ASSUME NEW w \in Worker, SettleRejected(w) PROVE TypeInv'
  <2>1. sending[w] \in Note /\ pc[w] # "down"
    BY <1>19 DEF SettleRejected, Settle
  <2>2. note' \in [Note -> NoteStatus] /\ delayed' \in [Note -> BOOLEAN]
    BY <1>19, <2>1, SetNoteTyped DEF SettleRejected, Settle
  <2>3. /\ pc' \in [Worker -> Stage] /\ sending' \in [Worker -> Note \cup {NoNote}]
        /\ outcome' \in [Worker -> Outcome \cup {"none"}]
        /\ MemoryOK'
    BY <1>19, SettleTyped DEF SettleRejected
  <2>4. FailuresOK' /\ AdmittedOK'
    BY <1>19 DEF SettleRejected
  <2> HIDE DEF MemoryOK, FailuresOK, AdmittedOK
  <2>. QED  BY <1>19, <2>2, <2>3, <2>4 DEF SettleRejected
<1>20. ASSUME NEW w \in Worker, ClaimTask(w) PROVE TypeInv'
  <2>1. overtaken' \in [Worker -> BOOLEAN]
    <3>1. CASE UNCHANGED overtaken
      BY <3>1
    <3>2. ASSUME NEW t \in Task,
                 overtaken' = [v \in Worker |-> v # w /\ (overtaken[v] \/ checking[v] = t)]
          PROVE  overtaken' \in [Worker -> BOOLEAN]
      BY <3>2
    <3>3. QED
      BY <1>20, <3>1, <3>2 DEF ClaimTask, Claim, ClaimNone
  <2>2. /\ claim' \in [Task -> Worker \cup {NoWorker}]
        /\ lease' \in [Task -> {"free", "held", "lapsed"}]
        /\ checking' \in [Worker -> Task \cup {NoTask}]
    BY <1>20 DEF ClaimTask, Claim, ClaimNone
  <2>3. pc' \in [Worker -> Stage] /\ MemoryOK'
    BY <1>20 DEF ClaimTask, Claim, ClaimNone, Goto
  <2>4. FailuresOK' /\ AdmittedOK'
    BY <1>20 DEF ClaimTask, Claim, ClaimNone
  <2> HIDE DEF MemoryOK, FailuresOK, AdmittedOK
  <2>. QED  BY <1>20, <2>1, <2>2, <2>3, <2>4 DEF ClaimTask, Claim, ClaimNone
<1>21. ASSUME NEW w \in Worker, DieOfStaleClaim(w) PROVE TypeInv'
  BY <1>21 DEF DieOfStaleClaim, Goto
<1>22. ASSUME NEW w \in Worker, ReadTask(w) PROVE TypeInv'
  BY <1>22 DEF ReadTask, Goto
<1>23. ASSUME NEW w \in Worker, CheckBroken(w) PROVE TypeInv'
  <2>1. checking[w] \in Task /\ status[checking[w]] = "MONITORING"
    BY <1>23 DEF CheckBroken, FinishCheck
  <2>2. note' \in [Note -> NoteStatus] /\ born' \in [Note -> Nat]
    BY <1>23, CreateNotesTyped DEF CheckBroken
  <2>3. claim' \in [Task -> Worker \cup {NoWorker}] /\ lease' \in [Task -> {"free", "held", "lapsed"}]
    BY <1>23, ReleaseTyped DEF CheckBroken, FinishCheck
  <2>4. status' \in [Task -> TaskStatus] /\ nextCheck' \in [Task -> {"none", "due", "later"}]
    BY <1>23, <2>1 DEF CheckBroken
  <2>5. fails' \in [Task -> 0..TerminalLimit] /\ FailuresOK' /\ AdmittedOK'
    BY <1>23, <2>1, LimitsPositive DEF CheckBroken, FinishCheck
  <2>6. pc' \in [Worker -> Stage] /\ checking' \in [Worker -> Task \cup {NoTask}] /\ MemoryOK'
    BY <1>23 DEF CheckBroken, FinishCheck, EndCheck, Goto
  <2>7. QED
    BY <1>23, <2>2, <2>3, <2>4, <2>5, <2>6 DEF CheckBroken, FinishCheck, EndCheck
<1>24. ASSUME NEW w \in Worker, CheckUnopened(w) PROVE TypeInv'
  BY LimitsPositive, <1>24 DEF CheckUnopened, FinishCheck, EndCheck, Goto, ReleaseClaims
<1>25. ASSUME NEW w \in Worker, CheckOpened(w) PROVE TypeInv'
  <2>1. checking[w] \in Task /\ status[checking[w]] = "MONITORING"
    BY <1>25 DEF CheckOpened, FinishCheck
  <2>2. note' \in [Note -> NoteStatus] /\ born' \in [Note -> Nat]
    BY <1>25, CreateNotesTyped DEF CheckOpened
  <2>3. claim' \in [Task -> Worker \cup {NoWorker}] /\ lease' \in [Task -> {"free", "held", "lapsed"}]
    BY <1>25, ReleaseTyped DEF CheckOpened, FinishCheck
  <2>4. status' \in [Task -> TaskStatus] /\ nextCheck' \in [Task -> {"none", "due", "later"}]
    BY <1>25, <2>1 DEF CheckOpened
  <2>5. fails' \in [Task -> 0..TerminalLimit] /\ FailuresOK' /\ AdmittedOK'
    BY <1>25, <2>1, LimitsPositive DEF CheckOpened, FinishCheck
  <2>6. pc' \in [Worker -> Stage] /\ checking' \in [Worker -> Task \cup {NoTask}] /\ MemoryOK'
    BY <1>25 DEF CheckOpened, FinishCheck, EndCheck, Goto
  <2>7. QED
    BY <1>25, <2>2, <2>3, <2>4, <2>5, <2>6 DEF CheckOpened, FinishCheck, EndCheck
<1>26. ASSUME NEW w \in Worker, Crash(w) PROVE TypeInv'
  BY <1>26 DEF Crash, Goto
<1>27. ASSUME AttestMail PROVE TypeInv'
  BY <1>27 DEF AttestMail
<1>28. ASSUME NEW t \in Task, LeaseLapses(t) PROVE TypeInv'
  BY <1>28 DEF LeaseLapses
<1>29. ASSUME NEW t \in Task, CheckFallsDue(t) PROVE TypeInv'
  BY <1>29 DEF CheckFallsDue
<1>30. ASSUME NEW n \in Note, RetryFallsDue(n) PROVE TypeInv'
  BY <1>30 DEF RetryFallsDue
<1>31. ASSUME NEW t \in Task, DatePasses(t) PROVE TypeInv'
  BY <1>31 DEF DatePasses
<1>32. CASE UNCHANGED vars
  BY <1>32 DEF vars
<1>33. QED
  BY <1>1, <1>2, <1>3, <1>4, <1>5, <1>6, <1>7, <1>8, <1>9, <1>10, <1>11, <1>12, <1>13, <1>14, <1>15,
     <1>16, <1>17, <1>18, <1>19, <1>20, <1>21, <1>22, <1>23, <1>24, <1>25, <1>26, <1>27, <1>28, <1>29,
     <1>30, <1>31, <1>32 DEF Next, WebStep, WorkerStep, MailStep, CheckStep, TimePasses

LEMMA InitTyped == Init => TypeInv
<1>1. ASSUME Init PROVE TypeOK
  <2> USE <1>1
  <2>1. /\ past \in [Task -> BOOLEAN] /\ delayed \in [Note -> BOOLEAN]
        /\ active \in [User -> BOOLEAN] /\ overtaken \in [Worker -> BOOLEAN]
        /\ verified \in BOOLEAN
    BY DEF Init
  <2>2. /\ fails \in [Task -> 0..TerminalLimit] /\ retry \in [Note -> 0..RetryLimit]
        /\ born \in [Note -> Nat] /\ accepted \in [Note -> Nat]
    BY LimitsPositive DEF Init
  <2>3. QED
    BY <2>1, <2>2 DEF Init, TypeOK, TaskStatus, NoteStatus, Stage, Outcome
<1>2. Init => MemoryOK /\ FailuresOK /\ AdmittedOK
  BY LimitsPositive DEF Init, MemoryOK, FailuresOK, AdmittedOK
<1>3. QED BY <1>1, <1>2 DEF TypeInv

\* Every state of every run is well typed: the retry and failure counters stay
\* within their limits, and no step writes a status the schema does not have.
THEOREM TypeCorrect == Spec => []TypeOK
<1>1. Init => TypeInv
  BY InitTyped
<1>2. TypeInv => TypeOK
  BY DEF TypeInv
<1>3. QED
  BY <1>1, <1>2, TypeStep, PTL DEF Spec

-----------------------------------------------------------------------------
(* No mail is accepted twice.  The induction is about the worker that talks *)
(* to the provider: it alone delivers its notification, whose row can only  *)
(* have been handed to a human meanwhile, and the provider has not taken    *)
(* the mail before the call nor after a definite failure.                   *)

Delivers(w) == pc[w] \in {"send", "settle"}

MailInv ==
    /\ \A w \in Worker : Delivers(w) => note[sending[w]] \in {"SENDING", "NEEDS_REVIEW"}
    /\ \A v, w \in Worker : Delivers(v) /\ Delivers(w) /\ sending[v] = sending[w] => v = w
    /\ \A n \in Note : /\ accepted[n] \in {0, 1}
                       /\ accepted[n] = 1 => note[n] \in {"SENDING", "SENT", "NEEDS_REVIEW"}
    /\ \A w \in Worker : pc[w] = "send" => accepted[sending[w]] = 0
    /\ \A w \in Worker : pc[w] = "settle" /\ outcome[w] \notin {"queued", "uncertain"}
                              => accepted[sending[w]] = 0

\* A step away from the provider: no worker begins to deliver or changes what
\* it delivers, and rows change only before they are SENDING or to be reviewed.
MailQuiet ==
    /\ UNCHANGED accepted
    /\ \A w \in Worker : pc'[w] \in {"send", "settle"}
          => pc'[w] = pc[w] /\ sending'[w] = sending[w] /\ outcome'[w] = outcome[w]
    /\ \A n \in Note : \/ note'[n] = note[n]
                       \/ note[n] = "SENDING" /\ note'[n] = "NEEDS_REVIEW"
                       \/ /\ note[n] \in {"ABSENT", "PENDING"}
                          /\ note'[n] \in {"PENDING", "PERMANENT_FAILED"}

LEMMA MailQuietStep == TypeInv /\ MailInv /\ MailQuiet => MailInv'
BY DEF TypeInv, MemoryOK, MailInv, MailQuiet, Delivers

\* A worker ends its delivery and writes s into its notification.
MailEnds(w, s) ==
    /\ UNCHANGED accepted
    /\ Delivers(w)
    /\ pc' = [pc EXCEPT ![w] = "claim"]
    /\ sending' = [sending EXCEPT ![w] = NoNote]
    /\ \A v \in Worker \ {w} : outcome'[v] = outcome[v]
    /\ UNCHANGED note \/ note' = [note EXCEPT ![sending[w]] = s]

LEMMA MailEndsStep ==
    ASSUME TypeInv, MailInv, NEW w \in Worker, NEW s \in NoteStatus, MailEnds(w, s),
           s \in {"SENT", "NEEDS_REVIEW"} \/ accepted[sending[w]] = 0
    PROVE  MailInv'
<1> DEFINE n == sending[w]
<1>1. n \in Note /\ pc \in [Worker -> Stage] /\ sending \in [Worker -> Note \cup {NoNote}]
      /\ note \in [Note -> NoteStatus]
  BY DEF TypeInv, TypeOK, MemoryOK, MailEnds, Delivers
<1>2. \A v \in Worker : Delivers(v)' =>
        v # w /\ Delivers(v) /\ pc'[v] = pc[v] /\ sending'[v] = sending[v]
              /\ outcome'[v] = outcome[v] /\ sending[v] # n /\ sending[v] \in Note
  BY <1>1 DEF MailEnds, Delivers, MailInv, TypeInv, MemoryOK
<1>3. \A m \in Note : m # n => note'[m] = note[m]
  BY <1>1 DEF MailEnds
<1>4. accepted[n] = 1 => note'[n] \in {"SENDING", "SENT", "NEEDS_REVIEW"}
  BY <1>1 DEF MailEnds, MailInv
<1>5. QED
  BY <1>1, <1>2, <1>3, <1>4 DEF MailInv, MailEnds, Delivers

\* Steps that leave the notifications and the workers' deliveries alone.
LEMMA MailQuietIfUnchanged ==
    UNCHANGED <<note, accepted, sending, outcome>>
    /\ (\A w \in Worker : pc'[w] \in {"send", "settle"} => pc'[w] = pc[w]) => MailQuiet
BY DEF MailQuiet

LEMMA WebIsQuiet == TypeInv /\ WebStep => MailQuiet
<1> SUFFICES ASSUME TypeInv, WebStep PROVE MailQuiet
    OBVIOUS
<1>1. ASSUME NEW t \in Task, CancelTask(t) PROVE MailQuiet
  <2>1. \/ UNCHANGED note
        \/ /\ note[Opening(t)] = "PENDING"
           /\ note' = [note EXCEPT ![Opening(t)] = "PERMANENT_FAILED"]
    BY <1>1 DEF CancelTask, SetNote
  <2>2. QED
    BY <1>1, <2>1 DEF CancelTask, MailQuiet, memoryVars, TypeInv, TypeOK
<1>2. ASSUME NEW t \in Task, AdmitTask(t) \/ CreateTask(t) \/ PauseTask(t) \/ ResumeTask(t) \/ RunNow(t)
      PROVE  MailQuiet
  BY <1>2, MailQuietIfUnchanged
     DEF AdmitTask, CreateTask, PauseTask, ResumeTask, RunNow, noteVars, memoryVars
<1>3. CASE EditSettings
  BY <1>3, MailQuietIfUnchanged DEF EditSettings, noteVars, memoryVars
<1>4. ASSUME NEW u \in User, ToggleUser(u) PROVE MailQuiet
  BY <1>4, MailQuietIfUnchanged DEF ToggleUser, noteVars, memoryVars
<1>5. QED
  BY <1>1, <1>2, <1>3, <1>4 DEF WebStep

LEMMA CheckIsQuiet == ASSUME TypeInv, NEW w \in Worker, CheckStep(w) PROVE MailQuiet
<1> USE DEF Goto, taskVars, noteVars, memoryVars, TypeInv, TypeOK, MailQuiet
<1>1. CASE ClaimTask(w)
  BY <1>1 DEF ClaimTask, Claim, ClaimNone
<1>2. CASE DieOfStaleClaim(w)
  BY <1>2 DEF DieOfStaleClaim
<1>3. CASE ReadTask(w)
  BY <1>3 DEF ReadTask
<1>4. CASE CheckBroken(w)
  BY <1>4 DEF CheckBroken, FinishCheck, EndCheck, CreateNotes
<1>5. CASE CheckUnopened(w)
  BY <1>5 DEF CheckUnopened, FinishCheck, EndCheck
<1>6. CASE CheckOpened(w)
  BY <1>6 DEF CheckOpened, FinishCheck, EndCheck, CreateNotes
<1>7. QED
  BY <1>1, <1>2, <1>3, <1>4, <1>5, <1>6 DEF CheckStep

LEMMA OthersAreQuiet ==
    ASSUME TypeInv,
           \/ \E w \in Worker : Boot(w) \/ ExpireDue(w) \/ Dispatch(w) \/ Crash(w)
           \/ AttestMail
           \/ TimePasses
    PROVE  MailQuiet
<1> USE DEF Goto, taskVars, noteVars, memoryVars, TypeInv, TypeOK, MailQuiet
<1>1. ASSUME NEW w \in Worker, Boot(w) PROVE MailQuiet
  BY <1>1 DEF Boot, AfterRestart
<1>2. ASSUME NEW w \in Worker, ExpireDue(w) PROVE MailQuiet
  BY <1>2 DEF ExpireDue
<1>3. ASSUME NEW w \in Worker, Dispatch(w) PROVE MailQuiet
  BY <1>3 DEF Dispatch
<1>4. ASSUME NEW w \in Worker, Crash(w) PROVE MailQuiet
  BY <1>4 DEF Crash
<1>5. CASE AttestMail
  BY <1>5 DEF AttestMail
<1>6. CASE TimePasses
  BY <1>6 DEF TimePasses, LeaseLapses, CheckFallsDue, DatePasses, RetryFallsDue
<1>7. QED
  BY <1>1, <1>2, <1>3, <1>4, <1>5, <1>6

LEMMA MailInvStep ==
    ASSUME MayBeAccepted \subseteq {"queued", "uncertain"}, TypeInv, MailInv, [Next]_vars
    PROVE  MailInv'
<1> USE DEF Goto, SetNote
<1>1. CASE MailQuiet
  BY <1>1, MailQuietStep
<1>2. ASSUME NEW w \in Worker, StartDelivery(w) PROVE MailInv'
  <2>1. /\ sending[w] \in Note /\ pc[w] = "deliver"
        /\ pc \in [Worker -> Stage] /\ note \in [Note -> NoteStatus]
        /\ sending \in [Worker -> Note \cup {NoNote}]
    BY <1>2 DEF StartDelivery, TypeInv, TypeOK, MemoryOK
  <2>2. CASE /\ note[sending[w]] = "PENDING"
             /\ note' = [note EXCEPT ![sending[w]] = "SENDING"]
             /\ pc' = [pc EXCEPT ![w] = "send"]
    <3>1. accepted[sending[w]] = 0 /\ UNCHANGED <<accepted, outcome, sending>>
      BY <1>2, <2>1, <2>2 DEF StartDelivery, MailInv, Stage
    <3>2. \A v \in Worker : v # w /\ Delivers(v) => sending[v] # sending[w] /\ sending[v] \in Note
      BY <2>1, <2>2 DEF MailInv, Delivers, TypeInv, MemoryOK
    <3>3. QED
      BY <2>1, <2>2, <3>1, <3>2 DEF MailInv, Delivers
  <2>3. CASE /\ \/ UNCHANGED note
                \/ /\ note[sending[w]] = "PENDING"
                   /\ note' = [note EXCEPT ![sending[w]] = "PERMANENT_FAILED"]
             /\ pc' = [pc EXCEPT ![w] = "claim"]
    <3>1. MailQuiet
      BY <1>2, <2>1, <2>3 DEF StartDelivery, MailQuiet
    <3>2. QED
      BY <3>1, MailQuietStep
  <2>4. QED
    BY <1>2, <2>2, <2>3 DEF StartDelivery
<1>3. ASSUME NEW w \in Worker, ParkUnverified(w) PROVE MailInv'
  <2>1. MailEnds(w, "PENDING") /\ accepted[sending[w]] = 0
    BY <1>3 DEF ParkUnverified, MailEnds, Delivers, MailInv
  <2>2. QED
    BY <2>1, MailEndsStep DEF NoteStatus
<1>4. ASSUME NEW w \in Worker, SendMail(w) PROVE MailInv'
  <2>1. PICK o \in Outcome, taken \in 0..1 :
           /\ o \notin MayBeAccepted => taken = 0
           /\ outcome' = [outcome EXCEPT ![w] = o]
           /\ accepted' = [accepted EXCEPT ![sending[w]] = @ + taken]
    BY <1>4 DEF SendMail
  <2>2. /\ pc[w] = "send" /\ pc' = [pc EXCEPT ![w] = "settle"]
        /\ UNCHANGED <<note, sending>>
    BY <1>4 DEF SendMail, noteVars
  <2>3. /\ sending[w] \in Note /\ accepted[sending[w]] = 0
        /\ pc \in [Worker -> Stage] /\ outcome \in [Worker -> Outcome \cup {"none"}]
        /\ accepted \in [Note -> Nat]
    BY <2>2 DEF TypeInv, TypeOK, MemoryOK, MailInv
  <2>4. \A v \in Worker : v # w /\ Delivers(v) => sending[v] # sending[w] /\ sending[v] \in Note
    BY <2>2 DEF MailInv, Delivers, TypeInv, MemoryOK
  <2>5. accepted'[sending[w]] \in {0, 1} /\ \A n \in Note : n # sending[w] => accepted'[n] = accepted[n]
    BY <2>1, <2>3
  <2>6. o \notin {"queued", "uncertain"} => accepted'[sending[w]] = 0
    <3>1. accepted'[sending[w]] = 0 + taken
      BY <2>1, <2>3
    <3>2. o \notin {"queued", "uncertain"} => o \notin MayBeAccepted
      OBVIOUS
    <3>3. QED
      BY <2>1, <3>1, <3>2
  <2>7. note[sending[w]] \in {"SENDING", "NEEDS_REVIEW"}
    BY <2>2 DEF MailInv, Delivers
  <2>8. QED
    BY <2>1, <2>2, <2>3, <2>4, <2>5, <2>6, <2>7 DEF MailInv, Delivers
<1>5. ASSUME NEW w \in Worker, SettleQueued(w) PROVE MailInv'
  <2>1. MailEnds(w, "SENT")
    BY <1>5 DEF SettleQueued, Settle, MailEnds, Delivers, TypeInv, TypeOK
  <2>2. QED
    BY <2>1, MailEndsStep DEF NoteStatus
<1>6. ASSUME NEW w \in Worker, SettleUncertain(w) PROVE MailInv'
  <2>1. MailEnds(w, "NEEDS_REVIEW")
    BY <1>6 DEF SettleUncertain, Settle, MailEnds, Delivers, TypeInv, TypeOK
  <2>2. QED
    BY <2>1, MailEndsStep DEF NoteStatus
<1>7. ASSUME NEW w \in Worker, SettleBroken(w) PROVE MailInv'
  <2>1. MailEnds(w, "PENDING") /\ accepted[sending[w]] = 0
    BY <1>7 DEF SettleBroken, Settle, MailEnds, Delivers, MailInv, TypeInv, TypeOK
  <2>2. QED
    BY <2>1, MailEndsStep DEF NoteStatus
<1>8. ASSUME NEW w \in Worker, SettleTemporary(w) PROVE MailInv'
  <2>1. (MailEnds(w, "PENDING") \/ MailEnds(w, "FAILED")) /\ accepted[sending[w]] = 0
    BY <1>8 DEF SettleTemporary, Settle, MailEnds, Delivers, MailInv, TypeInv, TypeOK
  <2>2. QED
    BY <2>1, MailEndsStep DEF NoteStatus
<1>9. ASSUME NEW w \in Worker, SettleRejected(w) PROVE MailInv'
  <2>1. MailEnds(w, "PERMANENT_FAILED") /\ accepted[sending[w]] = 0
    BY <1>9 DEF SettleRejected, Settle, MailEnds, Delivers, MailInv, TypeInv, TypeOK
  <2>2. QED
    BY <2>1, MailEndsStep DEF NoteStatus
<1>10. CASE UNCHANGED vars
  BY <1>1, <1>10 DEF vars, MailQuiet
<1>11. QED
  BY <1>1, <1>2, <1>3, <1>4, <1>5, <1>6, <1>7, <1>8, <1>9, <1>10,
     WebIsQuiet, CheckIsQuiet, OthersAreQuiet DEF Next, WorkerStep, MailStep

\* The provider accepts no mail twice: not when a worker dies between the call
\* and its recording, not through retries, parked notifications or a second
\* worker.  The hypothesis is the contract of the mail CLI: a failure it
\* reports as definite was not accepted.
THEOREM NoMailTwice ==
    ASSUME MayBeAccepted \subseteq {"queued", "uncertain"}
    PROVE  Spec => []AtMostOneMail
<1>1. Init => TypeInv /\ MailInv
  BY InitTyped DEF Init, MailInv, Delivers
<1>2. TypeInv /\ MailInv /\ [Next]_vars => TypeInv' /\ MailInv'
  BY TypeStep, MailInvStep
<1>3. MailInv => AtMostOneMail
  BY DEF MailInv, AtMostOneMail
<1>4. QED
  BY <1>1, <1>2, <1>3, PTL DEF Spec
=============================================================================
