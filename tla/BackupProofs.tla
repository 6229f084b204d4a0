----------------------------- MODULE BackupProofs -----------------------------
(***************************************************************************)
(* Theorems of Backup, for any number of runs and readers and all times    *)
(* with RunTime <= Retention.                                              *)
(***************************************************************************)
EXTENDS Backup, TLAPS

Active(r) == stage[r] \notin {"idle", "waiting"}
OwnFile(r) == [name |-> stamp[r], sound |-> dump[r].sound, mtime |-> dump[r].mtime]

\* One run at a time holds the lock, for a bounded time, and no file is newer
\* than its name.
LockOK ==
    /\ \A r, s \in Run : Active(r) /\ Active(s) => r = s
    /\ \A r \in Run : stamp[r] # NoTime <=> Active(r)
    /\ \A r \in Run : Active(r) =>
          /\ stamp[r] <= clock /\ clock - stamp[r] <= RunTime
          /\ \A f \in files : f.name <= stamp[r]

\* From the publication on, a run has its own file.
Published == {"pruning", "pruned", "recording"}

\* A dump that was finished is whole, and a run that prunes has its own file.
DumpOK ==
    \A r \in Run :
       /\ stage[r] \in Published \cup {"dumped"}
             => dump[r].sound /\ stamp[r] <= dump[r].mtime /\ dump[r].mtime <= clock
       /\ stage[r] \in Published => OwnFile(r) \in files

FilesOK == \A f \in files : f.sound /\ f.name <= clock

\* What is recorded or will be can be restored; the record of a live client comes
\* within the time a run takes.
Restorable(name) == \E f \in files : f.sound /\ f.name >= name
RecordOK ==
    /\ (lastAt = NoTime <=> lastName = NoTime) /\ RecordedIsRestorable
    /\ lastName # NoTime /\ ~late => lastAt - lastName <= RunTime
    /\ \A name \in marks : Restorable(name)

BackupInv == TypeOK /\ LockOK /\ DumpOK /\ FilesOK /\ RecordOK

LEMMA BackupInit == Init => BackupInv
<1>1. Init => TypeOK
  <2>1. 0 \in Time /\ NoDump \in Dump
    BY DurationsNat DEF Time, Dump, NoDump
  <2>. QED  BY <2>1 DEF Init, TypeOK
<1>2. Init => LockOK /\ DumpOK
  BY DEF Init, LockOK, Active, DumpOK, Published
<1>3. Init => FilesOK /\ RecordOK
  BY DEF Init, FilesOK, RecordOK, RecordedIsRestorable
<1>. QED  BY <1>1, <1>2, <1>3 DEF BackupInv

\* A run that prunes finds its own file too young, and no file newer than it.
LEMMA OwnFileStays ==
    ASSUME BackupInv, NEW r \in Run, stage[r] \in Published
    PROVE  /\ OwnFile(r) \in files /\ OwnFile(r).sound /\ ~Outdated(OwnFile(r))
           /\ \A f \in files : f.name <= OwnFile(r).name
<1>1. OwnFile(r) \in files /\ dump[r].sound /\ stamp[r] <= dump[r].mtime
  BY DEF BackupInv, DumpOK
<1>2. Active(r) /\ clock - stamp[r] <= RunTime /\ \A f \in files : f.name <= stamp[r]
  BY DEF BackupInv, LockOK, Active, Published
<1>3. stamp[r] \in Int /\ dump[r].mtime \in Int /\ clock \in Int
  BY DEF BackupInv, TypeOK, Dump, Time, NoTime
<1>4. clock - dump[r].mtime <= Retention
  BY <1>1, <1>2, <1>3, RunsAreShort, DurationsNat
<1>5. QED
  BY <1>1, <1>2, <1>3, <1>4, DurationsNat DEF OwnFile, Outdated

\* Where the rows and the files are as before, so is what is said of them.
LEMMA RecordKept ==
    ASSUME RecordOK, UNCHANGED <<files, rowVars, late>>, marks' \subseteq marks
    PROVE  RecordOK'
BY DEF RecordOK, RecordedIsRestorable, Restorable, rowVars

LEMMA LeaveStep ==
    ASSUME BackupInv, NEW r \in Run, Leave(r), UNCHANGED <<clock, files, rowVars, markVars, asked>>
    PROVE  BackupInv'
<1> USE DEF BackupInv, markVars
<1>1. TypeOK'
  BY DEF TypeOK, Leave, rowVars, Dump, NoDump, Time
<1>2. \A s \in Run : Active(s)' => s # r /\ Active(s)
  BY DEF TypeOK, Leave, Active
<1>3. LockOK' /\ DumpOK' /\ FilesOK'
  BY <1>2 DEF TypeOK, Leave, Active, LockOK, DumpOK, Published, FilesOK, OwnFile
<1>4. RecordOK'
  BY RecordKept
<1>5. QED
  BY <1>1, <1>3, <1>4

\* mark_backup_success starts, and writes or fails.
LEMMA StartRecordStep == ASSUME BackupInv, NEW r \in Run, StartRecord(r) PROVE BackupInv'
<1> USE DEF BackupInv
<1>1. /\ stage[r] = "pruned" /\ stage' = [stage EXCEPT ![r] = "recording"]
      /\ marks' = marks \cup {stamp[r]}
      /\ UNCHANGED <<clock, stamp, dump, files, lastAt, lastName, late, asked>>
  BY DEF StartRecord, RecordStage, rowVars
<1>2. stamp[r] \in Time /\ stage \in [Run -> {"idle", "waiting", "dumping", "dumped", "pruning",
                                              "pruned", "recording"}]
  BY <1>1 DEF TypeOK, LockOK, Active
<1>3. TypeOK'
  BY <1>1, <1>2 DEF TypeOK
<1>4. \A s \in Run : Active(s)' <=> Active(s)
  BY <1>1, <1>2 DEF Active
<1>5. LockOK' /\ DumpOK' /\ FilesOK'
  BY <1>1, <1>2, <1>4 DEF LockOK, DumpOK, Published, OwnFile, FilesOK
<1>6. Restorable(stamp[r])
  <2>1. /\ OwnFile(r) \in files /\ OwnFile(r).sound /\ OwnFile(r).name = stamp[r]
    BY <1>1, OwnFileStays DEF OwnFile, Published
  <2>. QED  BY <1>2, <2>1, DurationsNat DEF Restorable, Time
<1>7. RecordOK'
  BY <1>1, <1>6 DEF RecordOK, RecordedIsRestorable, Restorable
<1>. QED  BY <1>3, <1>5, <1>7

LEMMA MarkStep ==
    ASSUME BackupInv, NEW name \in marks, Record(name) \/ LoseRecord(name)
    PROVE  BackupInv'
<1> USE DEF BackupInv, runVars, rowVars
<1>1. /\ marks' = marks \ {name} /\ UNCHANGED <<clock, stage, stamp, dump, files, asked>>
      /\ name \in Time /\ clock \in Time
  BY DEF Record, LoseRecord, TypeOK
<1>2. TypeOK'
  BY <1>1 DEF Record, LoseRecord, TypeOK, Orphaned
<1>3. LockOK' /\ DumpOK' /\ FilesOK'
  BY <1>1 DEF LockOK, Active, DumpOK, OwnFile, FilesOK
<1>4. CASE LoseRecord(name)
  <2>1. RecordOK'
    BY <1>1, <1>4, RecordKept DEF LoseRecord
  <2>. QED  BY <1>2, <1>3, <2>1
<1>5. CASE Record(name)
  <2>1. lastAt' = clock /\ lastName' = name /\ late' = Orphaned(name)
    BY <1>5 DEF Record
  <2>2. ~Orphaned(name) => clock - name <= RunTime
    BY DEF Orphaned, LockOK, Active
  <2>3. name # NoTime /\ clock # NoTime
    BY <1>1, DurationsNat DEF Time, NoTime
  <2>4. RecordOK'
    BY <1>1, <2>1, <2>2, <2>3 DEF RecordOK, RecordedIsRestorable, Restorable
  <2>. QED  BY <1>2, <1>3, <2>4
<1>. QED  BY <1>4, <1>5

LEMMA RunnerStep ==
    ASSUME BackupInv, NEW r \in Run,
           Start(r) \/ Lock(r) \/ EndDump(r) \/ Publish(r) \/ Prune(r) \/ EndPrune(r)
    PROVE  BackupInv'
<1> USE DEF BackupInv, TypeOK, runVars, rowVars, markVars, Published
<1>0. stage \in [Run -> {"idle", "waiting", "dumping", "dumped", "pruning", "pruned",
                              "recording"}]
      /\ stamp \in [Run -> Time \cup {NoTime}] /\ dump \in [Run -> Dump] /\ clock \in Nat
      /\ \A f \in files : f.name \in Nat /\ f.mtime \in Nat
  BY DurationsNat DEF Time, File
<1>1. CASE Start(r)
  <2>1. TypeOK' /\ FilesOK' /\ RecordOK'
    BY <1>1 DEF Start, FilesOK, RecordOK, RecordedIsRestorable, Restorable
  <2>2. \A s \in Run : Active(s)' <=> Active(s)
    BY <1>0, <1>1 DEF Start, Active
  <2>3. LockOK' /\ DumpOK'
    BY <1>0, <1>1, <2>2 DEF Start, LockOK, DumpOK, OwnFile
  <2>4. QED
    BY <2>1, <2>3
<1>2. CASE Lock(r)
  <2>1. TypeOK' /\ FilesOK' /\ RecordOK'
    BY <1>2 DEF Lock, FilesOK, RecordOK, RecordedIsRestorable, Restorable, NoDump, Dump
  <2>2. \A s \in Run : Active(s)' <=> s = r
    BY <1>0, <1>2 DEF Lock, Active, Unlocked
  <2>3. clock # NoTime /\ clock - clock <= RunTime /\ \A s \in Run : stamp[s] = NoTime
    BY <1>0, <1>2, DurationsNat DEF NoTime, Lock, Unlocked, LockOK, Active
  <2>4. LockOK'
    BY <1>0, <1>2, <2>2, <2>3 DEF Lock, LockOK, FilesOK
  <2>5. DumpOK'
    BY <1>0, <1>2 DEF Lock, Unlocked, DumpOK
  <2>6. QED
    BY <2>1, <2>4, <2>5
<1>3. CASE EndDump(r)
  <2>1. TypeOK' /\ FilesOK' /\ RecordOK'
    BY <1>3 DEF EndDump, PipeSucceeds, FilesOK, RecordOK, RecordedIsRestorable, Restorable, Dump, Time
  <2>2. \A s \in Run : Active(s)' <=> Active(s)
    BY <1>0, <1>3 DEF EndDump, Active
  <2>3. LockOK'
    BY <1>3, <2>2 DEF EndDump, LockOK
  <2>4. DumpOK'
    <3>1. dump'[r].sound /\ stamp[r] <= dump'[r].mtime /\ dump'[r].mtime <= clock
      BY <1>0, <1>3 DEF EndDump, PipeSucceeds, LockOK, Active
    <3>2. QED
      BY <1>0, <1>3, <3>1 DEF EndDump, DumpOK, OwnFile
  <2>5. QED
    BY <2>1, <2>3, <2>4
<1>4. CASE Publish(r)
  <2>1. dump[r].sound /\ stamp[r] <= dump[r].mtime /\ dump[r].mtime <= clock /\ Active(r)
        /\ stamp[r] \in Time /\ dump[r].mtime \in Time
    BY <1>0, <1>4 DEF Publish, DumpOK, LockOK, Active, Dump, Time, NoTime
  <2>2. OwnFile(r) \in File /\ files' = files \cup {OwnFile(r)} /\ OwnFile(r).name = stamp[r]
        /\ OwnFile(r).sound
    BY <1>0, <1>4, <2>1 DEF Publish, File, OwnFile, Dump
  <2>3. TypeOK'
    BY <1>4, <2>2 DEF Publish
  <2>4. FilesOK' /\ RecordOK'
    BY <1>0, <1>4, <2>1, <2>2 DEF Publish, FilesOK, RecordOK, RecordedIsRestorable, Restorable, LockOK
  <2>5. \A s \in Run : Active(s)' <=> Active(s)
    BY <1>0, <1>4 DEF Publish, Active
  <2>6. LockOK'
    BY <1>4, <2>1, <2>2, <2>5 DEF Publish, LockOK, Time
  <2>7. DumpOK'
    BY <1>0, <1>4, <2>1, <2>2 DEF Publish, DumpOK, OwnFile
  <2>8. QED
    BY <2>3, <2>4, <2>6, <2>7
<1>5. CASE Prune(r)
  <2>1. PICK g \in files : Outdated(g) /\ files' = files \ {g}
    BY <1>5 DEF Prune
  <2>2. /\ UNCHANGED <<clock, stage, stamp, dump, lastAt, lastName, marks, late, asked>>
        /\ stage[r] = "pruning"
    BY <1>5 DEF Prune, PruneStage
  <2>3. OwnFile(r) \in files' /\ OwnFile(r).sound /\ \A f \in files : f.name <= OwnFile(r).name
    BY <2>1, <2>2, OwnFileStays
  <2>4. TypeOK' /\ FilesOK' /\ LockOK'
    BY <2>1, <2>2 DEF FilesOK, LockOK, Active
  <2>5. DumpOK'
    BY <2>2, <2>3 DEF DumpOK, OwnFile, LockOK, Active
  <2>6. RecordOK'
    <3>1. lastName # NoTime => lastName <= OwnFile(r).name
      BY <1>0, <2>3, OwnFileStays DEF RecordOK, RecordedIsRestorable, Restorable, OwnFile, Time, NoTime
    <3>2. \A name \in marks : name <= OwnFile(r).name
      <4>1. OwnFile(r).name \in Nat /\ \A name \in marks : name \in Nat
        BY <1>0, <2>3, <2>1 DEF Time
      <4>. QED  BY <1>0, <2>3, <4>1 DEF RecordOK, Restorable
    <3>. QED
      BY <2>2, <2>3, <3>1, <3>2 DEF RecordOK, RecordedIsRestorable, Restorable
  <2>7. QED
    BY <2>4, <2>5, <2>6
<1>6. CASE EndPrune(r)
  <2>1. TypeOK' /\ FilesOK' /\ RecordOK'
    BY <1>6 DEF EndPrune, FilesOK, RecordOK, RecordedIsRestorable, Restorable
  <2>2. \A s \in Run : Active(s)' <=> Active(s)
    BY <1>0, <1>6 DEF EndPrune, Active
  <2>3. LockOK' /\ DumpOK'
    BY <1>0, <1>6, <2>2 DEF EndPrune, LockOK, DumpOK, OwnFile
  <2>4. QED
    BY <2>1, <2>3
<1>7. QED
  BY <1>1, <1>2, <1>3, <1>4, <1>5, <1>6

LEMMA BackupStep == BackupInv /\ [Next]_vars => BackupInv'
<1> SUFFICES ASSUME BackupInv, [Next]_vars PROVE BackupInv'
    OBVIOUS
<1>1. ASSUME NEW r \in Run, EndRun(r) \/ Abort(r) PROVE BackupInv'
  BY <1>1, LeaveStep DEF EndRun, Abort
<1>2. ASSUME NEW q \in Reader, Ask(q) \/ Answer(q) PROVE BackupInv'
  <2>1. UNCHANGED <<clock, stage, stamp, dump, files, lastAt, lastName, marks, late>>
        /\ asked' \in [Reader -> Time \cup {NoTime}]
    BY <1>2 DEF Ask, Answer, runVars, rowVars, markVars, BackupInv, TypeOK
  <2>2. QED
    BY <2>1 DEF BackupInv, TypeOK, LockOK, Active, DumpOK, OwnFile, FilesOK, RecordOK,
       RecordedIsRestorable, Restorable
<1>3. CASE Tick
  <2> USE <1>3 DEF Tick, runVars, rowVars, markVars, BackupInv
  <2>1. TypeOK'
    BY DurationsNat DEF TypeOK, Time
  <2>2. clock \in Nat /\ clock' = clock + 1 /\ stamp \in [Run -> Time \cup {NoTime}]
        /\ dump \in [Run -> Dump] /\ files \subseteq File
    BY DurationsNat DEF TypeOK, Time
  <2>3. FilesOK'
    BY <2>2 DEF FilesOK, File, Time
  <2>4. LockOK'
    BY <2>2, DurationsNat DEF LockOK, Active, Time, NoTime
  <2>5. DumpOK'
    BY <2>2 DEF DumpOK, OwnFile, Dump, Time, NoTime
  <2>6. RecordOK'
    BY RecordKept
  <2>7. QED
    BY <2>1, <2>3, <2>4, <2>5, <2>6
<1>4. CASE UNCHANGED vars
  BY <1>4 DEF vars, BackupInv, TypeOK, LockOK, Active, DumpOK, OwnFile, FilesOK, RecordOK,
     RecordedIsRestorable, Restorable
<1>5. QED
  BY <1>1, <1>2, <1>3, <1>4, RunnerStep, StartRecordStep, MarkStep DEF Next, RunStep

\* A published file is a whole dump.
THEOREM PublishedSound == Spec => []PublishedIsSound
<1>1. BackupInv => PublishedIsSound
  BY DEF BackupInv, FilesOK, PublishedIsSound
<1>2. QED
  BY <1>1, BackupInit, BackupStep, PTL DEF Spec

\* What the row names as the last backup, or a newer one, can be restored.
THEOREM RecordedRestorable == Spec => []RecordedIsRestorable
<1>1. BackupInv => RecordedIsRestorable
  BY DEF BackupInv, RecordOK
<1>2. QED
  BY <1>1, BackupInit, BackupStep, PTL DEF Spec

\* Once a backup exists there is one for ever.
THEOREM SomeFileStays == Spec => NeverWithout
<1>1. ASSUME BackupInv, [Next]_vars, files # {} PROVE files' # {}
  <2>1. ASSUME NEW r \in Run, Prune(r) PROVE files' # {}
    BY <1>1, <2>1, OwnFileStays DEF Prune, PruneStage, Published
  <2>2. ASSUME NEW r \in Run, Publish(r) PROVE files' # {}
    BY <2>2 DEF Publish
  <2>3. CASE UNCHANGED files
    BY <1>1, <2>3
  <2>4. QED
    BY <1>1, <2>1, <2>2, <2>3 DEF Next, RunStep, Start, Lock, EndDump, EndPrune, StartRecord, EndRun, Record,
       LoseRecord, Abort, Ask, Answer, Tick, vars
<1>2. QED
  BY <1>1, BackupInit, BackupStep, PTL DEF Spec, NeverWithout

\* Runs record in the order of their files, but for those whose client died while
\* it waited for the record.
THEOREM RecordNewest == Spec => RecordIsNewest
<1>1. ASSUME BackupInv, [Next]_vars, lastName' # lastName, ~Orphaned(lastName')
      PROVE  \A f \in files : f.name <= lastName'
  <2>1. PICK name \in marks : Record(name)
    BY <1>1 DEF Next, RunStep, Start, Lock, EndDump, Publish, Prune, EndPrune, StartRecord, EndRun,
       LoseRecord, Abort, Ask, Answer, Tick, rowVars, vars
  <2>2. lastName' = name
    BY <2>1 DEF Record
  <2>3. PICK r \in Run : stage[r] = "recording" /\ stamp[r] = name
    BY <1>1, <2>2 DEF Orphaned
  <2>. QED
    BY <1>1, <2>2, <2>3, OwnFileStays DEF OwnFile, Published
<1>2. BackupInv /\ [Next]_vars /\ lastName' # lastName =>
         (\A f \in files : f.name <= lastName') \/ Orphaned(lastName')
  BY <1>1
<1>3. QED
  BY <1>2, BackupInit, BackupStep, PTL DEF Spec, RecordIsNewest

\* A status page that says "ok" vouches for data of the promised age, up to the time
\* of a run: the lock is held from the name to the end of the record, and retention
\* spares the newest file.
THEOREM OkVouches == Spec => OkMeansRecent
<1>1. ASSUME BackupInv, NEW q \in Reader, asked[q] # NoTime, BackupStatus(asked[q]) = "ok", ~late
      PROVE  \E f \in files : f.sound /\ f.name >= asked[q] - StaleAfter - RunTime
  <2>1. /\ lastAt # NoTime /\ lastName # NoTime /\ asked[q] - lastAt <= StaleAfter
        /\ lastAt - lastName <= RunTime
    BY <1>1 DEF BackupStatus, AgeStatus, BackupInv, RecordOK
  <2>2. /\ {lastAt, lastName, asked[q], StaleAfter, RunTime} \subseteq Nat
        /\ \A f \in files : f.name \in Nat
    BY <1>1, <2>1, DurationsNat DEF BackupInv, TypeOK, Time, File
  <2>3. PICK f \in files : f.sound /\ f.name >= lastName
    BY <1>1, <2>1 DEF BackupInv, RecordOK, RecordedIsRestorable
  <2>. QED  BY <2>1, <2>2, <2>3
<1>2. BackupInv =>
         \A q \in Reader :
            asked[q] # NoTime /\ asked'[q] = NoTime /\ BackupStatus(asked[q]) = "ok"
               => \/ late
                  \/ \E f \in files : f.sound /\ f.name >= asked[q] - StaleAfter - RunTime
  BY <1>1
<1>3. QED
  BY <1>2, BackupInit, BackupStep, PTL DEF Spec, OkMeansRecent
=============================================================================
