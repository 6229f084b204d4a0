-------------------------------- MODULE Backup --------------------------------
(***************************************************************************)
(* The daily backup: runs of backup-postgres.sh started by the timer or by *)
(* hand, the published files, the record in the RuntimeState row and the   *)
(* status page that reads it.                                              *)
(*                                                                         *)
(* A run may end at any point, by a failing command (set -e), a signal or  *)
(* a kill; what it leaves besides the published files is a temporary file  *)
(* that nothing reads, which is left out.  The lock of flock belongs to    *)
(* the run and to the commands it has started on the host.  The last of    *)
(* them, docker compose exec, only waits for mark_backup_success, which    *)
(* runs in the web container and does not have the lock: it may write      *)
(* after its client was killed.  A file is named after the second at       *)
(* which its run got the lock, so a name is a time.                        *)
(***************************************************************************)
EXTENDS Integers, FiniteSets

CONSTANTS
    Run,         \* invocations of the script
    Reader,      \* requests for the status page
    Retention,   \* age up to which files are kept (-mtime +7: a week)
    StaleAfter,  \* BACKUP_STALE_AFTER
    RunTime,     \* longest time a run holds the lock; no command of it limits it
    Horizon      \* bound on the clock

ASSUME DurationsNat == {Retention, StaleAfter, RunTime, Horizon} \subseteq Nat
\* A run that lasted longer than a week would delete its own file.
ASSUME RunsAreShort == RunTime <= Retention

NoTime == -1
Time == 0..Horizon

VARIABLES
    clock,
    stage,      \* where each run is
    stamp,      \* STAMP of a run
    dump,       \* its temporary file: whether pg_dump ended well, and its mtime
    files,      \* published files: name, soundness and mtime
    lastAt,     \* RuntimeState.last_backup_at
    lastName,   \* RuntimeState.last_backup_name
    marks,      \* names for which mark_backup_success is at work in the container
    late,       \* history: the client of the last record had died
    asked       \* the clock reading of a status request under way

vars == <<clock, stage, stamp, dump, files, lastAt, lastName, marks, late, asked>>
runVars == <<stage, stamp, dump>>
rowVars == <<lastAt, lastName>>
markVars == <<marks, late>>

Dump == [sound : BOOLEAN, mtime : Time \cup {NoTime}]
File == [name : Time, sound : BOOLEAN, mtime : Time]
NoDump == [sound |-> FALSE, mtime |-> NoTime]

TypeOK ==
    /\ clock \in Time
    /\ stage \in [Run -> {"idle", "waiting", "dumping", "dumped", "pruning", "pruned", "recording"}]
    /\ stamp \in [Run -> Time \cup {NoTime}]
    /\ dump \in [Run -> Dump]
    /\ files \subseteq File
    /\ lastAt \in Time \cup {NoTime} /\ lastName \in Time \cup {NoTime}
    /\ marks \subseteq Time /\ late \in BOOLEAN
    /\ asked \in [Reader -> Time \cup {NoTime}]

Init ==
    /\ clock = 0
    /\ stage = [r \in Run |-> "idle"]
    /\ stamp = [r \in Run |-> NoTime]
    /\ dump = [r \in Run |-> NoDump]
    /\ files = {}
    /\ lastAt = NoTime /\ lastName = NoTime
    /\ marks = {} /\ late = FALSE
    /\ asked = [q \in Reader |-> NoTime]

-----------------------------------------------------------------------------
(* The script.                                                             *)

Start(r) ==
    /\ stage[r] = "idle"
    /\ stage' = [stage EXCEPT ![r] = "waiting"]
    /\ UNCHANGED <<clock, stamp, dump, files, rowVars, markVars, asked>>

\* Mutant: runs do not wait for each other.
NeverLocked == TRUE
Unlocked == \A r \in Run : stage[r] \in {"idle", "waiting"}

\* flock, then the name, which must be free, and the temporary file.
Lock(r) ==
    /\ stage[r] = "waiting" /\ Unlocked
    /\ \A f \in files : f.name # clock
    /\ stage' = [stage EXCEPT ![r] = "dumping"]
    /\ stamp' = [stamp EXCEPT ![r] = clock]
    /\ dump' = [dump EXCEPT ![r] = NoDump]
    /\ UNCHANGED <<clock, files, rowVars, markVars, asked>>

\* Mutant: the failure of pg_dump is lost in the pipe to gzip.
AnyExit(sound) == TRUE
PipeSucceeds(sound) == sound

\* pg_dump | gzip has ended; the failure of either ends the run.
EndDump(r) ==
    /\ stage[r] = "dumping"
    /\ \E sound \in BOOLEAN :
          /\ PipeSucceeds(sound)
          /\ dump' = [dump EXCEPT ![r] = [sound |-> sound, mtime |-> clock]]
    /\ stage' = [stage EXCEPT ![r] = "dumped"]
    /\ UNCHANGED <<clock, stamp, files, rowVars, markVars, asked>>

\* ln, which replaces nothing.
Publish(r) ==
    /\ stage[r] = "dumped"
    /\ \A f \in files : f.name # stamp[r]
    /\ files' = files \cup {[name |-> stamp[r], sound |-> dump[r].sound, mtime |-> dump[r].mtime]}
    /\ stage' = [stage EXCEPT ![r] = "pruning"]
    /\ UNCHANGED <<clock, stamp, dump, rowVars, markVars, asked>>

\* Mutant: old files make room before the new one is there.
PruneStages == {"dumping", "pruning"}
PruneStage == {"pruning"}

Outdated(f) == clock - f.mtime > Retention

\* find -delete, file by file.
Prune(r) ==
    /\ stage[r] \in PruneStage
    /\ \E f \in files : Outdated(f) /\ files' = files \ {f}
    /\ UNCHANGED <<clock, runVars, rowVars, markVars, asked>>

EndPrune(r) ==
    /\ stage[r] = "pruning"
    /\ \A f \in files : ~Outdated(f)
    /\ stage' = [stage EXCEPT ![r] = "pruned"]
    /\ UNCHANGED <<clock, stamp, dump, files, rowVars, markVars, asked>>

\* Mutant: the backup is recorded before it is published.
DumpedStage == {"dumped"}
RecordStage == {"pruned"}

Leave(r) ==
    /\ stage' = [stage EXCEPT ![r] = "idle"]
    /\ stamp' = [stamp EXCEPT ![r] = NoTime]
    /\ dump' = [dump EXCEPT ![r] = NoDump]

\* docker compose exec starts mark_backup_success, the last command of a run.
StartRecord(r) ==
    /\ stage[r] \in RecordStage
    /\ stage' = [stage EXCEPT ![r] = "recording"]
    /\ marks' = marks \cup {stamp[r]}
    /\ UNCHANGED <<clock, stamp, dump, files, rowVars, late, asked>>

Orphaned(name) == \A r \in Run : ~(stage[r] = "recording" /\ stamp[r] = name)

\* mark_backup_success writes, or fails, whether or not its client is still there.
Record(name) ==
    /\ name \in marks
    /\ marks' = marks \ {name}
    /\ lastAt' = clock /\ lastName' = name
    /\ late' = Orphaned(name)
    /\ UNCHANGED <<clock, runVars, files, asked>>

LoseRecord(name) ==
    /\ name \in marks
    /\ marks' = marks \ {name}
    /\ UNCHANGED <<clock, runVars, files, rowVars, late, asked>>

\* The client has the exit status of the command.
EndRun(r) ==
    /\ stage[r] = "recording" /\ stamp[r] \notin marks
    /\ Leave(r)
    /\ UNCHANGED <<clock, files, rowVars, markVars, asked>>

\* The end of a run before that, by an error, a signal or a kill: what it has
\* started in the container goes on.
Abort(r) ==
    /\ stage[r] # "idle"
    /\ Leave(r)
    /\ UNCHANGED <<clock, files, rowVars, markVars, asked>>

-----------------------------------------------------------------------------
(* The status page.                                                        *)

\* collect_runtime_status reads the clock, then the row.
Ask(q) ==
    /\ asked[q] = NoTime
    /\ asked' = [asked EXCEPT ![q] = clock]
    /\ UNCHANGED <<clock, runVars, files, rowVars, markVars>>

AgeStatus(age) == IF 0 <= age /\ age <= StaleAfter THEN "ok" ELSE "stale"

BackupStatus(at) == IF lastAt = NoTime THEN "missing" ELSE AgeStatus(at - lastAt)

Answer(q) ==
    /\ asked[q] # NoTime
    /\ asked' = [asked EXCEPT ![q] = NoTime]
    /\ UNCHANGED <<clock, runVars, files, rowVars, markVars>>

Tick ==
    /\ clock < Horizon
    /\ \A r \in Run : stamp[r] # NoTime => clock - stamp[r] < RunTime
    /\ clock' = clock + 1
    /\ UNCHANGED <<runVars, files, rowVars, markVars, asked>>

RunStep(r) ==
    \/ Start(r) \/ Lock(r) \/ EndDump(r) \/ Publish(r) \/ Prune(r) \/ EndPrune(r)
    \/ StartRecord(r) \/ EndRun(r) \/ Abort(r)

Next ==
    \/ \E r \in Run : RunStep(r)
    \/ \E name \in marks : Record(name) \/ LoseRecord(name)
    \/ \E q \in Reader : Ask(q) \/ Answer(q)
    \/ Tick

Spec == Init /\ [][Next]_vars

-----------------------------------------------------------------------------
\* A published file is a whole dump: what fails or is killed before never gets
\* the name that retention, verification and operators look for.
PublishedIsSound == \A f \in files : f.sound

\* Retention never takes the last backup, however long dumps have been failing:
\* only a run that has just published a file deletes older ones.
NeverWithout == [][files # {} => files' # {}]_vars

\* What the row names as the last backup can be restored, from the named file
\* or from a newer one, through failed, killed and competing runs.
RecordedIsRestorable ==
    lastName # NoTime => \E f \in files : f.sound /\ f.name >= lastName

\* The record falls back to an older backup only by a run whose client died while
\* it waited for the record: other runs record in the order of their files.
RecordIsNewest ==
    [][lastName' # lastName =>
          (\A f \in files : f.name <= lastName') \/ Orphaned(lastName')]_vars

\* A page that shows the backup as ok vouches for its data: there is a whole
\* backup of that age, counted from the time its data were read, up to the time
\* a run takes.  The row holds the time of the record only, and the page reads
\* the clock before the row.  The record of a run whose client died may come any
\* time later and promises nothing.
OkMeansRecent ==
    [][\A q \in Reader :
          asked[q] # NoTime /\ asked'[q] = NoTime /\ BackupStatus(asked[q]) = "ok"
             => \/ late
                \/ \E f \in files : f.sound /\ f.name >= asked[q] - StaleAfter - RunTime]_vars
=============================================================================
