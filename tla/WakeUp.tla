-------------------------------- MODULE WakeUp --------------------------------
(***************************************************************************)
(* How a worker waits between cycles and is woken when a user asks for a   *)
(* check: PollSchedule with the wake-up of wake_scheduler, which web       *)
(* requests send after their commit.                                       *)
(*                                                                         *)
(* In "redis" mode the worker's loop waits on a list that holds one token  *)
(* at most (LPUSH, then LTRIM; an element more in between would only be    *)
(* one more cycle), or on a local event when Redis fails.  In "local" mode *)
(* LocalScheduler's thread waits on its event, which it clears after the   *)
(* wait; its cycles do no mail verification.                               *)
(***************************************************************************)
EXTENDS PollSchedule

VARIABLES
    mode,     \* "redis" or "local"
    wait,     \* what an idle worker waits on; "none" before its next cycle
    token,    \* the list holds a token, or the event is set
    notices,  \* wake-ups of committed requests still to be sent, by their task
    hinted,   \* history: tasks that wake-ups which arrived have asked for
    owed      \* history: a wake-up has arrived since a cycle last began

wakeVars == <<mode, wait, token, notices, hinted, owed>>

WakeTypeOK ==
    /\ mode \in {"redis", "local"}
    /\ wait \in [Worker -> {"none", "redis", "fallback", "event", "woken"}]
    /\ token \in BOOLEAN /\ owed \in BOOLEAN
    /\ notices \subseteq Task \cup {NoTask}
    /\ hinted \subseteq Task

WakeInit ==
    /\ Init
    /\ mode \in {"redis", "local"}
    /\ wait = [w \in Worker |-> "none"]
    /\ token = FALSE /\ notices = {} /\ hinted = {} /\ owed = FALSE

-----------------------------------------------------------------------------
(* The worker's loop.                                                      *)

Cycle(w) ==
    /\ wait[w] = "none" /\ StartCycle(w)
    /\ owed' = FALSE
    /\ UNCHANGED <<mode, wait, token, notices, hinted>>

Claim(w) ==
    /\ ClaimTask(w)
    /\ hinted' = {t \in hinted : claim'[t] # w}
    /\ UNCHANGED <<mode, wait, token, notices, owed>>

\* Mutant: the worker waits after a cycle that checked a task.
WaitsAlways(worked) == {"redis"}
\* What the loop does after a cycle; mail and expiry are work as well.
WaitsAfter(worked) == IF worked THEN {"none"} ELSE {"none", "redis"}

\* Mutant: the event is cleared before the wait instead of after it.
TokenDropped == mode = "redis" /\ token
TokenKept == token

EndCycle(w, worked) ==
    /\ \E next \in IF mode = "local" THEN {"event"} ELSE WaitsAfter(worked) :
          wait' = [wait EXCEPT ![w] = next]
    /\ token' = TokenKept
    /\ UNCHANGED <<mode, notices, owed>>

EndCheck(w) == (FinishCheck(w) \/ DiscardCheck(w)) /\ EndCycle(w, TRUE) /\ hinted' = hinted

\* A hinted task whose row was held leaves the history: it waits for a scan.
EndIdle(w) ==
    /\ NothingDue(w) /\ EndCycle(w, FALSE)
    /\ hinted' = {t \in hinted : passed'[t] = passed[t]}

\* BRPOP answers.
Pop(w) ==
    /\ wait[w] = "redis" /\ token
    /\ token' = FALSE
    /\ wait' = [wait EXCEPT ![w] = "none"]
    /\ UNCHANGED <<vars, mode, notices, hinted, owed>>

\* Redis restarts with an empty list; a waiting worker falls back to its event.
RedisFails ==
    /\ mode = "redis"
    /\ token' = FALSE /\ hinted' = {} /\ owed' = FALSE
    /\ wait' = [w \in Worker |-> IF wait[w] = "redis" THEN "fallback" ELSE wait[w]]
    /\ UNCHANGED <<vars, mode, notices>>

TimeOut(w) ==
    /\ wait[w] \in {"redis", "fallback"}
    /\ wait' = [wait EXCEPT ![w] = "none"]
    /\ UNCHANGED <<vars, mode, token, notices, hinted, owed>>

\* LocalScheduler.run: the wait ends, by the event or in time, and the event is
\* cleared in a second step.
EndWait(w) ==
    /\ wait[w] = "event"
    /\ wait' = [wait EXCEPT ![w] = "woken"]
    /\ UNCHANGED <<vars, mode, token, notices, hinted, owed>>

Clear(w) ==
    /\ wait[w] = "woken"
    /\ token' = FALSE
    /\ wait' = [wait EXCEPT ![w] = "none"]
    /\ UNCHANGED <<vars, mode, notices, hinted, owed>>

-----------------------------------------------------------------------------
(* Web requests.                                                           *)

Ask(t) ==
    /\ RunNow(t) \/ ResumeTask(t)
    /\ notices' = notices \cup {t}
    /\ hinted' = hinted \ {t}
    /\ UNCHANGED <<mode, wait, token, owed>>

Reschedule ==
    /\ \E s \in Setting : EditSettings(s)
    /\ notices' = notices \cup {NoTask}
    /\ hinted' = {}
    /\ UNCHANGED <<mode, wait, token, owed>>

Pause(t) ==
    /\ PauseTask(t)
    /\ hinted' = hinted \ {t}
    /\ UNCHANGED <<mode, wait, token, notices, owed>>

\* wake_scheduler on commit.  The history leaves aside a task that a worker has
\* claimed since, or that is no longer due; a task asked for again waits for the
\* wake-up of its new schedule.
Notify(n) ==
    /\ n \in notices
    /\ notices' = notices \ {n}
    /\ token' = TRUE /\ owed' = TRUE
    /\ hinted' = hinted \cup {t \in Task : t = n /\ claim[t] = NoWorker /\ Due(t, clock)}
    /\ UNCHANGED <<vars, mode, wait>>

\* Redis cannot be reached: the request has committed, its wake-up is lost.
LoseNotice(n) ==
    /\ mode = "redis" /\ n \in notices
    /\ notices' = notices \ {n}
    /\ UNCHANGED <<vars, mode, wait, token, hinted, owed>>

WakeNext ==
    \/ \E w \in Worker :
          \/ Cycle(w) \/ Claim(w) \/ EndCheck(w) \/ EndIdle(w)
          \/ Pop(w) \/ TimeOut(w) \/ EndWait(w) \/ Clear(w)
    \/ RedisFails
    \/ \E t \in Task : Ask(t) \/ Pause(t)
    \/ Reschedule
    \/ \E n \in notices : Notify(n) \/ LoseNotice(n)
    \/ Tick /\ UNCHANGED wakeVars

WakeSpec == WakeInit /\ [][WakeNext]_<<vars, wakeVars>>

-----------------------------------------------------------------------------
\* A wake-up that arrived is followed by a cycle without waiting for a timeout,
\* at whatever point of the worker's loop it arrived, in particular between
\* LocalScheduler's wait and clear: on Redis and in local mode.  It does not hold
\* of the worker's fallback, which waits on the event that stops the process: a
\* wake-up is slept through there until the wait ends, after IdleTime at most.
WakeIsNotLost ==
    \A w \in Worker : wait[w] \in {"redis", "event"} /\ ~token => ~owed

\* A worker on Redis does not wait while a task is due whose request has woken
\* it, unless another transaction held its row when the last cycle looked for
\* work: one token is enough for all tasks asked for at once, because a cycle
\* that checked a task is followed by another one.
HintedTaskIsTaken ==
    \A w \in Worker : wait[w] = "redis" /\ ~token => hinted = {}
=============================================================================
