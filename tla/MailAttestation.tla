---------------------------- MODULE MailAttestation ----------------------------
(***************************************************************************)
(* The single AgentMailConfig row, which says whether mail may be sent.    *)
(* Four kinds of writers share it: web requests for a test mail, workers   *)
(* that send the test or check their identity, workers whose delivery      *)
(* failed, and the preflight command.  The mail CLI runs outside any       *)
(* transaction; its result is written under a fence: the claim token and   *)
(* the request for tests, updated_at for everything else.                  *)
(*                                                                         *)
(* updated_at (stamp) only matters as to equality.  A worker writes the    *)
(* one clock reading of its cycle into it, the others read the clock anew. *)
(***************************************************************************)
EXTENDS Integers, FiniteSets

CONSTANTS
    Worker,
    Operator,     \* people who run agent_mail_preflight
    MaxRequests,  \* bound on requests for a test mail
    MaxRetries,   \* Len(IDENTITY_RETRY_MINUTES)
    NoWorker

ASSUME ProcsFinite == IsFiniteSet(Worker \cup Operator) /\ Worker \cap Operator = {}
ASSUME LimitsNat == MaxRequests \in Nat /\ MaxRetries \in Nat \ {0}
ASSUME NoWorkerFresh == NoWorker \notin Worker

Proc == Worker \cup Operator

NoReading == 0
Reading == 1..(2 * Cardinality(Worker) + Cardinality(Operator) + 2)

VARIABLES
    config,    \* the AgentMailConfig row
    healthy,   \* every call of the mail CLI succeeds
    saved,     \* web requests for a test that have stored their recipient
    pc,        \* next step of each process
    local      \* what a process remembers

vars == <<config, healthy, saved, pc, local>>

Status == {"PENDING", "VERIFIED", "FAILED"}
Error == {"network", "broken"}
WorkerStage == {"down", "idle", "claim", "test", "answer", "read", "identify",
                "record", "deliver", "revoke"}
OperatorStage == {"off", "reset", "refresh", "call", "mark"}

Config == [verified : BOOLEAN,
           status   : Status,
           request  : 0..MaxRequests,             \* verification_requested_at
           token    : Worker \cup {NoWorker},     \* verification_claim_token
           lease    : {"free", "held", "lapsed"}, \* verification_claim_expires_at
           retries  : 0..MaxRetries,              \* verification_retry_count
           retryAt  : {"none", "later", "due"},   \* verification_next_attempt_at
           aged     : BOOLEAN,   \* verification_completed_at unset or six hours old
           stamp    : Reading]   \* updated_at

Local == [now     : Reading \cup {NoReading},
          forced  : BOOLEAN,                      \* force_identity
          request : 0..MaxRequests,               \* MailVerificationClaim.requested_at
          stamp   : Reading \cup {NoReading},     \* updated_at as read
          retries : 0..MaxRetries,                \* verification_retry_count as read
          result  : {"none", "ok"} \cup Error]

Blank == [now |-> NoReading, forced |-> FALSE, request |-> 0, stamp |-> NoReading,
          retries |-> 0, result |-> "none"]

TypeOK ==
    /\ config \in Config
    /\ healthy \in BOOLEAN /\ saved \in 0..MaxRequests
    /\ pc \in [Proc -> WorkerStage \cup OperatorStage]
    /\ \A w \in Worker : pc[w] \in WorkerStage
    /\ \A p \in Operator : pc[p] \in OperatorStage
    /\ local \in [Proc -> Local]

Init ==
    /\ config = [verified |-> FALSE, status |-> "FAILED", request |-> 0,
                 token |-> NoWorker, lease |-> "free", retries |-> 0,
                 retryAt |-> "none", aged |-> TRUE, stamp |-> 1]
    /\ healthy \in BOOLEAN /\ saved = 0
    /\ pc = [p \in Proc |-> IF p \in Worker THEN "down" ELSE "off"]
    /\ local = [p \in Proc |-> Blank]

\* A reading of the clock that nobody holds.
Fresh ==
    LET used == {config.stamp} \cup UNION {{local[p].now, local[p].stamp} : p \in Proc}
    IN  CHOOSE r \in Reading : r \notin used

-----------------------------------------------------------------------------
(* What the writers store.                                                 *)

NoRetry == [retries |-> 0, retryAt |-> "none"]

\* _identity_retry_values, with the count as read before the call.
RetryAfter(result, retries) ==
    IF result # "network" THEN NoRetry
    ELSE [retries |-> IF retries < MaxRetries THEN retries + 1 ELSE MaxRetries,
          retryAt |-> "later"]

\* Mutant: the claim of the request stays behind.
ConcludedKeepingClaim(ok, retry, now) ==
    [config EXCEPT !.verified = ok, !.status = IF ok THEN "VERIFIED" ELSE "FAILED",
                   !.retries = retry.retries, !.retryAt = retry.retryAt,
                   !.aged = FALSE, !.stamp = now]

\* _verification_values: the outcome of a call at the time now.
Concluded(ok, retry, now) ==
    [config EXCEPT !.verified = ok,
                   !.status = IF ok THEN "VERIFIED" ELSE "FAILED",
                   !.token = NoWorker, !.lease = "free",
                   !.retries = retry.retries, !.retryAt = retry.retryAt,
                   !.aged = FALSE, !.stamp = now]

\* The fence of identity checks and preflight.
\* Mutant: a request made during the call is not excluded.
UnchangedStamp(p) == config.stamp = local[p].stamp
UnchangedSince(p) == config.stamp = local[p].stamp /\ config.status # "PENDING"

-----------------------------------------------------------------------------
(* Web request and command line.                                           *)

\* Mutant: a repeated request leaves the retry time of the last check.
RenewedOnly == [config EXCEPT !.status = "PENDING", !.request = @ + 1, !.token = NoWorker,
                              !.lease = "free", !.retries = 0, !.stamp = Fresh]
Requested == [config EXCEPT !.status = "PENDING", !.request = @ + 1, !.token = NoWorker,
                            !.lease = "free", !.retries = 0, !.retryAt = "none",
                            !.stamp = Fresh]

\* mail_test stores the recipient in a transaction of its own, which moves
\* updated_at.  A request that dies then is one that never goes on.
SaveRecipient ==
    /\ saved < MaxRequests
    /\ saved' = saved + 1
    /\ config' = [config EXCEPT !.stamp = Fresh]
    /\ UNCHANGED <<healthy, pc, local>>

\* request_mail_verification; the flag stays as it is until the test.
RequestTest ==
    /\ config.request < saved
    /\ config' = Requested
    /\ UNCHANGED <<healthy, saved, pc, local>>

Goto(p, stage) == pc' = [pc EXCEPT ![p] = stage]
Forget(p) == local' = [local EXCEPT ![p] = Blank]
StartPreflight(p) ==
    /\ pc[p] = "off"
    /\ local' = [local EXCEPT ![p].stamp = config.stamp]
    /\ Goto(p, "reset")
    /\ UNCHANGED <<config, healthy, saved>>

\* _reset_verification, and its refusal if the row was written since.  The retry
\* of an identity check stays scheduled.
ResetVerification(p) ==
    /\ pc[p] = "reset"
    /\ \/ /\ UnchangedSince(p)
          /\ config' = Concluded(FALSE, config, Fresh)
          /\ Goto(p, "refresh")
          /\ UNCHANGED local
       \/ /\ ~UnchangedSince(p)
          /\ Goto(p, "off")
          /\ Forget(p)
          /\ UNCHANGED config
    /\ UNCHANGED <<healthy, saved>>

RefreshConfig(p) ==
    /\ pc[p] = "refresh"
    /\ local' = [local EXCEPT ![p].stamp = config.stamp]
    /\ Goto(p, "call")
    /\ UNCHANGED <<config, healthy, saved>>

\* The CLI answers p.
CallMail(p, stage) ==
    /\ \E result \in {"ok"} \cup Error :
          /\ healthy => result = "ok"
          /\ local' = [local EXCEPT ![p].result = result]
    /\ Goto(p, stage)
    /\ UNCHANGED <<config, healthy, saved>>

CallPreflight(p) == pc[p] = "call" /\ CallMail(p, "mark")

\* _mark_verified, _mark_failed.
MarkPreflight(p) ==
    /\ pc[p] = "mark"
    /\ config' = IF UnchangedSince(p)
                 THEN Concluded(local[p].result = "ok", config, Fresh) ELSE config
    /\ Goto(p, "off")
    /\ Forget(p)
    /\ UNCHANGED <<healthy, saved>>

PreflightDies(p) ==
    /\ pc[p] # "off"
    /\ Goto(p, "off")
    /\ Forget(p)
    /\ UNCHANGED <<config, healthy, saved>>

Preflight(p) ==
    \/ StartPreflight(p) \/ ResetVerification(p) \/ RefreshConfig(p)
    \/ CallPreflight(p) \/ MarkPreflight(p) \/ PreflightDies(p)

-----------------------------------------------------------------------------
(* The worker: process_mail_verification.                                  *)

\* The start of run_forever, which forces an identity check, or of run_once.
StartCycle(w) ==
    /\ pc[w] \in {"down", "idle"}
    /\ local' = [local EXCEPT ![w].now = Fresh, ![w].forced = pc[w] = "down"]
    /\ Goto(w, "claim")
    /\ UNCHANGED <<config, healthy, saved>>

\* Mutant: a lapsed lease is never taken over.
PendingUnclaimed == config.status = "PENDING" /\ config.request > 0 /\ config.lease = "free"
Claimable == config.status = "PENDING" /\ config.request > 0 /\ config.lease # "held"

ClaimRequest(w) ==
    /\ pc[w] = "claim" /\ Claimable
    /\ config' = [config EXCEPT !.token = w, !.lease = "held", !.stamp = local[w].now]
    /\ local' = [local EXCEPT ![w].request = config.request]
    /\ Goto(w, "test")
    /\ UNCHANGED <<healthy, saved>>

NothingToClaim(w) ==
    /\ pc[w] = "claim" /\ ~Claimable
    /\ Goto(w, "read")
    /\ UNCHANGED <<config, healthy, saved, local>>

\* The end of process_mail_verification; the delivery of the same cycle uses
\* the same clock reading, a forced check is not followed by one.
EndVerification(w) ==
    IF local[w].forced
    THEN Goto(w, "idle") /\ Forget(w)
    ELSE Goto(w, "deliver") /\ local' = [local EXCEPT ![w] = [Blank EXCEPT !.now = local[w].now]]

SendTest(w) == pc[w] = "test" /\ CallMail(w, "answer")

StillClaimed(w) ==
    config.status = "PENDING" /\ config.request = local[w].request /\ config.token = w

\* _complete_claim
CompleteClaim(w) ==
    /\ pc[w] = "answer"
    /\ config' = IF StillClaimed(w)
                 THEN Concluded(local[w].result = "ok", NoRetry, local[w].now) ELSE config
    /\ EndVerification(w)
    /\ UNCHANGED <<healthy, saved>>

\* Mutant: only the age of the last check counts, a retry is never due.
IdentityAged == config.retryAt = "none" /\ config.aged
IdentityDue == IF config.retryAt = "none" THEN config.aged ELSE config.retryAt = "due"

ReadConfig(w) ==
    /\ pc[w] = "read"
    /\ config.status # "PENDING" /\ (local[w].forced \/ IdentityDue)
    /\ local' = [local EXCEPT ![w].stamp = config.stamp, ![w].retries = config.retries]
    /\ Goto(w, "identify")
    /\ UNCHANGED <<config, healthy, saved>>

SkipIdentity(w) ==
    /\ pc[w] = "read"
    /\ config.status = "PENDING" \/ ~(local[w].forced \/ IdentityDue)
    /\ EndVerification(w)
    /\ UNCHANGED <<config, healthy, saved>>

CheckIdentity(w) == pc[w] = "identify" /\ CallMail(w, "record")

RecordIdentity(w) ==
    LET ok == local[w].result = "ok"
    IN  /\ pc[w] = "record"
        /\ config' = IF UnchangedSince(w)
                     THEN Concluded(ok, RetryAfter(local[w].result, local[w].retries),
                                    local[w].now)
                     ELSE config
        /\ EndVerification(w)
        /\ UNCHANGED <<healthy, saved>>

-----------------------------------------------------------------------------
(* The worker: delivery, as far as it concerns the row.                    *)

\* Nothing is due, mail is not verified, or the mail is taken or rejected.
DeliverQuietly(w) ==
    /\ pc[w] = "deliver"
    /\ Goto(w, "idle")
    /\ Forget(w)
    /\ UNCHANGED <<config, healthy, saved>>

FailDelivery(w) ==
    /\ pc[w] = "deliver" /\ config.verified /\ ~healthy
    /\ \E error \in Error : local' = [local EXCEPT ![w].result = error]
    /\ Goto(w, "revoke")
    /\ UNCHANGED <<config, healthy, saved>>

\* Mutant: the status is left to the next check.
FlagOnly(w) == [config EXCEPT !.verified = FALSE]
Revoked(w) ==
    IF config.status = "PENDING" THEN [config EXCEPT !.verified = FALSE]
    ELSE Concluded(FALSE, RetryAfter(local[w].result, config.retries), local[w].now)

\* _revoke_mail_attestation
RevokeAttestation(w) ==
    /\ pc[w] = "revoke"
    /\ config' = Revoked(w)
    /\ Goto(w, "idle")
    /\ Forget(w)
    /\ UNCHANGED <<healthy, saved>>

WorkerStep(w) ==
    \/ StartCycle(w)
    \/ ClaimRequest(w) \/ NothingToClaim(w) \/ SendTest(w) \/ CompleteClaim(w)
    \/ ReadConfig(w) \/ SkipIdentity(w) \/ CheckIdentity(w) \/ RecordIdentity(w)
    \/ DeliverQuietly(w) \/ FailDelivery(w) \/ RevokeAttestation(w)

\* The process dies; its claim stays in the row.
Crash(w) ==
    /\ pc[w] # "down"
    /\ Goto(w, "down")
    /\ Forget(w)
    /\ UNCHANGED <<config, healthy, saved>>

-----------------------------------------------------------------------------
(* Time and the mail provider.                                             *)

LeaseLapses ==
    /\ config.lease = "held"
    /\ config' = [config EXCEPT !.lease = "lapsed"]
    /\ UNCHANGED <<healthy, saved, pc, local>>

RetryFallsDue ==
    /\ config.retryAt = "later"
    /\ config' = [config EXCEPT !.retryAt = "due"]
    /\ UNCHANGED <<healthy, saved, pc, local>>

Ages ==
    /\ ~config.aged
    /\ config' = [config EXCEPT !.aged = TRUE]
    /\ UNCHANGED <<healthy, saved, pc, local>>

MailChanges ==
    /\ healthy' = ~healthy
    /\ UNCHANGED <<config, saved, pc, local>>

Next ==
    \/ SaveRecipient \/ RequestTest
    \/ \E p \in Operator : Preflight(p)
    \/ \E w \in Worker : WorkerStep(w) \/ Crash(w)
    \/ LeaseLapses \/ RetryFallsDue \/ Ages
    \/ MailChanges

Spec == Init /\ [][Next]_vars

(* Workers do not stop: the CLI has a timeout and a dead process is restarted. *)
(* The clock runs.  Nothing is assumed of requests, commands or the provider.  *)
Fairness ==
    /\ \A w \in Worker : WF_vars(WorkerStep(w))
    /\ WF_vars(LeaseLapses) /\ WF_vars(RetryFallsDue) /\ WF_vars(Ages)

FairSpec == Spec /\ Fairness

-----------------------------------------------------------------------------
(* Safety.                                                                 *)

\* The flag that deliveries read and the status that the creation of tasks and
\* the pages read agree unless a test is pending, through every writer of either:
\* none is left that says VERIFIED while nothing is delivered.
FlagFollowsStatus == config.status # "PENDING" => (config.verified <=> config.status = "VERIFIED")

\* A claim exists only on a pending request and exactly as long as a lease, so
\* no worker that died can block a later request.
ClaimOnlyWhilePending ==
    /\ config.token # NoWorker => config.status = "PENDING" /\ config.request > 0
    /\ config.token = NoWorker <=> config.lease = "free"

\* The back-off of identity checks counts the failures of the retry that is
\* scheduled, and no other: all writers change the two fields together.
BackoffBelongsToRetry == config.retries = 0 <=> config.retryAt = "none"

\* A request for a test mail is settled by nothing but a test that was begun for
\* this request: not by an identity check, a failed delivery or a preflight that
\* was under way, nor by the test of an earlier request.
OnlyItsTestSettlesARequest ==
    [][config.status = "PENDING" /\ config'.status # "PENDING"
          => \E w \in Worker : /\ pc[w] = "answer" /\ pc'[w] # "answer"
                               /\ local[w].request = config.request]_vars

(* Liveness.                                                               *)

NoCrash == [][\A w \in Worker : ~Crash(w)]_vars

\* A request for a test mail is answered, also if the worker that claimed it
\* dies, and whatever preflights, failing deliveries and repetitions come between.
RequestIsAnswered == <>NoCrash => (config.status = "PENDING" ~> config.status # "PENDING")

\* Once mail works again and nobody runs a preflight, mail becomes attested and
\* stays so, from every state that failures, requests and interrupted preflights
\* can leave behind.
MailRecovers ==
    (<>NoCrash /\ <>[]healthy /\ <>[](\A p \in Operator : pc[p] = "off"))
        => <>[](config.verified /\ config.status = "VERIFIED")
=============================================================================
