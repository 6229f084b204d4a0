------------------------- MODULE MailAttestationProofs -------------------------
(***************************************************************************)
(* For any number of workers, operators and requests: the attestation row  *)
(* agrees with itself, whoever writes it in which order.                   *)
(***************************************************************************)
EXTENDS MailAttestation, FiniteSetTheorems, TLAPS

Fields == {"verified", "status", "request", "token", "lease", "retries", "retryAt",
           "aged", "stamp"}

\* What the agreement needs of the row's type: its fields, and the ones whose
\* values decide.  The rest of TypeOK is not needed.
RowShape ==
    /\ DOMAIN config = Fields
    /\ config.verified \in BOOLEAN
    /\ config.status \in Status
    /\ config.request \in Nat
    /\ config.lease \in {"free", "held", "lapsed"}

RowInv == RowShape /\ FlagFollowsStatus /\ ClaimOnlyWhilePending

\* The row as the migration leaves it: FAILED, unverified, unclaimed.
LEMMA InitRow == Init => RowInv
  BY NoWorkerFresh DEF Init, RowInv, RowShape, Fields, Status, FlagFollowsStatus,
                       ClaimOnlyWhilePending

\* The outcome of a verification, whatever it is, settles flag, status and claim
\* together (_verification_values).
LEMMA ConcludedAgrees ==
    ASSUME RowInv, NEW ok \in BOOLEAN, NEW retry, NEW now,
           config' = Concluded(ok, retry, now)
    PROVE  RowInv'
  BY DEF RowInv, RowShape, Fields, Status, FlagFollowsStatus, ClaimOnlyWhilePending, Concluded

\* A step that leaves the row alone.
LEMMA SameRow == RowInv /\ UNCHANGED config => RowInv'
  BY DEF RowInv, RowShape, FlagFollowsStatus, ClaimOnlyWhilePending

LEMMA PreflightKeepsRow ==
    ASSUME RowInv, NEW p \in Operator, Preflight(p)
    PROVE  RowInv'
<1>1. CASE ResetVerification(p)
  <2>1. CASE UNCHANGED config
    BY <2>1, SameRow
  <2>2. CASE config' = Concluded(FALSE, config, Fresh)
    BY <2>2, ConcludedAgrees
  <2>. QED  BY <1>1, <2>1, <2>2 DEF ResetVerification
<1>2. CASE MarkPreflight(p)
  <2>. DEFINE ok == local[p].result = "ok"
  <2>1. ok \in BOOLEAN
    OBVIOUS
  <2>2. CASE config' = Concluded(ok, config, Fresh)
    <3>. HIDE DEF ok
    <3>. QED  BY <2>1, <2>2, ConcludedAgrees
  <2>3. CASE UNCHANGED config
    BY <2>3, SameRow
  <2>. QED  BY <1>2, <2>2, <2>3 DEF MarkPreflight
<1>3. CASE StartPreflight(p) \/ RefreshConfig(p) \/ CallPreflight(p) \/ PreflightDies(p)
  <2>1. UNCHANGED config
    BY <1>3 DEF StartPreflight, RefreshConfig, CallPreflight, CallMail, PreflightDies
  <2>. QED  BY <2>1, SameRow
<1>. QED  BY <1>1, <1>2, <1>3 DEF Preflight

\* A worker's verification and delivery.
LEMMA WorkerKeepsRow ==
    ASSUME RowInv, NEW w \in Worker, WorkerStep(w)
    PROVE  RowInv'
<1>. DEFINE ok == local[w].result = "ok"
<1>ok. ok \in BOOLEAN
  OBVIOUS
<1>. HIDE DEF ok
<1>1. CASE ClaimRequest(w)
  <2>1. /\ config.status = "PENDING" /\ config.request > 0
        /\ config' = [config EXCEPT !.token = w, !.lease = "held", !.stamp = local[w].now]
    BY <1>1 DEF ClaimRequest, Claimable
  <2>2. w # NoWorker
    BY NoWorkerFresh
  <2>. QED  BY <2>1, <2>2 DEF RowInv, RowShape, Fields, Status, FlagFollowsStatus,
                              ClaimOnlyWhilePending
<1>2. CASE CompleteClaim(w)
  <2>1. config' = Concluded(ok, NoRetry, local[w].now) \/ UNCHANGED config
    BY <1>2 DEF CompleteClaim, ok
  <2>. QED  BY <2>1, <1>ok, ConcludedAgrees, SameRow
<1>3. CASE RecordIdentity(w)
  <2>1. \/ config' = Concluded(ok, RetryAfter(local[w].result, local[w].retries), local[w].now)
        \/ UNCHANGED config
    BY <1>3 DEF RecordIdentity, ok
  <2>. QED  BY <2>1, <1>ok, ConcludedAgrees, SameRow
<1>4. CASE RevokeAttestation(w)
  <2>1. CASE config.status = "PENDING"
    <3>1. config' = [config EXCEPT !.verified = FALSE]
      BY <1>4, <2>1 DEF RevokeAttestation, Revoked
    <3>. QED  BY <2>1, <3>1 DEF RowInv, RowShape, Fields, FlagFollowsStatus,
                                ClaimOnlyWhilePending
  <2>2. CASE config.status # "PENDING"
    <3>1. config' = Concluded(FALSE, RetryAfter(local[w].result, config.retries), local[w].now)
      BY <1>4, <2>2 DEF RevokeAttestation, Revoked
    <3>. QED  BY <3>1, ConcludedAgrees
  <2>. QED  BY <2>1, <2>2
<1>5. CASE UNCHANGED config
  BY <1>5, SameRow
<1>. QED
  BY <1>1, <1>2, <1>3, <1>4, <1>5
  DEF WorkerStep, StartCycle, NothingToClaim, SendTest, CallMail, ReadConfig, SkipIdentity,
      CheckIdentity, DeliverQuietly, FailDelivery

LEMMA StepKeepsRow == RowInv /\ [Next]_vars => RowInv'
<1>. SUFFICES ASSUME RowInv, [Next]_vars PROVE RowInv'
  OBVIOUS
<1>8. CASE SaveRecipient
  BY <1>8 DEF SaveRecipient, RowInv, RowShape, Fields, FlagFollowsStatus, ClaimOnlyWhilePending
<1>1. CASE RequestTest
  <2>1. config' = Requested
    BY <1>1 DEF RequestTest
  <2>. QED  BY <2>1 DEF RowInv, RowShape, Fields, Status, FlagFollowsStatus,
                        ClaimOnlyWhilePending, Requested
<1>2. CASE \E p \in Operator : Preflight(p)
  BY <1>2, PreflightKeepsRow
<1>3. CASE \E w \in Worker : WorkerStep(w)
  BY <1>3, WorkerKeepsRow
<1>4. CASE LeaseLapses
  BY <1>4 DEF LeaseLapses, RowInv, RowShape, Fields, FlagFollowsStatus, ClaimOnlyWhilePending
<1>5. CASE RetryFallsDue
  BY <1>5 DEF RetryFallsDue, RowInv, RowShape, Fields, FlagFollowsStatus, ClaimOnlyWhilePending
<1>6. CASE Ages
  BY <1>6 DEF Ages, RowInv, RowShape, Fields, FlagFollowsStatus, ClaimOnlyWhilePending
<1>7. CASE UNCHANGED config
  BY <1>7, SameRow
<1>. QED  BY <1>1, <1>2, <1>3, <1>4, <1>5, <1>6, <1>7, <1>8 DEF Next, Crash, MailChanges, vars

\* What deliveries read (is_verified) and what the creation of tasks reads
\* (verification_status) never contradict each other unless a test is pending.
THEOREM FlagAgrees == Spec => []FlagFollowsStatus
<1>1. RowInv => FlagFollowsStatus
  BY DEF RowInv
<1>. QED  BY <1>1, InitRow, StepKeepsRow, PTL DEF Spec

\* No claim survives the request it was made for (_claim_pending_verification).
THEOREM ClaimAgrees == Spec => []ClaimOnlyWhilePending
<1>1. RowInv => ClaimOnlyWhilePending
  BY DEF RowInv
<1>. QED  BY <1>1, InitRow, StepKeepsRow, PTL DEF Spec

-----------------------------------------------------------------------------
(* Who settles a pending request.                                          *)

\* Every process has a next step.
PcShape == DOMAIN pc = Proc

LEMMA StepKeepsPc == PcShape /\ [Next]_vars => PcShape'
  BY DEF PcShape, Next, vars, SaveRecipient, RequestTest, Preflight, StartPreflight, ResetVerification,
         RefreshConfig, CallPreflight, CallMail, MarkPreflight, PreflightDies, WorkerStep,
         StartCycle, ClaimRequest, NothingToClaim, SendTest, CompleteClaim, EndVerification,
         ReadConfig, SkipIdentity, CheckIdentity, RecordIdentity, DeliverQuietly,
         FailDelivery, RevokeAttestation, Crash, LeaseLapses, RetryFallsDue, Ages,
         MailChanges, Goto

Settles == config.status = "PENDING" /\ config'.status # "PENDING"

\* The fence of the preflight leaves a pending request alone.
LEMMA PreflightSettlesNothing ==
    ASSUME RowInv, NEW p \in Operator, Preflight(p)
    PROVE  ~Settles
<1>1. config.status = "PENDING" => UNCHANGED config
  BY DEF Preflight, ResetVerification, MarkPreflight, UnchangedSince, StartPreflight,
         RefreshConfig, CallPreflight, CallMail, PreflightDies
<1>. QED  BY <1>1 DEF Settles

\* Of what a worker does only the completion of a claim settles a request, and
\* only the request that was claimed.
LEMMA WorkerSettlesItsOwn ==
    ASSUME RowInv, PcShape, NEW w \in Worker, WorkerStep(w), Settles
    PROVE  /\ pc[w] = "answer" /\ pc'[w] # "answer"
           /\ local[w].request = config.request
<1>1. CASE CompleteClaim(w)
  <2>1. StillClaimed(w)
    BY <1>1 DEF CompleteClaim, Settles
  <2>2. pc[w] = "answer" /\ pc'[w] # "answer"
    BY <1>1 DEF CompleteClaim, EndVerification, Goto, PcShape, Proc
  <2>. QED  BY <2>1, <2>2 DEF StillClaimed
<1>2. CASE ClaimRequest(w)
  <2>1. config' = [config EXCEPT !.token = w, !.lease = "held", !.stamp = local[w].now]
    BY <1>2 DEF ClaimRequest
  <2>. QED  BY <2>1 DEF RowInv, RowShape, Fields, Settles
<1>3. CASE RevokeAttestation(w)
  <2>1. config' = [config EXCEPT !.verified = FALSE]
    BY <1>3 DEF RevokeAttestation, Revoked, Settles
  <2>. QED  BY <2>1 DEF RowInv, RowShape, Fields, Settles
<1>4. CASE RecordIdentity(w)
  <2>1. UNCHANGED config
    BY <1>4 DEF RecordIdentity, UnchangedSince, Settles
  <2>. QED  BY <2>1 DEF Settles
<1>5. CASE UNCHANGED config
  BY <1>5 DEF Settles
<1>. QED
  BY <1>1, <1>2, <1>3, <1>4, <1>5
  DEF WorkerStep, StartCycle, NothingToClaim, SendTest, CallMail, ReadConfig, SkipIdentity,
      CheckIdentity, DeliverQuietly, FailDelivery

LEMMA StepSettlesByTest ==
    RowInv /\ PcShape /\ [Next]_vars
      => [Settles => \E w \in Worker : /\ pc[w] = "answer" /\ pc'[w] # "answer"
                                       /\ local[w].request = config.request]_vars
<1>. SUFFICES ASSUME RowInv, PcShape, Next, Settles
              PROVE  \E w \in Worker : /\ pc[w] = "answer" /\ pc'[w] # "answer"
                                       /\ local[w].request = config.request
  BY DEF vars, Settles
<1>1. CASE \E p \in Operator : Preflight(p)
  BY <1>1, PreflightSettlesNothing
<1>2. CASE \E w \in Worker : WorkerStep(w)
  BY <1>2, WorkerSettlesItsOwn
<1>6. CASE SaveRecipient
  BY <1>6 DEF SaveRecipient, RowInv, RowShape, Fields, Settles
<1>3. CASE RequestTest
  <2>1. config' = Requested
    BY <1>3 DEF RequestTest
  <2>. QED  BY <2>1 DEF Requested, RowInv, RowShape, Fields, Settles
<1>4. CASE LeaseLapses \/ RetryFallsDue \/ Ages
  BY <1>4 DEF LeaseLapses, RetryFallsDue, Ages, RowInv, RowShape, Fields, Settles
<1>5. CASE UNCHANGED config
  BY <1>5 DEF Settles
<1>. QED  BY <1>1, <1>2, <1>3, <1>4, <1>5, <1>6 DEF Next, Crash, MailChanges

\* Whatever preflights, identity checks, failing deliveries and tests of earlier
\* requests are under way, a pending request is settled by a test of its own.
THEOREM SettledByItsTest == Spec => OnlyItsTestSettlesARequest
<1>1. Init => PcShape
  BY DEF Init, PcShape
<1>. QED
  BY <1>1, InitRow, StepKeepsRow, StepKeepsPc, StepSettlesByTest, PTL
  DEF Spec, OnlyItsTestSettlesARequest, Settles

-----------------------------------------------------------------------------
(* The back-off of identity checks.                                        *)

\* The counts a worker has read, and the fields of what it remembers.
LocalShape ==
    /\ DOMAIN local = Proc
    /\ \A p \in Proc : DOMAIN local[p] = DOMAIN Blank /\ local[p].retries \in Nat

BackoffInv == RowInv /\ LocalShape /\ config.retries \in Nat /\ BackoffBelongsToRetry

LEMMA InitBackoff == Init => BackoffInv
  BY InitRow DEF Init, BackoffInv, LocalShape, Blank, BackoffBelongsToRetry

\* Only ReadConfig takes a count, from the row.
LEMMA StepKeepsLocal ==
    ASSUME LocalShape, config.retries \in Nat, [Next]_vars
    PROVE  LocalShape'
<1>1. ASSUME NEW p \in Operator, Preflight(p) PROVE LocalShape'
  <2>0. p \in Proc
    BY DEF Proc
  <2>1. CASE local' = local
    BY <2>1 DEF LocalShape
  <2>2. CASE Forget(p)
    BY <2>0, <2>2 DEF LocalShape, Blank, Forget
  <2>3. CASE local' = [local EXCEPT ![p].stamp = config.stamp]
    BY <2>0, <2>3 DEF LocalShape, Blank
  <2>4. CASE CallPreflight(p)
    BY <2>0, <2>4 DEF LocalShape, Blank, CallPreflight, CallMail
  <2>. QED
    BY <1>1, <2>1, <2>2, <2>3, <2>4
    DEF Preflight, StartPreflight, ResetVerification, RefreshConfig, MarkPreflight, PreflightDies
<1>2. ASSUME NEW w \in Worker, WorkerStep(w) PROVE LocalShape'
  <2>1. CASE EndVerification(w)
    BY <2>1 DEF LocalShape, Blank, Proc, EndVerification, Forget
  <2>2. CASE ~EndVerification(w)
    <3>1. CASE StartCycle(w)
      BY <3>1 DEF LocalShape, Blank, Proc, StartCycle
    <3>2. CASE ClaimRequest(w) \/ NothingToClaim(w) \/ SkipIdentity(w)
      BY <2>2, <3>2 DEF LocalShape, Blank, Proc, ClaimRequest, NothingToClaim, SkipIdentity, Forget
    <3>3. CASE SendTest(w) \/ CheckIdentity(w)
      BY <3>3 DEF LocalShape, Blank, Proc, SendTest, CheckIdentity, CallMail
    <3>4. CASE CompleteClaim(w) \/ RecordIdentity(w) \/ RevokeAttestation(w)
      BY <2>2, <3>4 DEF LocalShape, Blank, Proc, CompleteClaim, RecordIdentity, RevokeAttestation,
                        Forget
    <3>5. CASE ReadConfig(w)
      BY <3>5 DEF LocalShape, Blank, Proc, ReadConfig
    <3>6. CASE DeliverQuietly(w)
      BY <3>6 DEF LocalShape, Blank, Proc, DeliverQuietly, Forget
    <3>7. CASE FailDelivery(w)
      BY <3>7 DEF LocalShape, Proc, FailDelivery
    <3>. QED  BY <1>2, <3>1, <3>2, <3>3, <3>4, <3>5, <3>6, <3>7 DEF WorkerStep
  <2>. QED  BY <2>1, <2>2
<1>3. ASSUME NEW w \in Worker, Crash(w) PROVE LocalShape'
  BY <1>3 DEF LocalShape, Blank, Proc, Crash, Forget
<1>4. CASE UNCHANGED local
  BY <1>4 DEF LocalShape
<1>. QED
  BY <1>1, <1>2, <1>3, <1>4
  DEF Next, vars, SaveRecipient, RequestTest, LeaseLapses, RetryFallsDue, Ages, MailChanges

\* What is written of a retry: one that counts, or none.
RetryWell(retry) == retry.retries \in Nat /\ (retry.retries = 0 <=> retry.retryAt = "none")

LEMMA RetryAfterWell ==
    \A result : \A n \in Nat : RetryWell(RetryAfter(result, n))
  BY LimitsNat DEF RetryWell, RetryAfter, NoRetry

LEMMA ConcludedBackoff ==
    ASSUME RowShape, NEW ok, NEW retry, NEW now, RetryWell(retry),
           config' = Concluded(ok, retry, now)
    PROVE  config'.retries \in Nat /\ BackoffBelongsToRetry'
  BY DEF RowShape, Fields, RetryWell, Concluded, BackoffBelongsToRetry

LEMMA StepKeepsBackoff == BackoffInv /\ [Next]_vars => BackoffInv'
<1>. SUFFICES ASSUME BackoffInv, [Next]_vars
              PROVE  config'.retries \in Nat /\ BackoffBelongsToRetry'
  BY StepKeepsRow, StepKeepsLocal DEF BackoffInv
<1>shape. RowShape /\ RetryWell(config) /\ RetryWell(NoRetry)
  BY DEF BackoffInv, RowInv, RetryWell, BackoffBelongsToRetry, NoRetry
<1>1. ASSUME NEW p \in Operator, Preflight(p)
      PROVE  UNCHANGED config \/ \E ok, now : config' = Concluded(ok, config, now)
  BY <1>1 DEF Preflight, StartPreflight, ResetVerification, RefreshConfig, CallPreflight,
              CallMail, MarkPreflight, PreflightDies
<1>2. ASSUME NEW w \in Worker, CompleteClaim(w) \/ RecordIdentity(w) \/ RevokeAttestation(w)
      PROVE  \/ UNCHANGED config
             \/ config' = [config EXCEPT !.verified = FALSE]
             \/ \E ok, now, retry : RetryWell(retry) /\ config' = Concluded(ok, retry, now)
  <2>1. CASE CompleteClaim(w)
    BY <2>1, <1>shape DEF CompleteClaim
  <2>2. CASE RecordIdentity(w)
    <3>1. local[w].retries \in Nat
      BY DEF BackoffInv, LocalShape, Proc
    <3>. QED  BY <2>2, <3>1, RetryAfterWell DEF RecordIdentity
  <2>3. CASE RevokeAttestation(w)
    BY <2>3, RetryAfterWell DEF RevokeAttestation, Revoked, BackoffInv
  <2>. QED  BY <1>2, <2>1, <2>2, <2>3
<1>3. CASE UNCHANGED config
  BY <1>3 DEF BackoffInv, BackoffBelongsToRetry
<1>4. CASE \E ok, now, retry : RetryWell(retry) /\ config' = Concluded(ok, retry, now)
  BY <1>4, <1>shape, ConcludedBackoff
<1>5. CASE config' = [config EXCEPT !.verified = FALSE]
  BY <1>5, <1>shape DEF RowShape, Fields, RetryWell, BackoffBelongsToRetry
<1>11. CASE SaveRecipient
  BY <1>11, <1>shape DEF SaveRecipient, RowShape, Fields, RetryWell, BackoffBelongsToRetry
<1>6. CASE RequestTest
  BY <1>6, <1>shape DEF RequestTest, Requested, RowShape, Fields, BackoffBelongsToRetry
<1>7. ASSUME NEW w \in Worker, ClaimRequest(w)
      PROVE  config'.retries \in Nat /\ BackoffBelongsToRetry'
  BY <1>7, <1>shape DEF ClaimRequest, RowShape, Fields, RetryWell, BackoffBelongsToRetry
<1>8. CASE LeaseLapses \/ RetryFallsDue \/ Ages
  BY <1>8, <1>shape
  DEF LeaseLapses, RetryFallsDue, Ages, RowShape, Fields, RetryWell, BackoffBelongsToRetry
<1>9. CASE \E p \in Operator : Preflight(p)
  BY <1>1, <1>3, <1>4, <1>9, <1>shape
<1>10. CASE \E w \in Worker : WorkerStep(w)
  BY <1>2, <1>3, <1>4, <1>5, <1>7, <1>10
  DEF WorkerStep, StartCycle, NothingToClaim, SendTest, CallMail, ReadConfig, SkipIdentity,
      CheckIdentity, DeliverQuietly, FailDelivery
<1>. QED
  BY <1>3, <1>6, <1>8, <1>9, <1>10, <1>11 DEF Next, Crash, MailChanges, vars

\* The count of identity failures belongs to the retry that is scheduled, through
\* requests, preflights and failed deliveries, for any number of processes.
THEOREM BackoffAgrees == Spec => []BackoffBelongsToRetry
<1>1. BackoffInv => BackoffBelongsToRetry
  BY DEF BackoffInv
<1>. QED  BY <1>1, InitBackoff, StepKeepsBackoff, PTL DEF Spec

-----------------------------------------------------------------------------
(* Types.  Who writes a clock reading has one, and there are readings enough. *)

Begun == {"claim", "test", "answer", "read", "identify", "record", "deliver", "revoke"}

ReadingsHeld ==
    /\ \A p \in Operator : local[p].now = NoReading
    /\ \A w \in Worker : pc[w] \in Begun => local[w].now # NoReading

TypeInv == TypeOK /\ ReadingsHeld

\* The values that a function takes on a finite set are not more than the set.
LEMMA ValuesBound ==
    ASSUME NEW S, IsFiniteSet(S), NEW g
    PROVE  IsFiniteSet({g[x] : x \in S}) /\ Cardinality({g[x] : x \in S}) <= Cardinality(S)
<1>. DEFINE T == {g[x] : x \in S}
            f == [x \in S |-> g[x]]
<1>1. f \in Surjection(S, T)
  BY DEF Surjection
<1>. QED  BY <1>1, FS_Surjection

LEMMA UnionBound ==
    ASSUME NEW S, NEW T, IsFiniteSet(S), IsFiniteSet(T)
    PROVE  IsFiniteSet(S \cup T) /\ Cardinality(S \cup T) <= Cardinality(S) + Cardinality(T)
<1>1. Cardinality(S \cap T) \in Nat /\ Cardinality(S) \in Nat /\ Cardinality(T) \in Nat
  BY FS_Intersection, FS_CardinalityType
<1>2. /\ IsFiniteSet(S \cup T)
      /\ Cardinality(S \cup T) = Cardinality(S) + Cardinality(T) - Cardinality(S \cap T)
  BY FS_Union
<1>. QED  BY <1>1, <1>2

\* The row holds one reading, each process one that it read, a worker one more.
LEMMA FreshReading == TypeInv => Fresh \in Reading
<1>. SUFFICES ASSUME TypeInv PROVE Fresh \in Reading
  OBVIOUS
<1>. DEFINE used == {config.stamp} \cup UNION {{local[p].now, local[p].stamp} : p \in Proc}
            now == [w \in Worker |-> local[w].now]
            stamp == [p \in Proc |-> local[p].stamp]
            nows == {now[w] : w \in Worker}
            stamps == {stamp[p] : p \in Proc}
            few == {config.stamp} \cup (nows \cup stamps)
            n == 2 * Cardinality(Worker) + Cardinality(Operator) + 2
<1>1. /\ IsFiniteSet(Worker) /\ Cardinality(Worker) \in Nat
      /\ IsFiniteSet(Operator) /\ Cardinality(Operator) \in Nat
      /\ Cardinality(Proc) <= Cardinality(Worker) + Cardinality(Operator)
      /\ IsFiniteSet(Proc) /\ Cardinality(Proc) \in Nat
  <2>1. IsFiniteSet(Worker) /\ IsFiniteSet(Operator)
    BY ProcsFinite, FS_Subset
  <2>. QED  BY <2>1, UnionBound, FS_CardinalityType DEF Proc
<1>2. /\ IsFiniteSet(few)
      /\ Cardinality(few) <= 1 + 2 * Cardinality(Worker) + Cardinality(Operator)
  <2>1. IsFiniteSet(nows) /\ Cardinality(nows) <= Cardinality(Worker)
    BY <1>1, ValuesBound
  <2>2. IsFiniteSet(stamps) /\ Cardinality(stamps) <= Cardinality(Proc)
    BY <1>1, ValuesBound
  <2>. HIDE DEF nows, stamps
  <2>3. /\ IsFiniteSet(nows \cup stamps)
        /\ Cardinality(nows \cup stamps) <= Cardinality(nows) + Cardinality(stamps)
    BY <2>1, <2>2, UnionBound
  <2>4. IsFiniteSet({config.stamp}) /\ Cardinality({config.stamp}) = 1
    BY FS_Singleton
  <2>5. IsFiniteSet(few) /\ Cardinality(few) <= 1 + Cardinality(nows \cup stamps)
    BY <2>3, <2>4, UnionBound
  <2>6. /\ Cardinality(nows) \in Nat /\ Cardinality(stamps) \in Nat
        /\ Cardinality(nows \cup stamps) \in Nat /\ Cardinality(few) \in Nat
    BY <2>1, <2>2, <2>3, <2>5, FS_CardinalityType
  <2>. QED  BY <1>1, <2>1, <2>2, <2>3, <2>5, <2>6
<1>3. n \in Nat /\ Cardinality(Reading) = n /\ IsFiniteSet(Reading)
  <2>1. n \in Nat /\ n >= 1 /\ Reading = 1..n
    BY <1>1 DEF Reading
  <2>. HIDE DEF n
  <2>. QED  BY <2>1, FS_Interval
<1>4. Cardinality(few) \in Nat /\ Cardinality(few) < n
  BY <1>1, <1>2, FS_CardinalityType
<1>5. PICK r \in Reading : r \notin few
  <2>. HIDE DEF few, n
  <2>1. ASSUME Reading \subseteq few PROVE FALSE
    BY <1>2, <1>3, <1>4, <2>1, FS_Subset
  <2>. QED  BY <2>1
<1>6. r \notin used
  <2>1. r # NoReading
    BY DEF Reading, NoReading
  <2>2. ASSUME NEW p \in Proc PROVE r # local[p].now /\ r # local[p].stamp
    <3>1. r # local[p].stamp
      BY <1>5
    <3>2. CASE p \in Worker
      BY <1>5, <3>1, <3>2
    <3>3. CASE p \in Operator
      BY <2>1, <3>1, <3>3 DEF TypeInv, ReadingsHeld
    <3>. QED  BY <3>2, <3>3 DEF Proc
  <2>3. r # config.stamp
    BY <1>5
  <2>. QED  BY <2>2, <2>3
<1>. QED  BY <1>6 DEF Fresh

RetryTyped(retry) == retry.retries \in 0..MaxRetries /\ retry.retryAt \in {"none", "later", "due"}

LEMMA ConcludedTyped ==
    ASSUME TypeOK, NEW ok \in BOOLEAN, NEW retry, RetryTyped(retry), NEW now \in Reading
    PROVE  Concluded(ok, retry, now) \in Config
  BY DEF TypeOK, Config, Status, RetryTyped, Concluded

LEMMA RetryAfterTyped ==
    \A result : \A k \in 0..MaxRetries : RetryTyped(RetryAfter(result, k))
  BY LimitsNat DEF RetryTyped, RetryAfter, NoRetry

LEMMA BlankTyped == Blank \in Local
  BY LimitsNat DEF Blank, Local

LEMMA InitTypes == Init => TypeInv
<1>. SUFFICES ASSUME Init PROVE TypeInv
  OBVIOUS
<1>1. config \in Config
  <2>1. Cardinality(Worker) \in Nat /\ Cardinality(Operator) \in Nat
    BY ProcsFinite, FS_Subset, FS_CardinalityType
  <2>2. 1 \in Reading
    BY <2>1 DEF Reading
  <2>. QED  BY <2>2, LimitsNat DEF Init, Config, Status
<1>2. local \in [Proc -> Local]
  BY BlankTyped DEF Init
<1>3. \A p \in Proc : local[p].now = NoReading
  BY DEF Init, Blank
<1>. QED
  BY <1>1, <1>2, <1>3, ProcsFinite, LimitsNat
  DEF Init, TypeInv, TypeOK, ReadingsHeld, Proc, WorkerStage, OperatorStage, Begun

\* The steps that write the row keep its type.
LEMMA RowTyped == TypeInv /\ [Next]_vars => config' \in Config
<1>. SUFFICES ASSUME TypeInv, [Next]_vars PROVE config' \in Config
  OBVIOUS
<1>types. /\ config \in Config /\ local \in [Proc -> Local] /\ Fresh \in Reading
          /\ RetryTyped(config) /\ RetryTyped(NoRetry)
  BY FreshReading, LimitsNat DEF TypeInv, TypeOK, Config, RetryTyped, NoRetry
<1>1. ASSUME NEW p \in Operator, Preflight(p) PROVE config' \in Config
  <2>1. UNCHANGED config \/ \E ok \in BOOLEAN : config' = Concluded(ok, config, Fresh)
    BY <1>1 DEF Preflight, StartPreflight, ResetVerification, RefreshConfig, CallPreflight,
                CallMail, MarkPreflight, PreflightDies
  <2>. QED  BY <1>types, <2>1, ConcludedTyped DEF TypeInv
<1>2. ASSUME NEW w \in Worker, WorkerStep(w) PROVE config' \in Config
  <2>0. w \in Proc /\ local[w] \in Local
    BY <1>types DEF Proc
  <2>1. ASSUME pc[w] \in Begun PROVE local[w].now \in Reading
    BY <2>0, <2>1 DEF TypeInv, ReadingsHeld, Local
  <2>2. CASE ClaimRequest(w)
    <3>1. local[w].now \in Reading
      BY <2>1, <2>2 DEF ClaimRequest, Begun
    <3>. QED  BY <1>types, <2>2, <3>1 DEF ClaimRequest, Config
  <2>3. CASE CompleteClaim(w)
    <3>1. local[w].now \in Reading
      BY <2>1, <2>3 DEF CompleteClaim, Begun
    <3>2. UNCHANGED config \/ \E ok \in BOOLEAN : config' = Concluded(ok, NoRetry, local[w].now)
      BY <2>3 DEF CompleteClaim
    <3>. QED  BY <1>types, <3>1, <3>2, ConcludedTyped DEF TypeInv
  <2>4. CASE RecordIdentity(w)
    <3>1. local[w].now \in Reading
      BY <2>1, <2>4 DEF RecordIdentity, Begun
    <3>2. RetryTyped(RetryAfter(local[w].result, local[w].retries))
      BY <2>0, RetryAfterTyped DEF Local
    <3>3. \/ UNCHANGED config
          \/ \E ok \in BOOLEAN :
                config' = Concluded(ok, RetryAfter(local[w].result, local[w].retries), local[w].now)
      BY <2>4 DEF RecordIdentity
    <3>. QED  BY <1>types, <3>1, <3>2, <3>3, ConcludedTyped DEF TypeInv
  <2>5. CASE RevokeAttestation(w)
    <3>1. local[w].now \in Reading
      BY <2>1, <2>5 DEF RevokeAttestation, Begun
    <3>2. RetryTyped(RetryAfter(local[w].result, config.retries))
      BY <1>types, RetryAfterTyped DEF Config
    <3>3. CASE config' = [config EXCEPT !.verified = FALSE]
      BY <1>types, <3>3 DEF Config
    <3>4. CASE config' = Concluded(FALSE, RetryAfter(local[w].result, config.retries), local[w].now)
      BY <1>types, <3>1, <3>2, <3>4, ConcludedTyped DEF TypeInv
    <3>. QED  BY <2>5, <3>3, <3>4 DEF RevokeAttestation, Revoked
  <2>6. CASE UNCHANGED config
    BY <1>types, <2>6
  <2>. QED
    BY <1>2, <2>2, <2>3, <2>4, <2>5, <2>6
    DEF WorkerStep, StartCycle, NothingToClaim, SendTest, CallMail, ReadConfig, SkipIdentity,
        CheckIdentity, DeliverQuietly, FailDelivery
<1>6. CASE SaveRecipient
  BY <1>6, <1>types DEF SaveRecipient, Config
<1>3. CASE RequestTest
  <2>1. config.request + 1 \in 0..MaxRequests
    BY <1>3, <1>types, LimitsNat DEF RequestTest, Config, TypeInv, TypeOK
  <2>2. PICK next \in 0..MaxRequests :
            config' = [config EXCEPT !.status = "PENDING", !.request = next, !.token = NoWorker,
                                     !.lease = "free", !.retries = 0, !.retryAt = "none",
                                     !.stamp = Fresh]
    BY <1>3, <2>1 DEF RequestTest, Requested
  <2>3. 0 \in 0..MaxRetries
    BY LimitsNat
  <2>. QED
    BY <1>types, <2>2, <2>3 DEF Config, Status
<1>4. CASE LeaseLapses \/ RetryFallsDue \/ Ages
  <2>1. CASE LeaseLapses
    BY <2>1, <1>types DEF LeaseLapses, Config
  <2>2. CASE RetryFallsDue
    BY <2>2, <1>types DEF RetryFallsDue, Config
  <2>3. CASE Ages
    BY <2>3, <1>types DEF Ages, Config
  <2>. QED  BY <1>4, <2>1, <2>2, <2>3
<1>5. CASE UNCHANGED config
  BY <1>5, <1>types
<1>. QED
  BY <1>1, <1>2, <1>3, <1>4, <1>5, <1>6 DEF Next, Crash, MailChanges, vars

\* The steps of the processes keep the types of what they remember, and a clock
\* reading as long as it is used.
LEMMA ProcsTyped ==
    TypeInv /\ [Next]_vars =>
        /\ pc' \in [Proc -> WorkerStage \cup OperatorStage]
        /\ \A w \in Worker : pc'[w] \in WorkerStage
        /\ \A p \in Operator : pc'[p] \in OperatorStage
        /\ local' \in [Proc -> Local]
        /\ ReadingsHeld'
<1>. DEFINE Goal == /\ pc' \in [Proc -> WorkerStage \cup OperatorStage]
                    /\ \A w \in Worker : pc'[w] \in WorkerStage
                    /\ \A p \in Operator : pc'[p] \in OperatorStage
                    /\ local' \in [Proc -> Local]
                    /\ ReadingsHeld'
<1>. SUFFICES ASSUME TypeInv, [Next]_vars PROVE Goal
  OBVIOUS
<1>types. /\ pc \in [Proc -> WorkerStage \cup OperatorStage]
          /\ \A w \in Worker : pc[w] \in WorkerStage
          /\ \A p \in Operator : pc[p] \in OperatorStage
          /\ local \in [Proc -> Local] /\ config \in Config
          /\ ReadingsHeld /\ Fresh \in Reading
  BY FreshReading DEF TypeInv, TypeOK
<1>op. ASSUME NEW p \in Operator, NEW stage \in OperatorStage, NEW mine \in Local,
              mine.now = NoReading,
              pc' = [pc EXCEPT ![p] = stage], local' = [local EXCEPT ![p] = mine]
       PROVE  Goal
  BY <1>op, <1>types, ProcsFinite DEF ReadingsHeld, Proc
<1>worker. ASSUME NEW w \in Worker, NEW stage \in WorkerStage, NEW mine \in Local,
              stage \in Begun => mine.now # NoReading,
              pc' = [pc EXCEPT ![w] = stage], local' = [local EXCEPT ![w] = mine]
           PROVE  Goal
  BY <1>worker, <1>types, ProcsFinite DEF ReadingsHeld, Proc
<1>1. ASSUME NEW p \in Operator, Preflight(p) PROVE Goal
  <2>0. p \in Proc /\ local[p] \in Local /\ local[p].now = NoReading
    BY <1>types DEF Proc, ReadingsHeld
  <2>1. \E stage \in OperatorStage, mine \in Local :
            /\ mine.now = NoReading
            /\ pc' = [pc EXCEPT ![p] = stage] /\ local' = [local EXCEPT ![p] = mine]
    <3>1. CASE StartPreflight(p) \/ RefreshConfig(p)
      <4>. DEFINE mine == [local[p] EXCEPT !.stamp = config.stamp]
      <4>1. mine \in Local /\ mine.now = NoReading
        BY <1>types, <2>0 DEF Local, Config
      <4>2. local' = [local EXCEPT ![p] = mine]
        BY <3>1 DEF StartPreflight, RefreshConfig
      <4>. QED  BY <3>1, <4>1, <4>2 DEF StartPreflight, RefreshConfig, Goto, OperatorStage
    <3>2. CASE CallPreflight(p)
      <4>1. PICK result \in {"ok"} \cup Error : local' = [local EXCEPT ![p].result = result]
        BY <3>2 DEF CallPreflight, CallMail
      <4>. DEFINE mine == [local[p] EXCEPT !.result = result]
      <4>2. mine \in Local /\ mine.now = NoReading
        BY <2>0 DEF Local
      <4>3. local' = [local EXCEPT ![p] = mine]
        BY <4>1
      <4>. QED  BY <3>2, <4>2, <4>3 DEF CallPreflight, CallMail, Goto, OperatorStage
    <3>3. CASE Goto(p, "refresh") /\ UNCHANGED local
      <4>1. local' = [local EXCEPT ![p] = local[p]]
        BY <1>types, <3>3
      <4>. QED  BY <2>0, <3>3, <4>1 DEF Goto, OperatorStage
    <3>4. CASE Goto(p, "off") /\ Forget(p)
      BY <3>4, BlankTyped DEF Goto, Forget, Blank, OperatorStage
    <3>. QED
      BY <1>1, <3>1, <3>2, <3>3, <3>4
      DEF Preflight, ResetVerification, MarkPreflight, PreflightDies
  <2>. QED  BY <2>1, <1>op
<1>2. ASSUME NEW w \in Worker, WorkerStep(w) PROVE Goal
  <2>0. /\ w \in Proc /\ local[w] \in Local
        /\ pc[w] \in Begun => local[w].now # NoReading
    BY <1>types DEF Proc, ReadingsHeld
  <2>1. \E stage \in WorkerStage, mine \in Local :
            /\ stage \in Begun => mine.now # NoReading
            /\ pc' = [pc EXCEPT ![w] = stage] /\ local' = [local EXCEPT ![w] = mine]
    <3>1. CASE StartCycle(w)
      <4>. DEFINE mine == [local[w] EXCEPT !.now = Fresh, !.forced = (pc[w] = "down")]
      <4>0. Fresh # NoReading
        BY <1>types DEF Reading, NoReading
      <4>1. mine \in Local /\ mine.now # NoReading
        BY <1>types, <2>0, <4>0 DEF Local
      <4>2. local' = [local EXCEPT ![w] = mine]
        BY <3>1 DEF StartCycle
      <4>. QED  BY <3>1, <4>1, <4>2 DEF StartCycle, Goto, WorkerStage
    <3>2. CASE ClaimRequest(w)
      <4>. DEFINE mine == [local[w] EXCEPT !.request = config.request]
      <4>1. mine \in Local /\ mine.now # NoReading
        BY <1>types, <2>0, <3>2 DEF Local, Config, ClaimRequest, Begun
      <4>2. local' = [local EXCEPT ![w] = mine]
        BY <3>2 DEF ClaimRequest
      <4>. QED  BY <3>2, <4>1, <4>2 DEF ClaimRequest, Goto, WorkerStage
    <3>3. CASE NothingToClaim(w)
      <4>1. local' = [local EXCEPT ![w] = local[w]] /\ local[w].now # NoReading
        BY <1>types, <2>0, <3>3 DEF NothingToClaim, Begun
      <4>. QED  BY <2>0, <3>3, <4>1 DEF NothingToClaim, Goto, WorkerStage
    <3>4. CASE SendTest(w) \/ CheckIdentity(w)
      <4>1. PICK result \in {"ok"} \cup Error, stage \in {"answer", "record"} :
                local' = [local EXCEPT ![w].result = result] /\ Goto(w, stage)
        BY <3>4 DEF SendTest, CheckIdentity, CallMail
      <4>. DEFINE mine == [local[w] EXCEPT !.result = result]
      <4>2. mine \in Local /\ mine.now # NoReading
        BY <2>0, <3>4 DEF Local, SendTest, CheckIdentity, Begun
      <4>3. local' = [local EXCEPT ![w] = mine]
        BY <4>1
      <4>. QED  BY <4>1, <4>2, <4>3 DEF Goto, WorkerStage
    <3>5. CASE ReadConfig(w)
      <4>. DEFINE mine == [local[w] EXCEPT !.stamp = config.stamp, !.retries = config.retries]
      <4>1. mine \in Local /\ mine.now # NoReading
        BY <1>types, <2>0, <3>5 DEF Local, Config, ReadConfig, Begun
      <4>2. local' = [local EXCEPT ![w] = mine]
        BY <3>5 DEF ReadConfig
      <4>. QED  BY <3>5, <4>1, <4>2 DEF ReadConfig, Goto, WorkerStage
    <3>6. CASE EndVerification(w) /\ pc[w] \in Begun
      <4>. DEFINE mine == [Blank EXCEPT !.now = local[w].now]
      <4>1. mine \in Local /\ mine.now # NoReading
        BY <2>0, <3>6, BlankTyped DEF Local, Blank
      <4>. QED
        BY <3>6, <4>1, BlankTyped DEF EndVerification, Goto, Forget, WorkerStage, Begun
    <3>7. CASE Goto(w, "idle") /\ Forget(w)
      BY <3>7, BlankTyped DEF Goto, Forget, WorkerStage, Begun
    <3>8. CASE FailDelivery(w)
      <4>1. PICK error \in Error : local' = [local EXCEPT ![w].result = error]
        BY <3>8 DEF FailDelivery
      <4>. DEFINE mine == [local[w] EXCEPT !.result = error]
      <4>2. mine \in Local /\ mine.now # NoReading
        BY <2>0, <3>8 DEF Local, FailDelivery, Begun
      <4>3. local' = [local EXCEPT ![w] = mine]
        BY <4>1
      <4>. QED  BY <3>8, <4>2, <4>3 DEF FailDelivery, Goto, WorkerStage
    <3>. QED
      BY <1>2, <3>1, <3>2, <3>3, <3>4, <3>5, <3>6, <3>7, <3>8
      DEF WorkerStep, CompleteClaim, SkipIdentity, RecordIdentity, DeliverQuietly,
          RevokeAttestation, Begun
  <2>. QED  BY <2>1, <1>worker
<1>3. ASSUME NEW w \in Worker, Crash(w) PROVE Goal
  <2>1. "down" \in WorkerStage /\ "down" \notin Begun
    BY DEF WorkerStage, Begun
  <2>. QED  BY <1>3, <2>1, <1>worker, BlankTyped DEF Crash, Goto, Forget
<1>4. CASE UNCHANGED <<pc, local>>
  BY <1>4, <1>types DEF ReadingsHeld
<1>. QED
  BY <1>1, <1>2, <1>3, <1>4
  DEF Next, vars, SaveRecipient, RequestTest, LeaseLapses, RetryFallsDue, Ages, MailChanges

\* The row and what every process remembers of it keep their types: the count of
\* identity failures stays within the table of waiting times, and a fresh reading
\* of the clock can always be told from those still held.
THEOREM AttestationTypes == Spec => []TypeOK
<1>1. TypeInv /\ [Next]_vars => TypeInv'
  <2>1. TypeInv /\ [Next]_vars => healthy' \in BOOLEAN
    BY DEF TypeInv, TypeOK, Next, vars, SaveRecipient, RequestTest, Preflight, StartPreflight,
           ResetVerification, RefreshConfig, CallPreflight, CallMail, MarkPreflight,
           PreflightDies, WorkerStep, StartCycle, ClaimRequest, NothingToClaim, SendTest,
           CompleteClaim, ReadConfig, SkipIdentity, CheckIdentity, RecordIdentity,
           DeliverQuietly, FailDelivery, RevokeAttestation, Crash, LeaseLapses,
           RetryFallsDue, Ages, MailChanges
  <2>2. TypeInv /\ [Next]_vars => saved' \in 0..MaxRequests
    <3>1. CASE SaveRecipient
      BY <3>1, LimitsNat DEF SaveRecipient, TypeInv, TypeOK
    <3>2. [Next]_vars => UNCHANGED saved \/ SaveRecipient
      BY DEF Next, vars, RequestTest, Preflight, StartPreflight,
             ResetVerification, RefreshConfig, CallPreflight, CallMail, MarkPreflight,
             PreflightDies, WorkerStep, StartCycle, ClaimRequest, NothingToClaim, SendTest,
             CompleteClaim, ReadConfig, SkipIdentity, CheckIdentity, RecordIdentity,
             DeliverQuietly, FailDelivery, RevokeAttestation, Crash, LeaseLapses,
             RetryFallsDue, Ages, MailChanges
    <3>. QED  BY <3>1, <3>2 DEF TypeInv, TypeOK
  <2>. QED  BY <2>1, <2>2, RowTyped, ProcsTyped DEF TypeInv, TypeOK
<1>2. TypeInv => TypeOK
  BY DEF TypeInv
<1>. QED  BY <1>1, <1>2, InitTypes, PTL DEF Spec
=============================================================================
