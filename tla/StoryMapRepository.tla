------------------------- MODULE StoryMapRepository -------------------------
(***************************************************************************)
(* The durable job repository of Story Map V2                              *)
(* (story_map_v2/durable_repository.py).  Every public method of           *)
(* SqliteStoryMapV2Repository runs in one BEGIN IMMEDIATE transaction, so  *)
(* each is one action here; a call that raises rolls back and is simply a  *)
(* call whose action is not enabled.  Attempts of a job are numbered       *)
(* 1, 2, ... by next_attempt_ordinal, so the attempt table is a sequence   *)
(* per job and the ordinal of the next attempt is its length plus one.     *)
(* A retry approval belongs to one (job, ordinal) and a validated result   *)
(* to one attempt: both tables are fields of the attempt.  Time is the     *)
(* flag "expired" of a lease: it turns true when the clock passes          *)
(* lease_expires_utc (renew_lease only postpones that).                    *)
(*                                                                         *)
(* A definition marked "faulty" is part of no specification: it is a       *)
(* plausible mistake in the definition after it, kept to show that the     *)
(* properties notice it.                                                   *)
(***************************************************************************)
EXTENDS Naturals, Sequences, FiniteSets, FiniteSetsExt

CONSTANTS
    Runs,           \* run ids
    Jobs,           \* job ordinals; a smaller number is claimed first
    RunOf,          \* the run of each job
    Derived,        \* jobs registered only once their dependencies are published
    Tokens,         \* lease tokens (uuid4 in the code, one per claim of a worker)
    Keys,           \* cache identities
    CacheKey,       \* the cache identity frozen in each job's descriptor
    Results,        \* normalized results a validator can produce
    SlotLimit,      \* GLOBAL_SUBMISSION_LIMIT
    CallCeiling,    \* provider calls of each kind a run's approval allows
    RetryCeiling,   \* indeterminate_retry_calls
    UnitCeiling,    \* input/output token and elapsed-time ceilings, as one quantity
    WarmKeys,       \* cache identities earlier runs of the project may have filled
    Units,          \* what one attempt may add to that quantity
    MaxAttempts     \* bound: attempts explored of each job

NoToken == "no-token"
NoKey == "no-key"
NoResult == "no-result"
Structural == "structural-result"

PrimaryKinds == {"mapping", "section_synthesis", "rollup_synthesis"}
ContinuationKinds == {"replacement_review", "refusal_fallback"}
Kinds == PrimaryKinds \cup ContinuationKinds

ASSUME RepositoryAssumption ==
    /\ Jobs \subseteq Nat /\ IsFiniteSet(Jobs)
    /\ RunOf \in [Jobs -> Runs]
    /\ Derived \subseteq Jobs
    /\ CacheKey \in [Jobs -> Keys]
    /\ WarmKeys \subseteq Keys
    /\ NoToken \notin Tokens
    /\ NoKey \notin Keys
    /\ NoResult \notin Results /\ Structural \notin Results
    /\ SlotLimit \in Nat \ {0}
    /\ CallCeiling \in [Kinds -> Nat]
    /\ RetryCeiling \in Nat
    /\ UnitCeiling \in Nat
    /\ Units \subseteq Nat
    /\ MaxAttempts \in [Jobs -> Nat]

VARIABLES
    run,        \* story_map_v2_runs and story_map_v2_run_approvals
    job,        \* story_map_v2_jobs
    attempts,   \* story_map_v2_attempts, with the rows that hang off an attempt
    cache,      \* story_map_v2_cache
    published   \* story_map_v2_published_results

repoVars == <<run, job, attempts, cache, published>>

-----------------------------------------------------------------------------
(* Row types. *)

RunStatus == {"prepared", "running", "cancelling", "cancelled", "completed",
              "indeterminate", "failed"}
JobStatus == {"absent", "pending", "claimed", "reserved", "submitting", "returned",
              "validated", "cache_stored", "finalized", "published", "cached",
              "succeeded", "failed", "cancelled", "indeterminate"}
Resolution == {"accepted", "structural", "resumable", "indeterminate", "cancelled"}
AttemptStatus == {"reserved", "transmitting", "returned", "succeeded",
                  "not_transmitted", "failed", "cancelled", "indeterminate"}
Disposition == {"not_started", "definitely_not_transmitted", "transmitted",
                "indeterminate"}

RunRow == [status : RunStatus, cancel : BOOLEAN, approved : BOOLEAN]

JobRow == [status     : JobStatus,
           token      : Tokens \cup {NoToken},
           expired    : BOOLEAN,
           cont       : {"mapping", "complete"} \cup ContinuationKinds,
           contAt     : Nat,
           result     : Results \cup {NoResult},
           key        : Keys \cup {NoKey},
           resolution : Resolution \cup {"none"}]

AttemptRow == [kind         : Kinds,
               status       : AttemptStatus,
               disposition  : Disposition,
               calls        : {0, 1},
               units        : Nat,
               retryOf      : Nat,      \* ordinal of the approved attempt, 0 if none
               supplemental : BOOLEAN,
               approval     : {"none", "open", "consumed"},
               validated    : Results \cup {NoResult}]

\* _IN_FLIGHT of the lease queries: these statuses occupy a submission slot.
SlotStatus == {"claimed", "reserved", "submitting"}
Unfinished == {"pending", "claimed", "reserved", "submitting", "returned",
               "validated", "cache_stored"}

JobsOf(r) == {j \in Jobs : RunOf[j] = r}
Ordinal(j) == Len(attempts[j]) + 1
Latest(j) == attempts[j][Len(attempts[j])]
Attempted(j) == attempts[j] # <<>>
CancelledByStatus(j) == run[RunOf[j]].status = "cancelled"    \* faulty
Cancelled(j) == run[RunOf[j]].cancel
LatestIs(j, s) == Attempted(j) /\ Latest(j).status = s

WithLatest(j, row) == [attempts EXCEPT ![j][Len(attempts[j])] = row]
Unleased(row) == [row EXCEPT !.token = NoToken, !.expired = FALSE]

FreshJob(s) == [status |-> s, token |-> NoToken, expired |-> FALSE,
                cont |-> "mapping", contAt |-> 0, result |-> NoResult,
                key |-> NoKey, resolution |-> "none"]

\* create_run: the run is prepared and its frozen jobs are pending; derived jobs
\* exist only after register_jobs.
RepoInit ==
    /\ run = [r \in Runs |-> [status |-> "prepared", cancel |-> FALSE,
                              approved |-> FALSE]]
    /\ job = [j \in Jobs |-> FreshJob(IF j \in Derived THEN "absent" ELSE "pending")]
    /\ attempts = [j \in Jobs |-> <<>>]
    /\ cache \in [Keys -> Results \cup {NoResult}]
    /\ \A k \in Keys \ WarmKeys : cache[k] = NoResult
    /\ published = [j \in Jobs |-> NoResult]

-----------------------------------------------------------------------------
(* _refresh_run_state_locked: the status of run r when its jobs are rows. *)

RunStatusFor(r, rows, cancel) ==
    LET statuses == {rows[j].status : j \in JobsOf(r)}
        finals == {rows[j].resolution : j \in {i \in JobsOf(r) : rows[i].status = "finalized"}}
    IN  IF Unfinished \cap statuses # {} \/ {"accepted", "structural"} \cap finals # {}
        THEN IF cancel THEN "cancelling" ELSE "running"
        ELSE IF "indeterminate" \in finals                THEN "indeterminate"
        ELSE IF "resumable" \in finals                    THEN "failed"
        ELSE IF "cancelled" \in finals                    THEN "cancelled"
        ELSE IF "indeterminate" \in statuses              THEN "indeterminate"
        ELSE IF "failed" \in statuses                     THEN "failed"
        ELSE IF cancel \/ "cancelled" \in statuses        THEN "cancelled"
        ELSE "completed"

Refreshed(r, rows) == [run EXCEPT ![r].status = RunStatusFor(r, rows, run[r].cancel)]

-----------------------------------------------------------------------------
(* Approvals and registration. *)

\* store_run_approval: idempotent, and immutable once stored.
StoreRunApproval(r) ==
    /\ ~run[r].approved
    /\ run' = [run EXCEPT ![r].approved = TRUE]
    /\ UNCHANGED <<job, attempts, cache, published>>

\* store_retry_approval for the latest attempt; the adapter refuses it when an
\* earlier attempt of the job was approved for retry already.
StoreRetryApproval(j) ==
    /\ job[j].status = "indeterminate"
    /\ ~Cancelled(j)
    /\ LatestIs(j, "indeterminate")
    /\ \A o \in DOMAIN attempts[j] : attempts[j][o].approval = "none"
    /\ attempts' = WithLatest(j, [Latest(j) EXCEPT !.approval = "open"])
    /\ job' = [job EXCEPT ![j].status = "pending", ![j].resolution = "none"]
    /\ run' = [run EXCEPT ![RunOf[j]].status = "running"]
    /\ UNCHANGED <<cache, published>>

\* register_jobs for one dependency-ready job.
RegisterJob(j) ==
    /\ job[j].status = "absent"
    /\ run[RunOf[j]].approved
    /\ ~Cancelled(j)
    /\ job' = [job EXCEPT ![j] = FreshJob("pending")]
    /\ run' = Refreshed(RunOf[j], job')
    /\ UNCHANGED <<attempts, cache, published>>

-----------------------------------------------------------------------------
(* Leases. *)

\* The clock passes lease_expires_utc.
ExpireLease(j) ==
    /\ job[j].token # NoToken
    /\ ~job[j].expired
    /\ job' = [job EXCEPT ![j].expired = TRUE]
    /\ UNCHANGED <<run, attempts, cache, published>>

\* _recover_expired_leases_locked, as what it makes of each row.  "due" is the set
\* of jobs whose lease counts as expired.
DueNow == {j \in Jobs : job[j].status \in SlotStatus /\ job[j].expired}

MaybeSent(j) == job[j].status = "submitting" \/ LatestIs(j, "transmitting")

RecoveredJob(j) ==
    [Unleased(job[j]) EXCEPT !.status = IF MaybeSent(j) THEN "indeterminate"
                                        ELSE IF Cancelled(j) THEN "cancelled"
                                        ELSE "pending"]

\* Faulty: leaves a reserved attempt open.
RecoverSentOnly(j) ==
    IF MaybeSent(j) /\ Attempted(j)
    THEN [attempts[j] EXCEPT ![Len(attempts[j])] =
             [@ EXCEPT !.status = "indeterminate", !.disposition = "indeterminate"]]
    ELSE attempts[j]
RecoveredAttempts(j) ==
    IF MaybeSent(j) /\ Attempted(j)
    THEN [attempts[j] EXCEPT ![Len(attempts[j])] =
             [@ EXCEPT !.status = "indeterminate", !.disposition = "indeterminate"]]
    ELSE IF job[j].status = "reserved" /\ LatestIs(j, "reserved")
    THEN [attempts[j] EXCEPT ![Len(attempts[j])] =
             [@ EXCEPT !.status = "not_transmitted",
                       !.disposition = "definitely_not_transmitted",
                       !.calls = 0, !.units = 0]]
    ELSE attempts[j]

JobsAfter(due) == [j \in Jobs |-> IF j \in due THEN RecoveredJob(j) ELSE job[j]]
AttemptsAfter(due) ==
    [j \in Jobs |-> IF j \in due THEN RecoveredAttempts(j) ELSE attempts[j]]

RunsUntouched(touched, rows) == run    \* faulty
RunsAfter(touched, rows) ==
    [r \in Runs |-> IF r \in touched
                    THEN [run[r] EXCEPT !.status = RunStatusFor(r, rows, run[r].cancel)]
                    ELSE run[r]]

RecoverExpiredLeases ==
    /\ DueNow # {}
    /\ job' = JobsAfter(DueNow)
    /\ attempts' = AttemptsAfter(DueNow)
    /\ run' = RunsAfter({RunOf[j] : j \in DueNow}, job')
    /\ UNCHANGED <<cache, published>>

InSlot(rows) == {j \in Jobs : rows[j].status \in SlotStatus /\ ~rows[j].expired}

Leased(row, w) == [row EXCEPT !.token = w, !.expired = FALSE]

\* _materialize_cache_hits_locked, applied to the rows the lease recovery left.
CacheHits(rows) == {j \in Jobs : /\ rows[j].status = "pending"
                                 /\ cache[CacheKey[j]] # NoResult
                                 /\ run[RunOf[j]].approved}
Materialized(rows) ==
    [j \in Jobs |-> IF j \in CacheHits(rows)
                    THEN [rows[j] EXCEPT !.status = "cached",
                                         !.result = cache[CacheKey[j]]]
                    ELSE rows[j]]

\* The rows claim_next_job selects from.
JobsBeforeClaim(hits) ==
    IF hits THEN Materialized(JobsAfter(DueNow)) ELSE JobsAfter(DueNow)
RunsBeforeClaim(hits) ==
    RunsAfter({RunOf[j] : j \in DueNow}
                \cup {RunOf[j] : j \in IF hits THEN CacheHits(JobsAfter(DueNow)) ELSE {}},
              JobsBeforeClaim(hits))

\* A review or fallback that was recorded but whose call is still to be made.
Continuable(j, r, rows, runs) ==
    /\ RunOf[j] = r
    /\ rows[j].status \in {"returned", "validated"}
    /\ rows[j].cont \in ContinuationKinds
    /\ rows[j].token = NoToken \/ rows[j].expired
    /\ runs[r].approved /\ ~runs[r].cancel
    /\ runs[r].status \in {"running", "indeterminate"}

Startable(j, r, rows, runs) ==
    /\ RunOf[j] = r
    /\ rows[j].status = "pending"
    /\ runs[r].approved /\ ~runs[r].cancel
    /\ runs[r].status \in {"prepared", "running"}

First(S, j) == j \in S /\ \A k \in S : j <= k

\* claim_next_job that hands job j to token w.  A continuation is preferred to a
\* pending job; a pending job that still has a lease token fails the
\* compare-and-swap and with it the whole call.
ClaimNextJob(w, r, hits, j) ==
    LET rows == JobsBeforeClaim(hits)
        runs == RunsBeforeClaim(hits)
        Resumable == {k \in Jobs : Continuable(k, r, rows, runs)}
        Pending == {k \in Jobs : Startable(k, r, rows, runs)}
    IN  /\ Cardinality(InSlot(rows)) < SlotLimit
        /\ attempts' = AttemptsAfter(DueNow)
        /\ \/ /\ First(Resumable, j)
              /\ job' = [rows EXCEPT ![j] = Leased(@, w)]
              /\ run' = runs
           \/ /\ Resumable = {}
              /\ First(Pending, j)
              /\ rows[j].token = NoToken
              /\ job' = [rows EXCEPT ![j] = [Leased(@, w) EXCEPT !.status = "claimed"]]
              /\ run' = [runs EXCEPT ![r].status = "running"]
        /\ UNCHANGED <<cache, published>>

\* claim_next_job that returns None: the recovery it began with is kept.
NothingToClaim(r, hits) ==
    LET rows == JobsBeforeClaim(hits)
        runs == RunsBeforeClaim(hits)
    IN  \/ Cardinality(InSlot(rows)) >= SlotLimit
        \/ \A k \in Jobs : /\ ~Continuable(k, r, rows, runs)
                           /\ ~Startable(k, r, rows, runs)

ClaimNothing(r, hits) ==
    /\ NothingToClaim(r, hits)
    /\ job' = JobsBeforeClaim(hits)
    /\ run' = RunsBeforeClaim(hits)
    /\ attempts' = AttemptsAfter(DueNow)
    /\ UNCHANGED <<cache, published>>

\* reclaim_job: no status of the run is looked at.
ReclaimJob(w, j) ==
    /\ job[j].status \in {"returned", "validated"}
    /\ job[j].token = NoToken \/ job[j].expired
    /\ job' = [job EXCEPT ![j] = Leased(@, w)]
    /\ UNCHANGED <<run, attempts, cache, published>>

\* _assert_claim_locked
HoldsClaim(w, j, allowed) ==
    /\ job[j].token = w
    /\ ~job[j].expired
    /\ job[j].status \in allowed
    /\ ~(Cancelled(j) /\ job[j].status = "claimed")

Released(row) == [Unleased(row) EXCEPT !.status = IF row.status = "claimed" THEN "pending"
                                                  ELSE row.status]

\* release_claim by the holder of token w: in a reserved or submitting job, or in a
\* job that has no lease any more, it changes nothing.
ReleaseClaim(w, j) ==
    /\ HoldsClaim(w, j, {"claimed", "returned", "validated"})
    /\ job' = [job EXCEPT ![j] = Released(@)]
    /\ run' = Refreshed(RunOf[j], job')
    /\ UNCHANGED <<attempts, cache, published>>

-----------------------------------------------------------------------------
(* Attempts. *)

\* _validate_attempt_policy_locked: which call kind the next attempt may use.
Transmitted(a) == a.disposition = "transmitted" \/ a.status = "returned"

FirstCall(j, kind) == ~Attempted(j) /\ kind \in PrimaryKinds

\* Faulty: repeats what was perhaps sent as if it was not.
ResendsUnlessTransmitted(j, kind) ==
    Attempted(j) /\ Latest(j).disposition # "transmitted" /\ kind = Latest(j).kind
\* Faulty: repeats what came back.
ResendsUnlessUncertain(j, kind) ==
    Attempted(j) /\ Latest(j).disposition # "indeterminate" /\ kind = Latest(j).kind
ResendsUnsent(j, kind) ==
    /\ Attempted(j)
    /\ Latest(j).disposition = "definitely_not_transmitted"
    /\ kind = Latest(j).kind

Uncertain(a) == a.status = "indeterminate" \/ a.disposition = "indeterminate"

ResendsUncertain(j, kind) ==
    /\ Attempted(j)
    /\ Latest(j).disposition # "definitely_not_transmitted"
    /\ Uncertain(Latest(j))
    /\ kind = Latest(j).kind
    /\ Latest(j).approval = "open"

Continues(j, kind) ==
    /\ Attempted(j)
    /\ Latest(j).disposition # "definitely_not_transmitted"
    /\ ~Uncertain(Latest(j))
    /\ kind \in ContinuationKinds
    /\ \A o \in DOMAIN attempts[j] :
          ~(attempts[j][o].kind \in ContinuationKinds /\ Transmitted(attempts[j][o]))
    /\ job[j].cont = kind
    /\ job[j].contAt = Len(attempts[j])

KindAllowed(j, kind) ==
    FirstCall(j, kind) \/ ResendsUnsent(j, kind) \/ ResendsUncertain(j, kind)
        \/ Continues(j, kind)

\* Faulty: repeating an unsent retry forgets what it was a retry of.
LineageForgotten(j, kind) == IF ResendsUncertain(j, kind) THEN Len(attempts[j]) ELSE 0

\* retry_of_attempt_id of the next attempt.
RetryOf(j, kind) ==
    IF ResendsUnsent(j, kind) THEN Latest(j).retryOf
    ELSE IF ResendsUncertain(j, kind) THEN Len(attempts[j]) ELSE 0

\* _validate_attempt_limits_locked
AttemptsOfRun(r) == UNION {{j} \X DOMAIN attempts[j] : j \in JobsOf(r)}
At(p) == attempts[p[1]][p[2]]

Charged(a) == /\ a.disposition # "definitely_not_transmitted"
              /\ a.status \in {"reserved", "transmitting"} \/ a.calls = 1
Supplemental(a) == a.supplemental /\ a.disposition # "definitely_not_transmitted"

ChargedCalls(r, kind) == {p \in AttemptsOfRun(r) : At(p).kind = kind /\ Charged(At(p))}
SupplementalCalls(r) == {p \in AttemptsOfRun(r) : Supplemental(At(p))}

UnitsSpent(r) == MapThenSumSet(LAMBDA p : At(p).units, AttemptsOfRun(r))

\* Faulty: one ordinary call too many.
NeedsSupplementLate(j, kind) ==
    Cardinality(ChargedCalls(RunOf[j], kind)) > CallCeiling[kind]
NeedsSupplement(j, kind) ==
    Cardinality(ChargedCalls(RunOf[j], kind)) >= CallCeiling[kind]

WithinLimits(j, kind) ==
    /\ UnitsSpent(RunOf[j]) < UnitCeiling
    /\ NeedsSupplement(j, kind) =>
          /\ RetryOf(j, kind) # 0
          /\ Cardinality(SupplementalCalls(RunOf[j])) < RetryCeiling
          /\ \A o \in DOMAIN attempts[j] : ~Supplemental(attempts[j][o])

\* reserve_attempt
Reserved(j, kind) ==
    [kind |-> kind, status |-> "reserved", disposition |-> "not_started",
     calls |-> 0, units |-> 0, retryOf |-> RetryOf(j, kind),
     supplemental |-> NeedsSupplement(j, kind), approval |-> "none",
     validated |-> NoResult]

\* The attempts before the new one: the approval of the attempt it repeats is spent.
Spent(a) == [a EXCEPT !.approval = IF @ = "open" THEN "consumed" ELSE @]
Consumed(j, kind) ==
    IF ResendsUncertain(j, kind)
    THEN [attempts[j] EXCEPT ![Len(attempts[j])] = Spent(@)]
    ELSE attempts[j]

CanReserve(w, j) ==
    /\ HoldsClaim(w, j, {"claimed", "returned", "validated"})
    /\ ~Cancelled(j)

SlotUnchecked(j) == TRUE    \* faulty
HasFreeSlot(j) == job[j].status = "claimed" \/ Cardinality(InSlot(job)) < SlotLimit

ReserveAttempt(w, j, kind) ==
    /\ CanReserve(w, j)
    /\ KindAllowed(j, kind)
    /\ WithinLimits(j, kind)
    /\ HasFreeSlot(j)
    /\ Len(attempts[j]) < MaxAttempts[j]
    /\ attempts' = [attempts EXCEPT ![j] = Append(Consumed(j, kind), Reserved(j, kind))]
    /\ job' = [job EXCEPT ![j].status = "reserved"]
    /\ UNCHANGED <<run, cache, published>>

\* mark_transmitting
MayMark(w, j) ==
    HoldsClaim(w, j, {"reserved"}) /\ ~Cancelled(j) /\ LatestIs(j, "reserved")

MarkTransmitting(w, j) ==
    /\ MayMark(w, j)
    /\ attempts' = WithLatest(j, [Latest(j) EXCEPT !.status = "transmitting",
                                                   !.disposition = "indeterminate"])
    /\ job' = [job EXCEPT ![j].status = "submitting"]
    /\ UNCHANGED <<run, cache, published>>

\* The (job, attempt) pairs from which complete_attempt and finalize_failure accept
\* a disposition.
Completable(w, j, disposition) ==
    /\ HoldsClaim(w, j, {"reserved", "submitting"})
    /\ \/ job[j].status = "submitting" /\ LatestIs(j, "transmitting")
       \/ /\ disposition = "definitely_not_transmitted"
          /\ job[j].status = "reserved" /\ LatestIs(j, "reserved")

\* The calls an accounting may report for a disposition.
CallsFor(disposition) == CASE disposition = "transmitted" -> {1}
                           [] disposition = "definitely_not_transmitted" -> {0}
                           [] disposition = "indeterminate" -> {0, 1}

SettledStatus(disposition, hasResponse) ==
    CASE disposition = "definitely_not_transmitted" -> "not_transmitted"
      [] disposition = "indeterminate" -> "indeterminate"
      [] disposition = "transmitted" -> IF hasResponse THEN "returned" ELSE "failed"

Settled(j, disposition, status, calls, units) ==
    WithLatest(j, [Latest(j) EXCEPT !.status = status, !.disposition = disposition,
                                    !.calls = calls, !.units = units])

\* complete_attempt; "defer" is defer_resumable.
CompleteAttempt(w, j, disposition, hasResponse, calls, units, defer) ==
    LET next == IF Cancelled(j) THEN "cancelled"
                ELSE IF disposition = "definitely_not_transmitted"
                     THEN IF defer THEN "finalized" ELSE "pending"
                ELSE IF disposition = "indeterminate" THEN "indeterminate"
                ELSE "returned"
    IN  /\ Completable(w, j, disposition)
        /\ calls \in CallsFor(disposition)
        /\ attempts' = Settled(j, disposition, SettledStatus(disposition, hasResponse),
                               calls, units)
        /\ job' = [job EXCEPT ![j] =
                     IF next = "returned" THEN [@ EXCEPT !.status = next]
                     ELSE [Unleased(@) EXCEPT
                             !.status = next,
                             !.resolution = IF next = "finalized" THEN "resumable"
                                                                  ELSE "none"]]
        /\ run' = IF next = "returned" THEN run ELSE Refreshed(RunOf[j], job')
        /\ UNCHANGED <<cache, published>>

-----------------------------------------------------------------------------
(* From a returned result to a published one.  None of these methods asks for the *)
(* lease: they name the job, and its status decides.                              *)

\* record_validated of attempt o (0: a cached result, which has no attempt).  The job
\* row changes only in three statuses, the attempt's validated result always.
MayRecord(j, o, result, key) ==
    /\ ~Cancelled(j)
    /\ job[j].status # "cancelled"
    /\ job[j].key \in {NoKey, key}
    /\ \/ o = 0 /\ job[j].status \in {"claimed", "validated"}
       \/ /\ o # 0 /\ o = Len(attempts[j])
          /\ LatestIs(j, "returned")
          /\ Latest(j).validated \in {NoResult, result}

RecordValidated(j, o, result, key) ==
    /\ MayRecord(j, o, result, key)
    /\ attempts' = IF o = 0 THEN attempts
                   ELSE WithLatest(j, [Latest(j) EXCEPT !.validated = result])
    /\ job' = [job EXCEPT ![j] =
                 IF @.status \in {"claimed", "returned", "validated"}
                 THEN [@ EXCEPT !.status = "validated", !.result = result, !.key = key]
                 ELSE @]
    /\ UNCHANGED <<run, cache, published>>

\* record_continuation binding the latest attempt.
MayContinue(j, continuation) ==
    /\ ~Cancelled(j)
    /\ job[j].status \in {"returned", "validated"}
    /\ Attempted(j)
    /\ job[j].cont # "complete"
    /\ job[j].cont \in ContinuationKinds => continuation = "complete"
    /\ continuation \in ContinuationKinds =>
          Len(attempts[j]) = 1 /\ Latest(j).kind = "mapping"

RecordContinuation(j, continuation) ==
    /\ MayContinue(j, continuation)
    /\ job' = [job EXCEPT ![j].cont = continuation, ![j].contAt = Len(attempts[j])]
    /\ UNCHANGED <<run, attempts, cache, published>>

\* _insert_immutable_cache_locked
CacheOverwrites(key, result) == TRUE    \* faulty
CacheAccepts(key, result) == cache[key] \in {NoResult, result}

\* store_cache under the cache identity the result was validated for.
MayStore(j) ==
    /\ ~Cancelled(j)
    /\ job[j].status \in {"validated", "cache_stored"}
    /\ CacheAccepts(job[j].key, job[j].result)

StoreCache(j) ==
    /\ MayStore(j)
    /\ cache' = [cache EXCEPT ![job[j].key] = job[j].result]
    /\ job' = [job EXCEPT ![j].status = "cache_stored"]
    /\ UNCHANGED <<run, attempts, published>>

FinalizedStatus(resolution) == CASE resolution = "indeterminate" -> "indeterminate"
                                 [] resolution = "cancelled" -> "cancelled"
                                 [] OTHER -> "finalized"

MayFinalize(j, resolution) ==
    /\ Cancelled(j) => resolution = "cancelled"
    /\ job[j].resolution = resolution
          => job[j].status \notin {"finalized", "indeterminate", "cancelled"}
    /\ job[j].status \in {"claimed", "returned", "validated", "cache_stored",
                          "indeterminate", "cancelled"}
    /\ job[j].status = "cancelled" => resolution = "cancelled"
    /\ job[j].status = "indeterminate" => resolution = "indeterminate"
    /\ job[j].status = "claimed" => resolution \in {"structural", "cancelled"}
    /\ resolution = "accepted" => job[j].status = "cache_stored"
    /\ resolution = "indeterminate" =>
          Attempted(j) /\ Latest(j).disposition = "indeterminate"

\* finalize_job; a repeated call with the same resolution returns the row as it is.
FinalizeJob(j, resolution) ==
    /\ MayFinalize(j, resolution)
    /\ job' = [job EXCEPT ![j] = [Unleased(@) EXCEPT !.status = FinalizedStatus(resolution),
                                                     !.resolution = resolution]]
    /\ run' = Refreshed(RunOf[j], job')
    /\ UNCHANGED <<attempts, cache, published>>

\* defer_resumable_job
MayDefer(j) ==
    /\ job[j].status = "pending"
    /\ Attempted(j)
    /\ Latest(j).disposition = "definitely_not_transmitted"

DeferResumableJob(j) ==
    /\ MayDefer(j)
    /\ job' = [job EXCEPT ![j].status = "finalized", ![j].resolution = "resumable"]
    /\ run' = Refreshed(RunOf[j], job')
    /\ UNCHANGED <<attempts, cache, published>>

\* activate_resumable_jobs: cancellation of the run is not looked at.
ActivateResumableJobs(r) ==
    /\ job' = [j \in Jobs |->
                 IF RunOf[j] = r /\ job[j].status = "finalized"
                                 /\ job[j].resolution = "resumable"
                 THEN [job[j] EXCEPT !.status = "pending", !.resolution = "none"]
                 ELSE job[j]]
    /\ run' = Refreshed(r, job')
    /\ UNCHANGED <<attempts, cache, published>>

MayPublish(j, result) ==
    /\ ~Cancelled(j)
    /\ job[j].status \in {"finalized", "published"}
    /\ job[j].resolution \in {"accepted", "structural"}
    /\ job[j].resolution = "accepted" => job[j].result = result
    /\ published[j] \in {NoResult, result}

\* publish_job
PublishJob(j, result) ==
    /\ MayPublish(j, result)
    /\ published' = [published EXCEPT ![j] = result]
    /\ job' = [job EXCEPT ![j].status = "published"]
    /\ run' = Refreshed(RunOf[j], job')
    /\ UNCHANGED <<attempts, cache>>

-----------------------------------------------------------------------------
(* The one-transaction path from a transmitting attempt to its outcome.  *)

\* finalize_success, which caches under the descriptor's own cache identity.
FinalizeSuccess(w, j, result, units) ==
    /\ HoldsClaim(w, j, {"submitting"})
    /\ ~Cancelled(j)
    /\ LatestIs(j, "transmitting")
    /\ CacheAccepts(CacheKey[j], result)
    /\ cache' = [cache EXCEPT ![CacheKey[j]] = result]
    /\ attempts' = Settled(j, "transmitted", "succeeded", 1, units)
    /\ job' = [job EXCEPT ![j] = [Unleased(@) EXCEPT !.status = "succeeded",
                                                     !.result = result]]
    /\ run' = Refreshed(RunOf[j], job')
    /\ UNCHANGED published

\* finalize_failure (finalize_not_transmitted is its non-transmission case, which it
\* accepts from a reserved job only).
FinalizeFailure(w, j, disposition, calls, units) ==
    LET next == IF Cancelled(j) THEN "cancelled"
                ELSE IF disposition = "definitely_not_transmitted" THEN "pending"
                ELSE IF disposition = "indeterminate" THEN "indeterminate"
                ELSE "failed"
    IN  /\ Completable(w, j, disposition)
        /\ disposition = "definitely_not_transmitted" => job[j].status = "reserved"
        /\ calls \in CallsFor(disposition)
        /\ attempts' = Settled(j, disposition, SettledStatus(disposition, FALSE),
                               calls, units)
        /\ job' = [job EXCEPT ![j] = [Unleased(@) EXCEPT !.status = next]]
        /\ run' = Refreshed(RunOf[j], job')
        /\ UNCHANGED <<cache, published>>

-----------------------------------------------------------------------------
(* Cancellation and recovery of one run. *)

\* cancel_run: the run row changes only while it is prepared or running.
CancelFlag(r) == run[r].cancel \/ run[r].status \in {"prepared", "running"}

CancelRun(r) ==
    LET cancel == CancelFlag(r)
        rows == [j \in Jobs |->
                   IF RunOf[j] = r /\ job[j].status \in {"pending", "claimed"}
                   THEN [Unleased(job[j]) EXCEPT !.status = "cancelled"]
                   ELSE job[j]]
    IN  /\ job' = rows
        /\ run' = [run EXCEPT ![r].cancel = cancel,
                              ![r].status = RunStatusFor(r, rows, cancel)]
        /\ UNCHANGED <<attempts, cache, published>>

\* recover_run: every lease of the run counts as expired, whoever holds it, and so do
\* those of other runs that really are; then a returned result without a recorded
\* continuation counts as lost.
DueInRun(r) == DueNow \cup {j \in JobsOf(r) : job[j].status \in SlotStatus}
Lost(r) == {j \in JobsOf(r) : /\ job[j].status = "returned"
                              /\ job[j].cont \notin ContinuationKinds}

RecoverRun(r) ==
    /\ job' = [j \in Jobs |->
                 IF j \in Lost(r) THEN [Unleased(job[j]) EXCEPT !.status = "indeterminate"]
                 ELSE JobsAfter(DueInRun(r))[j]]
    /\ attempts' = [j \in Jobs |->
                      IF j \in Lost(r) /\ Attempted(j)
                      THEN [attempts[j] EXCEPT ![Len(attempts[j])] =
                              [@ EXCEPT !.status = "indeterminate",
                                        !.disposition = "indeterminate"]]
                      ELSE AttemptsAfter(DueInRun(r))[j]]
    /\ run' = RunsAfter({r} \cup {RunOf[j] : j \in DueNow}, job')
    /\ UNCHANGED <<cache, published>>
=============================================================================
