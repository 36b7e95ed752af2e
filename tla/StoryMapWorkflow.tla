-------------------------- MODULE StoryMapWorkflow --------------------------
(***************************************************************************)
(* The Story Map V2 workflow (story_map_v2/workflow_service.py), the       *)
(* adapter below it (workflow_repository_adapter.py) and the commands      *)
(* above it (start, resume, cancel and approve-retry of web/api.py, the    *)
(* phases of product_vertical.py).                                         *)
(*                                                                         *)
(* A run is executed by a pool of worker threads.  Each of their calls     *)
(* into the repository is one transaction, so one action here: the process *)
(* may die, the user may cancel, a lease may expire and another worker may *)
(* run between any two.  A call the repository refuses raises; the worker  *)
(* then sets the abort event, releases its claim and exits.                *)
(***************************************************************************)
EXTENDS StoryMapRepositorySpec

CONSTANTS
    WorkerRun,      \* the run whose pool each worker (a lease token) belongs to
    LocalKey,       \* the loopback cache identity of each job
    Fallback,       \* whether the frozen policy allows the refusal fallback
    Flagged,        \* results the validator flags for review
    DerivedKind,    \* the call kind of a derived job (bound: at most one rollup)
    MaxFaults,      \* bound: crashes, lease expiries, uncertain or unsent calls,
                    \* resumes of a live run
    ResumesLive     \* bound: whether resumes of a live run are explored at all

ASSUME WorkflowAssumption ==
    /\ WorkerRun \in [Tokens -> Runs]
    /\ LocalKey \in [Jobs -> Keys]
    /\ Fallback \in BOOLEAN
    /\ Results \cap {"invalid", "refusal", "rejected", "uncertain", "unsent",
                     "withdrawn", "none"} = {}
    /\ Flagged \subseteq Results
    /\ DerivedKind \in [Derived -> {"section_synthesis", "rollup_synthesis"}]
    /\ \A i, j \in Derived : {DerivedKind[i], DerivedKind[j]} = {"rollup_synthesis"} => i = j
    /\ MaxFaults \in Nat
    /\ ResumesLive \in BOOLEAN

VARIABLES
    worker,     \* the control state of each worker thread
    pool,       \* what the background execution of each run is doing
    abort,      \* the abort event of each execution
    recovery,   \* the recovery of a run in progress: adapter.recover's loop
    hits,       \* cache_hit_job_ids and loopback_cache_hit_job_ids of each preview
    sent,       \* history: the attempts whose request left the process
    faults      \* how many faults happened so far

serviceVars == <<worker, pool, abort, recovery, hits, sent, faults>>
vars == <<repoVars, serviceVars>>

-----------------------------------------------------------------------------
(* What a worker remembers between two transactions. *)

NoJob == 0
Point == {"off", "poll", "claim", "held", "lookup", "reserve", "reserved",
          "mark", "marked", "submit", "complete", "refuse", "record", "continue",
          "store", "finish", "publish", "release"}

\* What provider.submit came back with: a result, a definite refusal or failure, an
\* uncertain one, one known not to have left, or a withdrawn (cancelled) one.
ResultReply == {"invalid"} \cup Results
SentReply == ResultReply \cup {"refusal", "rejected"}
UnsentReply == {"unsent", "withdrawn"}
Reply == SentReply \cup UnsentReply \cup {"uncertain", "none"}

Idle == [pc |-> "off", job |-> NoJob, kind |-> "mapping", reply |-> "none",
         key |-> NoKey, cached |-> FALSE, end |-> "none", quit |-> FALSE, attempt |-> 0]

Goto(w, pc) == worker' = [worker EXCEPT ![w].pc = pc]
JobAt(w) == worker[w].job
AtPoint(w, pc) == worker[w].pc = pc

\* _finalize_*: the worker goes on to finalize its job with resolution "res".
Finish(w, res) == worker' = [worker EXCEPT ![w].pc = "finish", ![w].end = res]

\* BaseException in _process_claim: abort.set(), then release_claim.
Failing(w) == pool' = [pool EXCEPT ![WorkerRun[w]] = "failing"]
Raise(w) ==
    /\ worker' = [worker EXCEPT ![w].pc = "release", ![w].quit = TRUE]
    /\ abort' = [abort EXCEPT ![WorkerRun[w]] = TRUE]
    /\ Failing(w)

OnlyWorker == UNCHANGED <<repoVars, pool, abort, recovery, hits, sent, faults>>
Service == UNCHANGED <<pool, abort, recovery, hits, sent, faults>>
Refused(w) ==
    /\ Raise(w)
    /\ UNCHANGED <<repoVars, recovery, hits, sent, faults>>

-----------------------------------------------------------------------------
(* _worker *)

\* Faulty: goes round the loop where it should leave it.
PollAgain(w) ==
    /\ AtPoint(w, "poll")
    /\ Goto(w, IF abort[WorkerRun[w]] \/ run[WorkerRun[w]].cancel THEN "poll" ELSE "claim")
    /\ OnlyWorker

\* The loop condition: abort.is_set() and is_cancelled().
Poll(w) ==
    /\ AtPoint(w, "poll")
    /\ IF abort[WorkerRun[w]] \/ run[WorkerRun[w]].cancel
       THEN worker' = [worker EXCEPT ![w] = Idle]
       ELSE Goto(w, "claim")
    /\ OnlyWorker

\* _resume_kind, from the continuation and the attempts read with the claim.
ResumeKind(j) ==
    IF job[j].cont \in ContinuationKinds THEN job[j].cont
    ELSE IF j \in Derived THEN DerivedKind[j]
    ELSE "mapping"

\* Faulty: asks again for ever when there is nothing to claim.
ClaimSpins(w) ==
    /\ AtPoint(w, "claim")
    /\ \/ \E j \in Jobs :
            /\ ClaimNextJob(w, WorkerRun[w], FALSE, j)
            /\ worker' = [worker EXCEPT ![w] = [Idle EXCEPT !.pc = "held", !.job = j,
                                                            !.kind = ResumeKind(j)]]
       \/ ClaimNothing(WorkerRun[w], FALSE) /\ Goto(w, "poll")
    /\ Service
Claim(w) ==
    /\ AtPoint(w, "claim")
    /\ \/ \E j \in Jobs :
            /\ ClaimNextJob(w, WorkerRun[w], FALSE, j)
            /\ worker' = [worker EXCEPT ![w] = [Idle EXCEPT !.pc = "held", !.job = j,
                                                            !.kind = ResumeKind(j)]]
       \/ /\ ClaimNothing(WorkerRun[w], FALSE)
          /\ worker' = [worker EXCEPT ![w] = Idle]
    /\ Service

\* The abort check after the claim, and the cancellation check of _process_claim.
Held(w) ==
    /\ AtPoint(w, "held")
    /\ IF abort[WorkerRun[w]]
       THEN worker' = [worker EXCEPT ![w].pc = "release", ![w].quit = TRUE]
       ELSE IF run[WorkerRun[w]].cancel THEN Finish(w, "cancelled")
       ELSE Goto(w, "lookup")
    /\ OnlyWorker

\* release_claim in the finally clause: what it refuses it refuses with an exception.
MayRelease(w, j) ==
    \/ job[j].token = w /\ job[j].status \in {"reserved", "submitting"}
    \/ job[j].token = NoToken
         /\ job[j].status \in {"pending", "finalized", "published", "cancelled",
                               "indeterminate"}

Release(w) ==
    LET j == JobAt(w)
        Proceed == worker' = [worker EXCEPT ![w] = IF @.quit THEN Idle
                                                 ELSE [Idle EXCEPT !.pc = "poll"]]
    IN  /\ AtPoint(w, "release")
        /\ \/ ReleaseClaim(w, j) /\ Proceed /\ Service
           \/ MayRelease(w, j) /\ Proceed /\ OnlyWorker
           \/ /\ ~HoldsClaim(w, j, {"claimed", "returned", "validated"})
              /\ ~MayRelease(w, j)
              /\ worker' = [worker EXCEPT ![w] = Idle]
              /\ Failing(w)
              /\ UNCHANGED <<repoVars, abort, recovery, hits, sent, faults>>

-----------------------------------------------------------------------------
(* _process_claim up to the call *)

\* _load_eligible_cache: an entry that the preview did not announce and this run did
\* not publish means that the approved work changed.
EligibleIfAnnounced(j, k) == <<j, k>> \in hits[RunOf[j]]    \* faulty
Eligible(j, k) == <<j, k>> \in hits[RunOf[j]] \/ published[j] = cache[k]

UseCached(w, k) ==
    IF cache[k] \in Flagged
    THEN Finish(w, "structural")
    ELSE worker' = [worker EXCEPT ![w].pc = "record", ![w].cached = TRUE,
                                  ![w].key = k, ![w].reply = cache[k]]

\* A derived job has no loopback identity, and its entry needs no announcement.
LookupKey(j) ==
    IF Fallback /\ j \notin Derived /\ cache[CacheKey[j]] = NoResult
    THEN LocalKey[j] ELSE CacheKey[j]

Lookup(w) ==
    LET j == JobAt(w)
        k == LookupKey(j)
        usable == j \in Derived \/ Eligible(j, k)
    IN  /\ AtPoint(w, "lookup")
        /\ IF worker[w].kind \in ContinuationKinds
           THEN /\ IF worker[w].kind = "refusal_fallback" /\ ~Fallback
                   THEN Finish(w, "structural") ELSE Goto(w, "reserve")
                /\ OnlyWorker
           ELSE \/ cache[k] = NoResult /\ Goto(w, "reserve") /\ OnlyWorker
                \/ cache[k] # NoResult /\ usable /\ UseCached(w, k) /\ OnlyWorker
                \/ cache[k] # NoResult /\ ~usable /\ Refused(w)

-----------------------------------------------------------------------------
(* _call *)

\* reserve_attempt: only an exhausted ceiling is an answer, the rest raises.
Reserve(w) ==
    LET j == JobAt(w)
        kind == worker[w].kind
        policy == CanReserve(w, j) /\ KindAllowed(j, kind)
    IN  /\ AtPoint(w, "reserve")
        /\ \/ /\ ReserveAttempt(w, j, kind)
              /\ worker' = [worker EXCEPT ![w].pc = "reserved", ![w].attempt = Ordinal(j)]
              /\ Service
           \/ /\ policy /\ ~WithinLimits(j, kind)
              /\ Finish(w, "structural")
              /\ OnlyWorker
           \/ /\ ~policy \/ (WithinLimits(j, kind) /\ ~HasFreeSlot(j))
              /\ Refused(w)

\* Faulty: a cancelled worker drops its reservation instead of completing it.
PrepareDrops(w) ==
    /\ AtPoint(w, "reserved")
    /\ Goto(w, IF run[WorkerRun[w]].cancel THEN "release" ELSE "mark")
    /\ OnlyWorker

\* Between the reservation and mark_submitting: materialization or the provider
\* factory may fail, and cancellation is looked at.
Prepare(w) ==
    /\ AtPoint(w, "reserved")
    /\ \/ /\ faults < MaxFaults
          /\ faults' = faults + 1
          /\ worker' = [worker EXCEPT ![w].pc = "complete", ![w].reply = "unsent"]
       \/ /\ worker' = IF run[WorkerRun[w]].cancel
                       THEN [worker EXCEPT ![w].pc = "complete", ![w].reply = "withdrawn"]
                       ELSE [worker EXCEPT ![w].pc = "mark"]
          /\ UNCHANGED faults
    /\ UNCHANGED <<repoVars, pool, abort, recovery, hits, sent>>

Owns(w, j) == job[j].token = w

\* mark_submitting answers False when the lease conflict has a cancelled run.
Mark(w) ==
    LET j == JobAt(w) IN
    /\ AtPoint(w, "mark")
    /\ \/ MarkTransmitting(w, j) /\ Goto(w, "marked") /\ Service
       \/ /\ ~MayMark(w, j) /\ Owns(w, j) /\ Cancelled(j)
          /\ worker' = [worker EXCEPT ![w].pc = "complete", ![w].reply = "withdrawn"]
          /\ OnlyWorker
       \/ ~MayMark(w, j) /\ ~(Owns(w, j) /\ Cancelled(j)) /\ Refused(w)

Marked(w) ==
    /\ AtPoint(w, "marked")
    /\ worker' = IF run[WorkerRun[w]].cancel
                 THEN [worker EXCEPT ![w].pc = "complete", ![w].reply = "withdrawn"]
                 ELSE [worker EXCEPT ![w].pc = "submit"]
    /\ OnlyWorker

\* provider.submit, the external call.  It may not leave the process at all.
Submit(w) ==
    LET j == JobAt(w)
        Send == sent' = [sent EXCEPT ![j] = @ \cup {worker[w].attempt}]
    IN  /\ AtPoint(w, "submit")
        /\ \E reply \in Reply \ {"none"} :
              /\ worker' = [worker EXCEPT ![w].pc = "complete", ![w].reply = reply]
              /\ \/ reply \in SentReply /\ Send /\ UNCHANGED faults
                 \/ /\ reply = "uncertain" /\ faults < MaxFaults
                    /\ faults' = faults + 1
                    /\ Send \/ UNCHANGED sent
                 \/ /\ reply = "unsent" /\ faults < MaxFaults
                    /\ faults' = faults + 1
                    /\ UNCHANGED sent
                 \/ reply = "withdrawn" /\ run[WorkerRun[w]].cancel
                    /\ UNCHANGED <<sent, faults>>
        /\ UNCHANGED <<repoVars, pool, abort, recovery, hits>>

UncertainAsUnsent(reply) ==     \* faulty
    IF reply \in SentReply THEN "transmitted" ELSE "definitely_not_transmitted"
DispositionOf(reply) ==
    IF reply \in SentReply THEN "transmitted"
    ELSE IF reply = "uncertain" THEN "indeterminate" ELSE "definitely_not_transmitted"

\* Where the worker goes once the attempt is completed.
AfterCall(w) ==
    LET reply == worker[w].reply
        kind == worker[w].kind
    IN  CASE reply \in Results -> worker' = [worker EXCEPT ![w].pc = "record",
                  ![w].key = IF kind = "refusal_fallback" THEN LocalKey[JobAt(w)]
                             ELSE CacheKey[JobAt(w)]]
          [] reply = "refusal" /\ kind = "mapping" -> Goto(w, "refuse")
          [] reply \in {"invalid", "rejected"} \/ (reply = "refusal" /\ kind # "mapping")
               -> Finish(w, "structural")
          [] reply = "uncertain" -> Finish(w, "indeterminate")
          [] reply = "unsent"    -> Finish(w, "resumable")
          [] reply = "withdrawn" -> Finish(w, "cancelled")

Complete(w) ==
    LET j == JobAt(w)
        d == DispositionOf(worker[w].reply)
    IN  /\ AtPoint(w, "complete")
        /\ \/ /\ \E calls \in {0, 1}, u \in Units :
                   CompleteAttempt(w, j, d, TRUE, calls, u,
                                   d = "definitely_not_transmitted")
              /\ AfterCall(w)
              /\ Service
           \/ ~Completable(w, j, d) /\ Refused(w)

\* The second transaction of complete_attempt after a content refusal of the mapping;
\* then _handle_primary_failure.
Refuse(w) ==
    LET j == JobAt(w) IN
    /\ AtPoint(w, "refuse")
    /\ \/ /\ RecordContinuation(j, "refusal_fallback")
          /\ worker' = IF Fallback
                       THEN [worker EXCEPT ![w].pc = "reserve",
                                           ![w].kind = "refusal_fallback"]
                       ELSE [worker EXCEPT ![w].pc = "finish", ![w].end = "structural"]
          /\ Service
       \/ ~MayContinue(j, "refusal_fallback") /\ Refused(w)

-----------------------------------------------------------------------------
(* _validate_call and _accept_result *)

\* The first transaction of record_validated.
NeedsContinuation(w) ==
    /\ ~worker[w].cached
    /\ \/ worker[w].kind \in ContinuationKinds
       \/ worker[w].kind = "mapping" /\ worker[w].reply \in Flagged

AfterValidation(w) ==
    IF worker[w].reply \in Flagged THEN Finish(w, "structural") ELSE Goto(w, "store")

Record(w) ==
    LET j == JobAt(w)
        o == IF worker[w].cached THEN 0 ELSE worker[w].attempt
        may == Owns(w, j) /\ MayRecord(j, o, worker[w].reply, worker[w].key)
    IN  /\ AtPoint(w, "record")
        /\ \/ /\ may
              /\ RecordValidated(j, o, worker[w].reply, worker[w].key)
              /\ IF NeedsContinuation(w) THEN Goto(w, "continue") ELSE AfterValidation(w)
              /\ Service
           \/ ~may /\ Refused(w)

\* Its second transaction: a flagged mapping asks for a review, a review or fallback
\* is complete.
NextContinuation(w) ==
    IF worker[w].kind \in ContinuationKinds THEN "complete" ELSE "replacement_review"

Continue(w) ==
    LET j == JobAt(w) IN
    /\ AtPoint(w, "continue")
    /\ \/ /\ RecordContinuation(j, NextContinuation(w))
          /\ IF worker[w].kind \in ContinuationKinds
             THEN AfterValidation(w)
             ELSE worker' = [worker EXCEPT ![w].pc = "reserve",
                                           ![w].kind = "replacement_review"]
          /\ Service
       \/ ~MayContinue(j, NextContinuation(w)) /\ Refused(w)

Store(w) ==
    LET j == JobAt(w)
        may == /\ job[j].status = "validated"
               /\ job[j].result = worker[w].reply /\ job[j].key = worker[w].key
               /\ MayStore(j)
    IN  /\ AtPoint(w, "store")
        /\ \/ may /\ StoreCache(j) /\ Finish(w, "accepted") /\ Service
           \/ ~may /\ Refused(w)

\* A call that repeats what the job row already says returns the row.
AlreadyFinal(j, res) ==
    /\ Cancelled(j) => res = "cancelled"
    /\ job[j].resolution = res
    /\ job[j].status \in {"finalized", "published", "indeterminate", "cancelled"}

AfterFinish(w, res) ==
    Goto(w, IF res \in {"accepted", "structural"} THEN "publish" ELSE "release")

\* finalize_job of the adapter.
FinishJob(w) ==
    LET j == JobAt(w)
        res == worker[w].end
        resumable == job[j].status = "finalized" /\ job[j].resolution = "resumable"
    IN  /\ AtPoint(w, "finish")
        /\ IF res = "resumable"
           THEN \/ resumable /\ AfterFinish(w, res) /\ OnlyWorker
                \/ DeferResumableJob(j) /\ AfterFinish(w, res) /\ Service
                \/ ~resumable /\ ~MayDefer(j) /\ Refused(w)
           ELSE \/ FinalizeJob(j, res) /\ AfterFinish(w, res) /\ Service
                \/ AlreadyFinal(j, res) /\ AfterFinish(w, res) /\ OnlyWorker
                \/ ~MayFinalize(j, res) /\ ~AlreadyFinal(j, res) /\ Refused(w)

\* publish_job of the adapter publishes what the cache holds for an accepted job.
PublishedForm(j) ==
    IF job[j].resolution = "accepted" THEN cache[job[j].key] ELSE Structural

Publish(w) ==
    LET j == JobAt(w) IN
    /\ AtPoint(w, "publish")
    /\ \/ PublishJob(j, PublishedForm(j)) /\ Goto(w, "release") /\ Service
       \/ ~MayPublish(j, PublishedForm(j)) /\ Refused(w)

WorkerStep(w) ==
    \/ Poll(w) \/ Claim(w) \/ Held(w) \/ Release(w)
    \/ Lookup(w) \/ Reserve(w) \/ Prepare(w) \/ Mark(w) \/ Marked(w)
    \/ Submit(w) \/ Complete(w) \/ Refuse(w)
    \/ Record(w) \/ Continue(w) \/ Store(w) \/ FinishJob(w) \/ Publish(w)

-----------------------------------------------------------------------------
(* The background execution of a run: execute and the phases above it. *)

Pool == {"idle", "starting", "activating", "running", "failing", "between",
         "registering", "outdated"}
WorkersOf(r) == {w \in Tokens : WorkerRun[w] = r}
PoolTo(r, state) == pool' = [pool EXCEPT ![r] = state]
OnlyPool == UNCHANGED <<repoVars, worker, abort, recovery, hits, sent, faults>>

\* _validate_frozen_cache_state: no entry appeared or vanished since the preview,
\* except by this run's own publications.
CacheUnchanged(j, k) ==
    IF cache[k] = NoResult THEN <<j, k>> \notin hits[RunOf[j]] ELSE Eligible(j, k)

FrozenStateHolds(r) ==
    \A j \in JobsOf(r) \ Derived :
        /\ CacheUnchanged(j, CacheKey[j])
        /\ Fallback => CacheUnchanged(j, LocalKey[j])

\* _validated_execution
Validate(r) ==
    /\ pool[r] = "starting"
    /\ PoolTo(r, IF run[r].cancel \/ ~FrozenStateHolds(r) THEN "idle" ELSE "activating")
    /\ OnlyPool

\* begin_execution, then the workers start.
Begin(r) ==
    /\ pool[r] = "activating"
    /\ ActivateResumableJobs(r)
    /\ PoolTo(r, "running")
    /\ abort' = [abort EXCEPT ![r] = FALSE]
    /\ worker' = [w \in Tokens |-> IF w \in WorkersOf(r) THEN [Idle EXCEPT !.pc = "poll"]
                                                         ELSE worker[w]]
    /\ UNCHANGED <<recovery, hits, sent, faults>>

\* Every future has its result; the exception of any of them ends the execution.
Drain(r) ==
    /\ pool[r] \in {"running", "failing"}
    /\ \A w \in WorkersOf(r) : worker[w].pc = "off"
    /\ PoolTo(r, IF pool[r] = "running" THEN "between" ELSE "idle")
    /\ OnlyPool

\* The unfinished jobs of WorkflowStatus: pending, active, resumable or indeterminate.
HasUnfinished(r) ==
    \E j \in JobsOf(r) : \/ job[j].status \in SlotStatus \cup {"pending", "returned",
                                                             "validated"}
                         \/ job[j].resolution = "resumable"
                         \/ LatestIs(j, "indeterminate")

\* _execution_blocked
Blocked(r) == run[r].cancel \/ HasUnfinished(r)

\* can_cancel of workflow_status_object
CanCancel(r) == ~run[r].cancel /\ HasUnfinished(r)

MappingsOf(r) == JobsOf(r) \ Derived
SectionsOf(r) == {j \in JobsOf(r) \cap Derived : DerivedKind[j] = "section_synthesis"}
RollupsOf(r) == {j \in JobsOf(r) \cap Derived : DerivedKind[j] = "rollup_synthesis"}
Absent(jobs) == {j \in jobs : job[j].status = "absent"}
HaveResults(jobs) == \A j \in jobs : published[j] \notin {NoResult, Structural}

\* Faulty: asks whether a mapping job is through with its call, not for what it published.
MappingsStored(r) ==
    \A i \in MappingsOf(r) : job[i].status \in {"cache_stored", "finalized", "published"}

\* What register_derived_job asks of the mapping jobs, whatever job it registers.
MappingsPublished(r) == \A i \in MappingsOf(r) : published[i] # NoResult

\* Between two executions of execute_product_vertical: the sections are assembled, or
\* the rollup is registered once each section has a provider's result, or the vertical
\* ends, with the exception of the registration if a mapping job has not published.
NextPhase(r) ==
    LET sections == Absent(SectionsOf(r))
        rollups == IF HaveResults(SectionsOf(r)) THEN Absent(RollupsOf(r)) ELSE {}
    IN  /\ pool[r] = "between"
        /\ UNCHANGED <<worker, abort, recovery, hits, sent, faults>>
        /\ \/ /\ ~Blocked(r) /\ sections # {}
              /\ PoolTo(r, IF MappingsPublished(r) THEN "registering" ELSE "outdated")
              /\ UNCHANGED repoVars
           \/ /\ ~Blocked(r) /\ sections = {} /\ MappingsPublished(r)
              /\ \E j \in rollups : RegisterJob(j)
              /\ PoolTo(r, "starting")
           \/ /\ \/ Blocked(r)
                 \/ sections = {} /\ (rollups = {} \/ ~MappingsPublished(r))
              /\ PoolTo(r, "idle") /\ UNCHANGED repoVars

\* The loop over section_jobs: each is a transaction.  It is refused on a cancelled run,
\* before every mapping job has published, and for the changed prose of a child when a
\* mapping job published after the sections were assembled (only perhaps: a structural
\* result changes none).  The exception ends the vertical.
RegisterSections(r) ==
    LET sections == Absent(SectionsOf(r)) IN
    /\ pool[r] \in {"registering", "outdated"}
    /\ UNCHANGED <<worker, abort, recovery, hits, sent, faults>>
    /\ \/ /\ MappingsPublished(r)
          /\ \E j \in sections : First(sections, j) /\ RegisterJob(j)
          /\ UNCHANGED pool
       \/ /\ sections # {}
          /\ run[r].cancel \/ ~MappingsPublished(r) \/ pool[r] = "outdated"
          /\ PoolTo(r, "idle") /\ UNCHANGED repoVars
       \/ sections = {} /\ PoolTo(r, "starting") /\ UNCHANGED repoVars

PoolStep(r) ==
    Validate(r) \/ Begin(r) \/ Drain(r) \/ NextPhase(r) \/ RegisterSections(r)

-----------------------------------------------------------------------------
(* adapter.recover: recover_run, a snapshot of the jobs, then one or three       *)
(* transactions for each job the snapshot shows at a checkpoint.                 *)

Phase == {"idle", "recover", "list", "loop", "done", "failed"}
Chore == {"none", "defer", "store", "finalize", "publish"}
NoChores == [j \in Jobs |-> "none"]
Resting == [phase |-> "idle", chore |-> NoChores]

OnlyRecovery == UNCHANGED <<worker, pool, abort, hits, sent, faults>>
RecoveryTo(r, phase, chore) ==
    recovery' = [recovery EXCEPT ![r] = [phase |-> phase, chore |-> chore]]

ChoreFor(row) ==
    CASE row.status = "pending"   -> "defer"
      [] row.status = "validated" -> IF row.cont \in ContinuationKinds THEN "none"
                                     ELSE "store"
      [] row.status = "finalized" -> "publish"
      [] OTHER                    -> "none"

RecoverLeases(r) ==
    /\ recovery[r].phase = "recover"
    /\ RecoverRun(r)
    /\ RecoveryTo(r, "list", NoChores)
    /\ OnlyRecovery

ListJobs(r) ==
    /\ recovery[r].phase = "list"
    /\ RecoveryTo(r, "loop", [j \in Jobs |-> IF RunOf[j] = r THEN ChoreFor(job[j])
                                                              ELSE "none"])
    /\ OnlyRecovery /\ UNCHANGED repoVars

Chores(r) == {j \in Jobs : recovery[r].chore[j] # "none"}

\* One transaction of the loop; the exception of a refused one ends the recovery.
DoChore(r, j) ==
    LET chore == recovery[r].chore
        Then(next) == RecoveryTo(r, "loop", [chore EXCEPT ![j] = next])
        Fail == RecoveryTo(r, "failed", NoChores) /\ UNCHANGED repoVars
        unsent == Attempted(j) /\ Latest(j).disposition = "definitely_not_transmitted"
    IN  CASE chore[j] = "defer" ->
               \/ unsent /\ DeferResumableJob(j) /\ Then("none")
               \/ unsent /\ ~MayDefer(j) /\ Fail
               \/ ~unsent /\ Then("none") /\ UNCHANGED repoVars
          [] chore[j] = "store" ->
               \/ StoreCache(j) /\ Then("finalize")
               \/ ~MayStore(j) /\ Fail
          [] chore[j] = "finalize" ->
               \/ FinalizeJob(j, "accepted") /\ Then("publish")
               \/ ~MayFinalize(j, "accepted") /\ AlreadyFinal(j, "accepted")
                     /\ Then("publish") /\ UNCHANGED repoVars
               \/ ~MayFinalize(j, "accepted") /\ ~AlreadyFinal(j, "accepted") /\ Fail
          [] chore[j] = "publish" ->
               \/ PublishJob(j, PublishedForm(j)) /\ Then("none")
               \/ ~MayPublish(j, PublishedForm(j)) /\ Fail

Loop(r) ==
    /\ recovery[r].phase = "loop"
    /\ \/ \E j \in Jobs : First(Chores(r), j) /\ DoChore(r, j)
       \/ Chores(r) = {} /\ RecoveryTo(r, "done", NoChores) /\ UNCHANGED repoVars
    /\ OnlyRecovery

\* The resume command goes on to start the background execution, unless one is
\* running already.
EndResume(r) ==
    /\ recovery[r].phase \in {"done", "failed"}
    /\ recovery' = [recovery EXCEPT ![r] = Resting]
    /\ pool' = IF recovery[r].phase = "done" /\ pool[r] = "idle"
               THEN [pool EXCEPT ![r] = "starting"] ELSE pool
    /\ UNCHANGED <<repoVars, worker, abort, hits, sent, faults>>

RecoveryStep(r) == RecoverLeases(r) \/ ListJobs(r) \/ Loop(r) \/ EndResume(r)

-----------------------------------------------------------------------------
(* Commands of the user, and what may go wrong. *)

Start(r) ==
    /\ pool[r] = "idle" /\ ~run[r].cancel
    /\ StoreRunApproval(r)
    /\ PoolTo(r, "starting")
    /\ UNCHANGED <<worker, abort, recovery, hits, sent, faults>>

\* resume looks at the approval and at the cancellation, neither at can_resume nor, yet,
\* at the background execution: resuming a live run counts as a fault.
Resume(r) ==
    /\ recovery[r].phase = "idle"
    /\ run[r].approved /\ ~run[r].cancel
    /\ IF pool[r] = "idle" THEN UNCHANGED faults
       ELSE ResumesLive /\ faults < MaxFaults /\ faults' = faults + 1
    /\ RecoveryTo(r, "recover", NoChores)
    /\ UNCHANGED <<repoVars, worker, pool, abort, hits, sent>>

Cancel(r) == CancelRun(r) /\ UNCHANGED serviceVars

ApproveRetry(j) == StoreRetryApproval(j) /\ UNCHANGED serviceVars

\* The process dies; only what the repository committed is left.
Crash ==
    /\ faults < MaxFaults
    /\ faults' = faults + 1
    /\ \E r \in Runs : pool[r] # "idle" \/ recovery[r].phase # "idle"
    /\ worker' = [w \in Tokens |-> Idle]
    /\ pool' = [r \in Runs |-> "idle"]
    /\ abort' = [r \in Runs |-> FALSE]
    /\ recovery' = [r \in Runs |-> Resting]
    /\ UNCHANGED <<repoVars, hits, sent>>

\* A call outlives its lease: nothing in the service renews it.
Expire(j) ==
    /\ faults < MaxFaults
    /\ faults' = faults + 1
    /\ ExpireLease(j)
    /\ UNCHANGED <<worker, pool, abort, recovery, hits, sent>>

-----------------------------------------------------------------------------
WorkflowInit ==
    /\ RepoInit
    /\ worker = [w \in Tokens |-> Idle]
    /\ pool = [r \in Runs |-> "idle"]
    /\ abort = [r \in Runs |-> FALSE]
    /\ recovery = [r \in Runs |-> Resting]
    /\ hits = [r \in Runs |-> {<<j, LookupKey(j)>> : j \in
                  {i \in JobsOf(r) \ Derived : cache[LookupKey(i)] # NoResult}}]
    /\ sent = [j \in Jobs |-> {}]
    /\ faults = 0

Command ==
    \/ \E r \in Runs : Start(r) \/ Resume(r) \/ Cancel(r)
    \/ \E j \in Jobs : ApproveRetry(j)

Fault == Crash \/ \E j \in Jobs : Expire(j)

Next ==
    \/ \E w \in Tokens : WorkerStep(w)
    \/ \E r \in Runs : PoolStep(r) \/ RecoveryStep(r)
    \/ Command
    \/ Fault

Workflow == WorkflowInit /\ [][Next]_vars

\* Threads, the coordinating thread and a recovery once begun are run by the operating
\* system until they end; users need not type anything.
FairWorkflow ==
    /\ Workflow
    /\ \A w \in Tokens : WF_vars(WorkerStep(w))
    /\ \A r \in Runs : WF_vars(PoolStep(r)) /\ WF_vars(RecoveryStep(r))

-----------------------------------------------------------------------------
(* Safety. *)

\* The durable record never claims that a request stayed at home which left: whatever
\* crashes, expires or is recovered under a live worker, an attempt recorded as
\* definitely not transmitted was not.
DefinitelyUnsent ==
    \A j \in Jobs : \A o \in DOMAIN attempts[j] :
        attempts[j][o].disposition = "definitely_not_transmitted" => o \notin sent[j]

\* What the approvals are for: the provider sees a second request of one kind for one
\* job only if the user approved a retry of the first one or of a later attempt.
SentTwiceOnlyIfApproved ==
    \A j \in Jobs : \A a, b \in sent[j] :
        a < b /\ attempts[j][a].kind = attempts[j][b].kind
          => /\ attempts[j][b].retryOf >= a
             /\ attempts[j][attempts[j][b].retryOf].approval = "consumed"

\* While nothing goes wrong outside the program, an execution that came to its end,
\* by draining its jobs, by cancellation or by an exception, leaves no claim of its
\* run behind: nothing waits for a lease to expire.
NoClaimLeft ==
    \A r \in Runs : faults = 0 /\ pool[r] \in {"between", "idle"} =>
        \A j \in JobsOf(r) : job[j].status \notin SlotStatus

\* If nobody cancels either, there is no exception: the repository refuses no call of
\* any worker.
NothingRefused == \A r \in Runs : faults = 0 /\ ~run[r].cancel => pool[r] # "failing"

\* An execution that nothing disturbs ends cleanly: both of them.
CleanDrain == NoClaimLeft /\ NothingRefused

\* A section, whose prompt is built from the published results of the mapping jobs, is
\* registered only once every one of them is published, a rollup only once every section
\* has a provider's result; and they stay so.
DerivedAfterMapping ==
    \A r \in Runs :
        /\ Absent(SectionsOf(r)) # SectionsOf(r) =>
              \A i \in MappingsOf(r) : job[i].status = "published"
        /\ Absent(RollupsOf(r)) # RollupsOf(r) =>
              HaveResults(SectionsOf(r)) /\ Absent(SectionsOf(r)) = {}

\* A worker that still holds its job carries a call kind the attempt policy allows
\* when it reserves: a recorded continuation can always be continued.
ContinuationIsCallable ==
    \A w \in Tokens :
        LET j == JobAt(w) IN
        AtPoint(w, "reserve") /\ CanReserve(w, j) => KindAllowed(j, worker[w].kind)

\* A result the validator flagged is never published as accepted; only an unflagged
\* replacement may be.
FlaggedNeverAccepted ==
    \A j \in Jobs : job[j].resolution = "accepted" => published[j] \notin Flagged

\* A recovery that no execution runs beside leaves no job of its run half-way through
\* a checkpoint.
RecoveryFinishesCheckpoints ==
    \A r \in Runs : recovery[r].phase = "done" /\ pool[r] = "idle" /\ ~run[r].cancel =>
        \A j \in JobsOf(r) :
            job[j].status \notin SlotStatus \cup {"cache_stored", "finalized"}
              \/ job[j].resolution = "resumable"

\* Resuming an interrupted, uncancelled run that nothing executes does not fail.
ResumeSucceeds ==
    \A r \in Runs : recovery[r].phase = "failed" => run[r].cancel \/ pool[r] # "idle"

\* A run whose status offers to cancel it is cancelled by the cancel command.
OfferedCancelWorks == \A r \in Runs : CanCancel(r) => CancelFlag(r)

\* A flagged mapping result gets its review: the repository lets the worker that holds
\* the job record it.
FlaggedMappingIsReviewed ==
    \A w \in Tokens :
        LET j == JobAt(w) IN
        /\ AtPoint(w, "continue") /\ Owns(w, j) /\ ~Cancelled(j)
        /\ job[j].status = "validated"
        => MayContinue(j, NextContinuation(w))

-----------------------------------------------------------------------------
(* Liveness. *)

\* Each execution with its workers at work or leaving comes to an end, whatever the workers
\* meet: no worker waits for another, and none loops forever.
ExecutionEnds == \A r \in Runs : []<>(pool[r] \notin {"running", "failing"})

\* While nothing goes wrong outside the program and nobody cancels, a started run gets
\* every job published, the sections and the rollup it registers on the way included
\* (a rollup over a section without a provider's result is never asked for).
StartedIsPublished ==
    \A r \in Runs :
        run[r].approved ~>
            \/ faults > 0 \/ run[r].cancel
            \/ \A j \in JobsOf(r) : \/ job[j].status = "published"
                                     \/ /\ j \in Absent(RollupsOf(r))
                                        /\ ~HaveResults(SectionsOf(r))

\* A persisted cancellation, which is final (CancellationHolds), stops the execution for
\* good: from some point on no cancelled run has one, nor a resume that begins one.
CancellationStops == \A r \in Runs : <>[](run[r].cancel => pool[r] = "idle")
=============================================================================
