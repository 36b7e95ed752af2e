---------------------------- MODULE NarrativeRun ----------------------------
(***************************************************************************)
(* The M13 narrative pipeline above NarrativeStore: NarrativeScheduler     *)
(* (narrative/scheduler.py) packs the open jobs of a phase into batches    *)
(* (narrative/batching.py), reserves, submits and settles one call after   *)
(* another, splits and retries; run_complete_narrative                     *)
(* (narrative/pipeline.py) runs one phase after another over what the      *)
(* phase before accepted; web/api.py starts, cancels and restarts it.      *)
(*                                                                         *)
(* The run is one background thread.  Each of its transactions and its     *)
(* provider call is a step; the user may cancel and the process may end    *)
(* between any two.                                                        *)
(*                                                                         *)
(* Left out: the phases above segments, which are scheduled as segments    *)
(* are; tokens and time, whose limits may bind at any step; cost, which    *)
(* web runs never bound; two processes on one project.                     *)
(***************************************************************************)
EXTENDS NarrativeStore, Sequences

CONSTANTS
    BatchSize,      \* BatchLimits.maximum_items
    MaxCalls,       \* BudgetLimits.max_provider_calls of the consent
    MaxAttempts,    \* SchedulerPolicy.maximum_attempts_per_job
    MaxTransient,   \* SchedulerPolicy.maximum_transient_attempts_per_job
    MaxMalformed,   \* SchedulerPolicy.maximum_malformed_attempts_per_job
    Failures,       \* bound: the provider errors explored, among FailureKinds
    MaxStarts       \* bound: starts and restarts of the run

\* What the scheduler distinguishes among provider errors and among unusable responses.
FailureKinds == {"withdrawn", "global", "transient", "limit", "refusal", "output", "other"}
ResponseKinds == {"unbound", "over", "unusable", "items"}

ASSUME PolicyAssumption ==
    /\ BatchSize \in Nat \ {0}
    /\ MaxCalls \in Nat
    /\ MaxAttempts \in Nat \ {0}
    /\ MaxTransient \in 1..MaxAttempts
    /\ MaxMalformed \in 1..MaxAttempts
    /\ Failures \subseteq FailureKinds
    /\ MaxStarts \in Nat

VARIABLES
    thread,     \* the background thread and its local variables
    cancelled,  \* the cancel event of the task
    starts,     \* bound: starts so far
    sent        \* history: how often the request of a reservation was submitted

vars == <<storeVars, thread, cancelled, starts, sent>>

-----------------------------------------------------------------------------
(* The thread. *)

NoCall == Reservation({}, {}, <<>>, 0)
NoReply == [kind |-> "none", left |-> TRUE]
Resting == [pc |-> "idle", plan |-> {}, segments |-> FALSE, prior |-> 0, used |-> 0,
            record |-> <<>>, history |-> <<>>, queue |-> <<>>, call |-> NoCall,
            reply |-> NoReply, todo |-> {}, again |-> {}, outcome |-> "none", ends |-> {}]

At(pc) == thread.pc = pc
Raise == thread' = Resting
Accepted == {"succeeded"}
Terminal == Accepted \cup {"failed", "refused", "cancelled"}

Job(unit, parts) == [unit |-> unit, parts |-> parts]
ScenePlan == {Job(s, {}) : s \in Scenes}
SegmentPlan(parts) == {Job(g, parts \cap Members[g]) : g \in Segments}

Init ==
    /\ StoreInit
    /\ thread = Resting
    /\ cancelled = FALSE
    /\ starts = 0
    /\ sent = <<>>

Keeps == UNCHANGED <<cancelled, starts>>
Silent == Keeps /\ UNCHANGED <<storeVars, sent>>

-----------------------------------------------------------------------------
(* Commands. *)

\* m13_start: the run row is written before the task exists.
Start ==
    /\ At("idle") /\ Resumable /\ starts < MaxStarts
    /\ WriteRow("running", "no")
    /\ thread' = [Resting EXCEPT !.pc = "resume", !.plan = ScenePlan]
    /\ cancelled' = FALSE
    /\ starts' = starts + 1
    /\ UNCHANGED sent

Cancel ==
    /\ ~At("idle") /\ ~cancelled
    /\ cancelled' = TRUE
    /\ UNCHANGED <<storeVars, thread, starts, sent>>

Crash ==
    /\ ~At("idle")
    /\ Raise
    /\ Silent

-----------------------------------------------------------------------------
(* One phase: NarrativeScheduler.run. *)

\* Batches keep the order of the story.
Rank(job, jobs) == Cardinality({j \in jobs : Order[j.unit] <= Order[job.unit]})

\* maximum_items jobs to a batch.
Pack(jobs) ==
    [k \in 1..((Cardinality(jobs) + BatchSize - 1) \div BatchSize) |->
        {j \in jobs : Rank(j, jobs) \in (k - 1) * BatchSize + 1..k * BatchSize}]

CeilingReached(history) ==
    \/ history.tried >= MaxAttempts
    \/ history.transient >= MaxTransient
    \/ history.malformed >= MaxMalformed

\* What is left of a phase when its run row is written.
Finished(t, outcome, record) ==
    [t EXCEPT !.pc = "finish", !.outcome = outcome, !.record = record, !.history = <<>>,
              !.queue = <<>>, !.call = NoCall, !.reply = NoReply, !.todo = {}, !.again = {}]

\* _mark_unfinished.
Stop(outcome, mark) ==
    thread' = Finished(thread, outcome,
        [j \in DOMAIN thread.record |->
            IF thread.record[j] \in Terminal THEN thread.record[j] ELSE mark])

\* _derive_state.
Derived(record) ==
    LET ok == {j \in DOMAIN record : record[j] \in Accepted} IN
    IF ok = DOMAIN record THEN "succeeded" ELSE IF ok # {} THEN "partial" ELSE "failed"

\* resume_usage, attempt_history and lookup_exact_cache: where the phase stands.
Resume ==
    LET plan == thread.plan
        history == [j \in plan |-> HistoryOf(j, plan)]
        record == [j \in plan |->
                      IF Cached(j) THEN "succeeded"
                      ELSE IF CeilingReached(history[j]) THEN "failed" ELSE "queued"]
        open == {j \in plan : record[j] = "queued"}
        resumed == [thread EXCEPT !.used = Charged(plan), !.history = history]
    IN
    /\ At("resume")
    /\ Silent
    /\ \/ /\ cancelled
          /\ thread' = Finished(resumed, "cancelled", [j \in plan |-> "cancelled"])
       \/ /\ \E j \in plan \ cache : AttemptsOf(j, {"accepted"}) # {}
          /\ Raise
       \/ /\ \A j \in plan \ cache : AttemptsOf(j, {"accepted"}) = {}
          /\ IF open = {}
             THEN thread' = Finished(resumed, Derived(record), record)
             ELSE \/ thread' = [resumed EXCEPT !.pc = "loop", !.record = record,
                                               !.queue = Pack(open)]
                  \/ \* the provider is not available, or is another one
                     thread' = Finished(resumed, "failed",
                         [j \in plan |->
                             IF record[j] = "queued" THEN "refused" ELSE record[j]])

StopCancelled ==
    /\ At("loop") /\ cancelled
    /\ Stop("cancelled", "cancelled")
    /\ Silent

Drained ==
    /\ At("loop") /\ ~cancelled /\ thread.queue = <<>>
    /\ thread' = Finished(thread, Derived(thread.record), thread.record)
    /\ Silent

\* _preflight_limit: calls; tokens and time may be spent at any step.
OverLimit == thread.prior + thread.used + 1 > MaxCalls

StopAtLimit ==
    /\ At("loop") /\ ~cancelled /\ thread.queue # <<>>
    /\ Stop("hard_limit", "failed")
    /\ Silent

NextCall ==
    LET batch == Head(thread.queue) IN
    Reservation(thread.plan, batch, [j \in batch |-> thread.history[j].tried + 1],
                thread.prior + thread.used + 1)

Singletons(jobs) ==
    [i \in 1..Cardinality(jobs) |-> {j \in jobs : Rank(j, jobs) = i}]

Active(batch) == {j \in batch \cap thread.plan : thread.record[j] \notin Terminal}

\* A call is reserved before it is made.  (Batches of which some jobs are done are regrouped.)
Reserve ==
    LET batch == Head(thread.queue) IN
    /\ At("loop") /\ ~cancelled /\ thread.queue # <<>> /\ ~OverLimit
    /\ IF Active(batch) = batch
       THEN /\ ReserveCall(NextCall)
            /\ thread' = [thread EXCEPT !.pc = "submit", !.queue = Tail(@), !.call = NextCall,
                             !.used = @ + 1,
                             !.record = [j \in DOMAIN @ |->
                                            IF j \in batch THEN "running" ELSE @[j]]]
            /\ sent' = [r \in DOMAIN calls' |-> IF r \in DOMAIN calls THEN sent[r] ELSE 0]
       ELSE /\ thread' = [thread EXCEPT !.queue = Singletons(Active(batch)) \o Tail(@)]
            /\ UNCHANGED <<storeVars, sent>>
    /\ Keeps

Submitted == sent' = [sent EXCEPT ![thread.call] = @ + 1]

\* Faulty: a call that did not leave stays on the bill of this process.
AnsweredCharged(pc, kind, left) ==
    thread' = [thread EXCEPT !.pc = pc, !.reply = [kind |-> kind, left |-> left],
                             !.todo = thread.call.batch, !.again = {}]

Answered(pc, kind, left) ==
    thread' = [thread EXCEPT !.pc = pc, !.reply = [kind |-> kind, left |-> left],
                             !.todo = thread.call.batch, !.again = {},
                             !.used = IF left THEN @ ELSE @ - 1]

\* The provider raises; it says whether the request may have left.
Fail(kind, left) ==
    /\ At("submit")
    /\ kind = "withdrawn" => cancelled
    /\ Answered("record", kind, left)
    /\ IF left THEN Submitted ELSE UNCHANGED sent
    /\ Keeps /\ UNCHANGED storeVars

\* Any other exception ends the thread; the call is finalized as unknown.
Interrupt ==
    /\ At("submit")
    /\ FinalizeCall(thread.call, "unknown")
    /\ Raise
    /\ Submitted
    /\ Keeps

Respond ==
    /\ At("submit")
    /\ Answered("finalize", "none", TRUE)
    /\ Submitted
    /\ Keeps /\ UNCHANGED storeVars

\* A response is charged before it is looked at.
Finalize(kind) ==
    /\ At("finalize")
    /\ FinalizeCall(thread.call, "transmitted")
    /\ thread' = [thread EXCEPT !.pc = "record",
           !.reply.kind = IF cancelled /\ kind \in {"unusable", "items"} THEN "withdrawn" ELSE kind]
    /\ Keeps /\ UNCHANGED sent

-----------------------------------------------------------------------------
(* Recording the attempts of a call, job by job. *)

Batch == thread.call.batch
Current(job) == job \in thread.todo /\ Rank(job, thread.todo) = 1

OutcomeOf(kind) ==
    CASE kind = "withdrawn" -> "cancelled"
      [] kind = "transient" -> "transient"
      [] kind \in {"limit", "over"} -> "hard_limit"
      [] kind \in {"refusal", "refused item"} -> "refused"
      [] OTHER -> "malformed"

\* Faulty: a transient failure is not counted.
TriedUnlessTransient(history, outcome) ==
    [history EXCEPT !.tried = @ + (IF outcome = "transient" THEN 0 ELSE 1)]

Tried(history, outcome) ==
    [tried |-> history.tried + 1,
     transient |-> history.transient + (IF outcome = "transient" THEN 1 ELSE 0),
     malformed |-> history.malformed + (IF outcome = "malformed" THEN 1 ELSE 0)]

\* _eligible_error and _eligible_malformed.
Eligible(kind, history) ==
    /\ history.tried < MaxAttempts
    /\ \/ kind \in {"refusal", "limit"} /\ Cardinality(Batch) > 1
       \/ kind \in {"output", "unusable", "bad item"} /\ history.malformed < MaxMalformed
       \/ kind = "transient" /\ history.transient < MaxTransient

\* What a job is when it is not tried again; after "over" and "withdrawn" responses it stays
\* as it is until the phase stops.
Verdict(kind) ==
    CASE kind = "withdrawn" -> "cancelled"
      [] kind \in {"refusal", "refused item"} -> "refused"
      [] kind = "over" -> "running"
      [] OTHER -> "failed"

Recorded(job, outcome, state, retry) ==
    LET rest == thread.todo \ {job} IN
    [thread EXCEPT !.todo = rest,
                   !.pc = IF rest = {} THEN "settle" ELSE "record",
                   !.history[job] = Tried(@, outcome),
                   !.record[job] = state,
                   !.again = IF retry THEN @ \cup {job} ELSE @]

\* An attempt that published nothing.
RecordFailure(job, kind) ==
    LET outcome == OutcomeOf(kind)
        retry == Eligible(kind, Tried(thread.history[job], outcome))
    IN  /\ RecordAttempt(Attempt(job, thread.call, outcome, thread.reply.left))
        /\ thread' = [Recorded(job, outcome, IF retry THEN "queued" ELSE Verdict(kind), retry)
                        EXCEPT !.reply.kind = IF kind = "withdrawn" THEN kind ELSE @]
        /\ Keeps /\ UNCHANGED sent

RecordError(job) ==
    /\ At("record") /\ Current(job) /\ thread.reply.kind # "items"
    /\ RecordFailure(job, thread.reply.kind)

\* An item of a response that is looked at one by one.
RecordItem(job, kind) ==
    /\ At("record") /\ Current(job) /\ thread.reply.kind = "items"
    /\ kind = "withdrawn" <=> cancelled
    /\ RecordFailure(job, kind)

Accept(job) ==
    LET attempt == Attempt(job, thread.call, "accepted", TRUE) IN
    /\ At("record") /\ Current(job) /\ thread.reply.kind = "items"
    /\ ~cancelled /\ Publishable(attempt)
    /\ Publish(attempt)
    /\ thread' = Recorded(job, "accepted", "succeeded", FALSE)
    /\ Keeps /\ UNCHANGED sent

\* The publication is rolled back: cancelled meanwhile, or the number is taken.
RollBack(job) ==
    LET attempt == Attempt(job, thread.call, "accepted", TRUE) IN
    /\ At("record") /\ Current(job) /\ thread.reply.kind = "items"
    /\ cancelled \/ ~Publishable(attempt)
    /\ Raise
    /\ Silent

Halves == LET half == {j \in Batch : Rank(j, Batch) <= Cardinality(Batch) \div 2}
          IN  <<half, Batch \ half>>

\* The batches a call is followed by: itself, its halves, or single jobs.
Retries ==
    LET kind == thread.reply.kind
        again == thread.again
    IN  IF again = {} THEN <<>>
        ELSE IF kind = "transient" /\ again = Batch THEN <<Batch>>
        ELSE IF kind \in {"refusal", "limit", "output", "unusable"} /\ Cardinality(Batch) > 1
                /\ again = Batch THEN Halves
        ELSE Singletons(again)

\* The calls after which the phase stops.
Stopping ==
    LET kind == thread.reply.kind IN
    IF kind = "withdrawn" THEN "cancelled"
    ELSE IF kind \in {"global", "unbound"} THEN "failed"
    ELSE IF kind = "over" \/ (kind = "limit" /\ thread.again = {}) THEN "hard_limit"
    ELSE "none"

\* A failed call is finalized after its attempts; then the retries go to the front of the queue.
Settle ==
    /\ At("settle")
    /\ IF calls[thread.call] = "reserved"
       THEN FinalizeCall(thread.call, IF thread.reply.left THEN "unknown" ELSE "not_transmitted")
       ELSE UNCHANGED storeVars
    /\ IF Stopping = "none"
       THEN thread' = [thread EXCEPT !.pc = "loop", !.queue = Retries \o @, !.call = NoCall,
                                     !.reply = NoReply, !.again = {}]
       ELSE Stop(Stopping, IF Stopping = "cancelled" THEN "cancelled" ELSE "failed")
    /\ Keeps /\ UNCHANGED sent

-----------------------------------------------------------------------------
(* From phase to phase: run_complete_narrative, and the end of the task. *)

\* _terminal_phase looks at the cancel event again.
StopsPipeline == cancelled \/ thread.outcome \in {"cancelled", "hard_limit"}

AcceptedParts == {j.unit : j \in {k \in thread.plan : thread.record[k] \in Accepted}}

\* _finish keeps the browser's fields of the row.
FinishPhase ==
    /\ At("finish")
    /\ WriteRow(thread.outcome, row.complete)
    /\ LET ends == thread.ends \cup {thread.outcome}
                   \cup (IF StopsPipeline THEN {"stopped"} ELSE {})
                   \cup (IF AcceptedParts # {} THEN {"some"} ELSE {}) IN
       IF StopsPipeline \/ thread.segments \/ Segments = {}
       THEN thread' = [Resting EXCEPT !.pc = "aggregate", !.ends = ends]
       ELSE thread' = [Resting EXCEPT !.pc = "resume", !.segments = TRUE, !.ends = ends,
                                      !.plan = SegmentPlan(AcceptedParts),
                                      !.prior = thread.prior + thread.used]
    /\ Keeps /\ UNCHANGED sent

PipelineState ==
    LET ends == thread.ends IN
    IF "hard_limit" \in ends THEN "hard_limit"
    ELSE IF "cancelled" \in ends THEN "cancelled"
    ELSE IF ends = {"succeeded", "some"} THEN "succeeded"
    ELSE IF "some" \in ends THEN "partial" ELSE "failed"

\* _finish_pipeline rewrites the row without the browser's fields ...
Aggregate ==
    /\ At("aggregate")
    /\ WriteRow(PipelineState, "unnamed")
    /\ thread' = [thread EXCEPT !.pc = "persist", !.outcome = PipelineState]
    /\ Keeps /\ UNCHANGED sent

\* ... and _persist_m13_browser_run adds them again.
Persist ==
    /\ At("persist")
    /\ WriteRow(thread.outcome, "yes")
    /\ thread' = Resting
    /\ Keeps /\ UNCHANGED sent

-----------------------------------------------------------------------------
ThreadStep ==
    \/ Resume \/ StopCancelled \/ Drained \/ StopAtLimit \/ Reserve
    \/ \E kind \in Failures, left \in BOOLEAN : Fail(kind, left)
    \/ Interrupt \/ Respond
    \/ \E kind \in ResponseKinds : Finalize(kind)
    \/ \E job \in thread.todo : RecordError(job)
    \/ \E job \in thread.todo, kind \in {"refused item", "bad item", "withdrawn"} :
           RecordItem(job, kind)
    \/ \E job \in thread.todo : Accept(job)
    \/ \E job \in thread.todo : RollBack(job)
    \/ Settle
    \/ FinishPhase \/ Aggregate \/ Persist

Next == ThreadStep \/ Start \/ Cancel \/ Crash

Spec == Init /\ [][Next]_vars
\* The background thread runs, and the provider answers or times out.
FairSpec == Spec /\ WF_vars(ThreadStep)

-----------------------------------------------------------------------------
(* Properties. *)

Steps == {"idle", "resume", "loop", "submit", "finalize", "record", "settle",
          "finish", "aggregate", "persist"}
ReservationOK(r) ==
    /\ r.plan \subseteq Jobs
    /\ r.batch \subseteq r.plan
    /\ r.numbers \in [r.batch -> Nat]
    /\ r.call \in Nat

\* Records have the declared shape, and a call that is in progress is reserved.
NarrativeTypeOK ==
    /\ \A r \in DOMAIN calls : ReservationOK(r) /\ calls[r] \in Fates
    /\ DOMAIN sent = DOMAIN calls
    /\ \A r \in DOMAIN calls : sent[r] \in Nat
    /\ cache \subseteq Jobs
    /\ \A a \in attempts : a.job \in Jobs /\ a.outcome \in Outcomes /\ a.number \in Nat
    /\ row.state \in RunStates \cup {"absent"} /\ row.complete \in {"no", "yes", "unnamed"}
    /\ thread.pc \in Steps
    /\ thread.plan \subseteq Jobs
    /\ thread.prior \in Nat /\ thread.used \in Nat
    /\ thread.pc \in {"submit", "finalize", "record", "settle"} =>
          thread.call \in DOMAIN calls /\ thread.call.plan = thread.plan

\* The calls of a phase that were made or may have been.
Made(plan) == {r \in Reserved(plan) : calls[r] # "not_transmitted"}

\* However often a run is interrupted and restarted, the calls made for the jobs of one phase, and
\* those that may have been made, stay within the limit the user consented to.
PhaseWithinLimit == \A r \in DOMAIN calls : Cardinality(Made(r.plan)) <= MaxCalls

\* The jobs of the plan never were part of another plan.  When a scene is accepted later, the
\* segment above it becomes another job, and its siblings jobs of another plan: that plan does
\* not see what was reserved for them before, and their attempts may be overwritten.
Unshared(plan) == \A r \in DOMAIN calls : r.plan = plan \/ r.plan \cap plan = {}

\* A reservation stands for one request, and for none if it says so: what was sent is recorded.
\* And a job is not sent more often under one plan than its ceiling allows, crashes included.
SentIsCharged ==
    \A r \in DOMAIN calls : Unshared(r.plan) =>
        /\ sent[r] <= (IF calls[r] = "not_transmitted" THEN 0 ELSE 1)
        /\ \A j \in r.batch :
              Cardinality({x \in Reserved(r.plan) : j \in x.batch /\ sent[x] > 0}) <= MaxAttempts

\* Between two calls the counters in memory are what a restart would read back.
CountersAgree ==
    /\ thread.used = Charged(thread.plan)
    /\ \A j \in thread.plan : thread.history[j] = HistoryOf(j, thread.plan)
ResumeAgrees == At("loop") /\ Unshared(thread.plan) => CountersAgree

\* The same for every plan.  Claimed by the documents.
RestartAgrees == At("loop") => CountersAgree

\* What was accepted is never paid for again.
AcceptedNeverResent ==
    [][\A r \in DOMAIN sent \cap DOMAIN sent' :
          sent'[r] # sent[r] => r.batch \cap cache = {}]_vars

\* A started run comes to its end: neither splits nor the refund of calls that did not leave
\* make an endless retry.
RunEnds == ~At("idle") ~> At("idle")

\* The calls of a run stay within the limit of its consent.  Claimed by the documents.
CallsWithinConsent == Cardinality({r \in DOMAIN sent : sent[r] > 0}) <= MaxCalls
=============================================================================
