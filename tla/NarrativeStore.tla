--------------------------- MODULE NarrativeStore ---------------------------
(***************************************************************************)
(* The durable records of one consented narrative run (M13): what          *)
(* M13SchedulerPersistenceSink (narrative/workflow.py) writes through      *)
(* M13Persistence (narrative/persistence.py), and what a restarted         *)
(* scheduler reads back from them: how many calls a phase has been charged *)
(* and what each of its jobs has been through.                             *)
(*                                                                         *)
(* A job is a unit of the story together with the accepted work below it:  *)
(* the artifacts of its children enter its identity, its cache key and its *)
(* attempt history.  A plan, the jobs of one phase, is the compatibility   *)
(* identity that call reservations are bound to.                           *)
(*                                                                         *)
(* Left out: job and batch rows (only displayed), tokens, time and cost,   *)
(* which are stored with the calls, usage checkpoints, which repeat what   *)
(* the calls add up to, and records of older program versions.             *)
(***************************************************************************)
EXTENDS Integers, FiniteSets, FiniteSetsExt

CONSTANTS
    Scenes,     \* the units of the first phase
    Segments,   \* the units of the second phase
    Members,    \* the scenes below each segment
    Order       \* the place of each unit in the story

ASSUME UnitsAssumption ==
    /\ IsFiniteSet(Scenes) /\ Scenes # {}
    /\ IsFiniteSet(Segments)
    /\ Scenes \cap Segments = {}
    /\ Members \in [Segments -> SUBSET Scenes]
    /\ Order \in [Scenes \cup Segments -> Nat]
    /\ \A u, v \in Scenes \cup Segments : Order[u] = Order[v] => u = v

VARIABLES
    calls,      \* what became of each reserved call
    attempts,   \* the attempt rows
    cache,      \* jobs with an accepted artifact
    row         \* the run row

storeVars == <<calls, attempts, cache, row>>

-----------------------------------------------------------------------------
(* Records. *)

Jobs == [unit : Scenes, parts : {{}}] \cup [unit : Segments, parts : SUBSET Scenes]
Fates == {"reserved", "transmitted", "unknown", "not_transmitted"}
Outcomes == {"accepted", "refused", "malformed", "transient", "hard_limit", "cancelled"}
RunStates == {"running", "succeeded", "partial", "failed", "hard_limit", "cancelled"}

NoRow == [state |-> "absent", complete |-> "no"]

\* A reservation is named by its plan, its batch, the attempt of each job, and the call number.
Reservation(plan, batch, numbers, call) ==
    [plan |-> plan, batch |-> batch, numbers |-> numbers, call |-> call]
Reserved(plan) == {r \in DOMAIN calls : r.plan = plan}

\* An attempt of a call that did not leave bears the call number 0.
Attempt(job, r, outcome, sent) ==
    [job |-> job, number |-> r.numbers[job], batch |-> r.batch,
     call |-> IF sent THEN r.call ELSE 0, outcome |-> outcome]
SameAttempt(a, b) == a.job = b.job /\ a.number = b.number

StoreInit ==
    /\ calls = <<>>
    /\ attempts = {}
    /\ cache = {}
    /\ row = NoRow

-----------------------------------------------------------------------------
(* Writing. *)

\* Reserving again what is reserved writes nothing.
ReserveCall(r) ==
    /\ calls' = [x \in DOMAIN calls \cup {r} |-> IF x \in DOMAIN calls THEN calls[x] ELSE "reserved"]
    /\ UNCHANGED <<attempts, cache, row>>

\* Faulty: a call whose outcome is unknown is recorded as one that did not leave.
FinalizeAsUnsent(r, fate) ==
    /\ calls' = [calls EXCEPT ![r] = IF fate = "unknown" THEN "not_transmitted" ELSE fate]
    /\ UNCHANGED <<attempts, cache, row>>

FinalizeCall(r, fate) ==
    /\ calls' = [calls EXCEPT ![r] = fate]
    /\ UNCHANGED <<attempts, cache, row>>

\* record_attempt overwrites an attempt of the same number.
RecordAttempt(a) ==
    /\ attempts' = {b \in attempts : ~SameAttempt(a, b)} \cup {a}
    /\ UNCHANGED <<calls, cache, row>>

\* publish_validated writes attempt, artifact and cache entry at once, or nothing: an attempt
\* with this number must not be there yet, and cancellation rolls it back.
Publishable(a) == \A b \in attempts : SameAttempt(a, b) => a = b
Publish(a) ==
    /\ attempts' = attempts \cup {a}
    /\ cache' = cache \cup {a.job}
    /\ UNCHANGED <<calls, row>>

WriteRow(state, complete) ==
    /\ row' = [state |-> state, complete |-> complete]
    /\ UNCHANGED <<calls, attempts, cache>>

\* prepare offers to resume a run that is incomplete or did not succeed, if the row names it.
Resumable ==
    \/ row = NoRow
    \/ row.complete = "no"
    \/ row.complete = "yes" /\ row.state # "succeeded"

-----------------------------------------------------------------------------
(* Reading back. *)

\* The attempt of a reserved call; one without call number belongs to a call that may not have left.
Matches(a, job, r) ==
    /\ a.job = job
    /\ a.number = r.numbers[job]
    /\ a.batch = r.batch
    /\ \/ a.call = r.call
       \/ a.call = 0 /\ calls[r] \in {"reserved", "not_transmitted"}

Matched(a, plan) == \E r \in Reserved(plan) : a.job \in r.batch /\ Matches(a, a.job, r)

\* Faulty: what an incomplete run accepted is not looked up.
CachedIfComplete(job) == job \in cache /\ row.complete = "yes"

\* lookup_exact_cache.
Cached(job) == job \in cache

\* Calls the job was reserved in and that no attempt of it tells about.
Recovered(job, plan) ==
    {r \in Reserved(plan) : job \in r.batch /\ \A a \in attempts : ~Matches(a, job, r)}

AttemptsOf(job, outcomes) == {a \in attempts : a.job = job /\ a.outcome \in outcomes}

\* attempt_history: how often the job was tried, failed for a while, was malformed.
HistoryOf(job, plan) ==
    [tried |-> Cardinality(AttemptsOf(job, Outcomes)) + Cardinality(Recovered(job, plan)),
     transient |-> Cardinality(AttemptsOf(job, {"transient"})),
     malformed |-> Cardinality(AttemptsOf(job, {"malformed"}))]

\* Attempts that no call of the plan accounts for stand for the calls up to their number.
Unaccounted(plan) == {a.call : a \in {b \in attempts : b.job \in plan /\ ~Matched(b, plan)}}

\* Faulty: a call that was never finalized is not charged.
ChargedIfFinalized(plan) ==
    Cardinality({r \in Reserved(plan) : calls[r] \in {"transmitted", "unknown"}})
    + Max({0} \cup Unaccounted(plan))

\* resume_usage: the calls of the phase, except those known not to have left.
Charged(plan) ==
    Cardinality({r \in Reserved(plan) : calls[r] # "not_transmitted"})
    + Max({0} \cup Unaccounted(plan))
=============================================================================
