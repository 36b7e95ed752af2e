-------------------------- MODULE OrganizationRun --------------------------
(***************************************************************************)
(* A guided organization run (M07): the consent of m07_workflow.py, the    *)
(* scheduler of organization/parallel.py, the provider calls of            *)
(* organization/provider.py, the background slot and the commands of       *)
(* web/api.py, above the tables of OrganizationStore.                      *)
(*                                                                         *)
(* The coordinator is the thread of the background task; each launched     *)
(* scope has a worker thread.  Workers share the usage ledger and the      *)
(* repair semaphore; only the coordinator publishes.  Refreshes share the  *)
(* slot: they analyse a copy of the project, which replaces it at the end. *)
(* The commands of the reviewer come at any time, and so does the end of   *)
(* the process.                                                            *)
(*                                                                         *)
(* Left out: other processes, which may replace the file under the run;    *)
(* bounded windows (a window is one more scope), providers                 *)
(* without gate and observer, scopes without a deterministic fallback      *)
(* (m07_workflow.py always supplies one).                                  *)
(***************************************************************************)
EXTENDS OrganizationStore

CONSTANTS
    Parts,          \* how many provider requests each scope is split into
    Ceiling,        \* the token ceiling reserved for an attempt
    HardTokens,     \* BudgetPolicy.hard_tokens
    HardCalls,      \* BudgetPolicy.hard_calls
    Reports,        \* usage a provider may report: tokens, Negative or Unreported
    InitialWorkers, \* SchedulerConfig.initial_workers
    MaximumWorkers, \* SchedulerConfig.maximum_workers
    MaximumRepairs, \* SchedulerConfig.maximum_repairs
    RampAfter,      \* SchedulerConfig.ramp_after_successes
    Selections,     \* bound: the selections that are prepared
    Answers,        \* bound: the answers explored, among AnswerKinds
    MaxRuns,        \* bound: runs prepared
    MaxTexts,       \* bound: corrections
    MaxEdits,       \* bound: applications and discards
    MaxEvents       \* bound: crashes, refreshes, cancellations and clock ticks

\* A report is a token count, a negative (malformed) one, or missing.
Negative == -1
Unreported == -2
Usages == {report \in Reports : report >= 0}
AnswerKinds == {"valid", "invalid", "error", "withdrawn"}

ASSUME RunAssumption ==
    /\ Selections \subseteq (SUBSET Scopes) \ {{}}
    /\ Parts \in [Scopes -> Nat \ {0}]
    /\ Ceiling \in Nat \ {0}
    /\ HardTokens \in Nat
    /\ HardCalls \in Nat
    /\ Reports \subseteq Nat \cup {Negative, Unreported}
    /\ Answers \subseteq AnswerKinds
    /\ InitialWorkers \in 1..MaximumWorkers
    /\ MaximumWorkers \in Nat
    /\ MaximumRepairs \in Nat \ {0}
    /\ RampAfter \in Nat \ {0}

VARIABLES
    authority,  \* the hash of the stored route map
    slot,       \* the background task of the web process
    prepared,   \* the prepared run whose consent is not consumed
    run,        \* the coordinator
    wk,         \* the worker of each scope
    ledger,     \* _UsageLedger: calls, charged; known, blind and overrun are history:
                \* tokens reported, attempts without usable report, tokens over the ceiling
    ordinal,    \* _next_attempt of the sink
    cancelled,  \* the cancel event of the task
    clock,      \* elapsed time (and reported tokens) against the budgets
    editing,    \* a correction stored and not yet assembled
    warm,       \* history: identities cached when the run registered
    late,       \* history: per scope, requests sent after the cancellation
    staged,     \* the copy of the project that a refresh works on
    spent       \* runs, corrections, edits and events so far

runVars == <<authority, slot, prepared, run, wk, ledger, ordinal, cancelled, clock,
             editing, warm, late, staged, spent>>
vars == <<storeVars, runVars>>

-----------------------------------------------------------------------------
NoRun == [gen |-> NoGeneration, sel |-> {}]
Resting == [pc |-> "idle", gen |-> NoGeneration, sel |-> {}, pending |-> {}, ready |-> {},
            outcome |-> <<>>, desired |-> InitialWorkers, streak |-> 0, stop |-> "none"]
Off == [pc |-> "off", part |-> 1, attempt |-> 1, reply |-> "none"]
\* A copy of the store, analysed anew: the route map is of generation g.
TechnicalInputs(g) == [s \in Scopes |-> Technical(g, s)]
Refreshed(g) ==
    [authority |-> g, rows |-> RegisteredRows(g, Scopes, TechnicalInputs(g)),
     attempts |-> KeptAttempts(Scopes), correction |-> KeptCorrections(Scopes),
     cache |-> cache, assemblies |-> Supersede(Outdated(g))]
NoCopy == [authority |-> NoGeneration]
NoLedger == [calls |-> 0, charged |-> 0, known |-> 0, blind |-> 0, overrun |-> 0]

IdentityOf(s) == Identity[run.gen][s]
At(pc) == run.pc = pc
Goto(pc) == run' = [run EXCEPT !.pc = pc]
InFlight == {s \in Scopes : wk[s].pc # "off"}
Done == {s \in InFlight : wk[s].pc = "done"}
Completed == DOMAIN run.outcome
Completing(s, status) == [x \in Completed \cup {s} |-> IF x = s THEN status ELSE run.outcome[x]]

\* A refused transition raises out of the scheduler; the executor still waits for its futures.
Failing == Goto("failing")

Coordinator == UNCHANGED <<authority, slot, prepared, wk, ledger, ordinal, cancelled, clock,
                           editing, warm, late, staged, spent>>
OnlyRun == Coordinator /\ UNCHANGED storeVars
KeepsAssemblies == UNCHANGED <<attempts, correction, assemblies>>

-----------------------------------------------------------------------------
(* Preparation, consent and the start of the task. *)

Command(counter, limit) ==
    /\ spent[counter] < limit
    /\ spent' = [spent EXCEPT ![counter] = @ + 1]

\* prepare: replaces whatever was prepared.
Prepare(sel) ==
    /\ Command("runs", MaxRuns)
    /\ prepared' = [gen |-> authority, sel |-> sel]
    /\ UNCHANGED <<storeVars, authority, slot, run, wk, ledger, ordinal, cancelled, clock,
                   editing, warm, late, staged>>

\* authorize_start consumes the consent, then validates it; _start refuses a busy slot.
Start ==
    /\ prepared # NoRun
    /\ prepared' = NoRun
    /\ IF prepared.gen = authority /\ slot = "free"
       THEN /\ slot' = "organization"
            /\ run' = [Resting EXCEPT !.pc = "validate", !.gen = prepared.gen,
                                      !.sel = prepared.sel]
       ELSE UNCHANGED <<slot, run>>
    /\ UNCHANGED <<storeVars, authority, wk, ledger, ordinal, cancelled, clock, editing, warm,
                   late, staged, spent>>

\* run_prepared validates the authority again in the background.
Validate ==
    /\ At("validate")
    /\ Goto(IF authority = run.gen THEN "register" ELSE "failing")
    /\ OnlyRun

\* PersistentCheckpointSink.__init__: register_scopes and the attempt floors.
Register ==
    /\ At("register")
    /\ RegisterScopes(run.gen, run.sel, Identity[run.gen])
    /\ ordinal' = [s \in Scopes |-> NextOrdinal(s)']
    /\ warm' = cache
    /\ Goto("replay")
    /\ UNCHANGED <<cache, authority, slot, prepared, wk, ledger, cancelled, clock, editing,
                   late, staged, spent>>

-----------------------------------------------------------------------------
(* The scheduler: replay of validated and cached scopes. *)

Unseen == run.sel \ (Completed \cup run.pending)
\* Faulty: a scope is sent although its identity is cached.
ReplayUncached ==
    /\ At("replay")
    /\ Unseen # {}
    /\ LET s == Min(Unseen)
       IN  IF rows[s].status = "validated"
           THEN run' = [run EXCEPT !.outcome = Completing(s, "validated")]
           ELSE run' = [run EXCEPT !.pending = @ \cup {s}]
    /\ OnlyRun

\* A validated checkpoint of the identity is complete; other scopes wait, unless cached.
Replay ==
    /\ At("replay")
    /\ Unseen # {}
    /\ LET s == Min(Unseen)
           saved == rows[s].status = "validated" /\ rows[s].input = IdentityOf(s)
       IN  /\ saved \/ IdentityOf(s) \notin cache
           /\ run' = IF saved THEN [run EXCEPT !.outcome = Completing(s, "validated")]
                     ELSE [run EXCEPT !.pending = @ \cup {s}]
    /\ OnlyRun

\* A cached result: first the event (status cached), then the commit.
ReplayCached ==
    /\ At("replay")
    /\ Unseen # {}
    /\ LET s == Min(Unseen)
       IN  /\ IdentityOf(s) \in cache
           /\ ~(rows[s].status = "validated" /\ rows[s].input = IdentityOf(s))
           /\ IF Publishable(s, "cached")
              THEN Publish(s, "cached", "none") /\ Goto("served")
              ELSE Failing /\ UNCHANGED rows
    /\ KeepsAssemblies /\ UNCHANGED cache
    /\ Coordinator

ServeCached ==
    /\ At("served")
    /\ LET s == Min(Unseen)
       IN  IF Publishable(s, "validated")
           THEN /\ Publish(s, "validated", IdentityOf(s))
                /\ run' = [run EXCEPT !.pc = "replay", !.outcome = Completing(s, "validated")]
           ELSE Failing /\ UNCHANGED rows
    /\ KeepsAssemblies /\ UNCHANGED cache
    /\ Coordinator

ReplayEnds == At("replay") /\ Unseen = {} /\ Goto("check") /\ OnlyRun

-----------------------------------------------------------------------------
(* The loop: stop reason, launches, completed futures. *)

HardTime == clock = "hard"
Withdrawn == cancelled \/ HardTime

StopReason(heed) ==
    IF heed /\ cancelled THEN "cancelled"
    ELSE IF HardTime \/ ledger.charged >= HardTokens \/ ledger.calls >= HardCalls THEN "hard"
    ELSE IF clock = "soft" THEN "soft" ELSE "none"

\* The loop ends when nothing is pending or in flight, or it was stopped and nothing is in flight.
Check ==
    /\ At("check")
    /\ run' = IF run.pending \cup InFlight = {} THEN [run EXCEPT !.pc = "final"]
              ELSE [run EXCEPT !.pc = "launch", !.stop = StopReason(TRUE)]
    /\ OnlyRun

CanLaunch == run.pending # {} /\ Cardinality(InFlight) < run.desired /\ run.stop = "none"
CanStart ==
    /\ ledger.calls + Cardinality(InFlight) < HardCalls
    /\ ledger.charged < HardTokens

Launch ==
    /\ At("launch") /\ CanLaunch /\ CanStart
    /\ LET s == Min(run.pending)
       IN  IF Publishable(s, "in_flight")
           THEN /\ Publish(s, "in_flight", "none")
                /\ run' = [run EXCEPT !.pending = @ \ {s}]
                /\ wk' = [wk EXCEPT ![s] = [Off EXCEPT !.pc = "enter"]]
           ELSE Failing /\ UNCHANGED <<rows, wk>>
    /\ KeepsAssemblies /\ UNCHANGED cache
    /\ UNCHANGED <<authority, slot, prepared, ledger, ordinal, cancelled, clock, editing,
                   warm, late, staged, spent>>

LaunchEnds ==
    /\ At("launch")
    /\ \/ CanLaunch /\ ~CanStart /\ run' = [run EXCEPT !.pc = "wait", !.stop = "hard"]
       \/ ~CanLaunch /\ Goto("wait")
    /\ OnlyRun

\* wait() returns the futures done by then; with none in flight a stopped loop ends.
Wait ==
    /\ At("wait")
    /\ \/ InFlight = {} /\ Goto(IF run.stop # "none" THEN "final" ELSE "check")
       \/ Done # {} /\ run' = [run EXCEPT !.pc = "collect", !.ready = Done]
       \/ InFlight # {} /\ Done = {} /\ Goto("check")
    /\ OnlyRun

\* What a raised call becomes.
FailureOutcome(s) ==
    IF wk[s].reply = "withdrawn" /\ (cancelled \/ StopReason(FALSE) = "none")
    THEN "cancelled" ELSE "fallback"

\* The pool keeps one worker.
Slower(n) == Max({1, n})

\* A failed scope is in flight: its event needs no bridge.
CollectFailure(s) ==
    /\ At("collect") /\ s \in run.ready /\ wk[s].reply # "ok"
    /\ LET status == FailureOutcome(s)
       IN  IF Publishable(s, status)
           THEN /\ Publish(s, status, "technical")
                /\ run' = [run EXCEPT !.ready = @ \ {s}, !.streak = 0,
                                      !.desired = Slower(@ \div 2),
                                      !.outcome = Completing(s, status)]
           ELSE Failing /\ UNCHANGED rows
    /\ wk' = [wk EXCEPT ![s] = Off]
    /\ KeepsAssemblies /\ UNCHANGED cache
    /\ UNCHANGED <<authority, slot, prepared, ledger, ordinal, cancelled, clock, editing,
                   warm, late, staged, spent>>

\* Faulty: the result is not cached before it is committed.
CollectUncached(s) ==
    /\ At("collect") /\ s \in run.ready /\ wk[s].reply = "ok"
    /\ Goto("commit")
    /\ wk' = [wk EXCEPT ![s] = [Off EXCEPT !.pc = "commit"]]
    /\ UNCHANGED storeVars
    /\ UNCHANGED <<authority, slot, prepared, ledger, ordinal, cancelled, clock, editing,
                   warm, late, staged, spent>>

\* A result is cached first ...
CollectResult(s) ==
    /\ At("collect") /\ s \in run.ready /\ wk[s].reply = "ok"
    /\ cache' = cache \cup {IdentityOf(s)}
    /\ Goto("commit")
    /\ wk' = [wk EXCEPT ![s] = [Off EXCEPT !.pc = "commit"]]
    /\ KeepsAssemblies /\ UNCHANGED rows
    /\ UNCHANGED <<authority, slot, prepared, ledger, ordinal, cancelled, clock, editing,
                   warm, late, staged, spent>>

\* ... then committed; the pool grows after successes and shrinks after a slow call.
Commit(s, slow) ==
    /\ At("commit") /\ wk[s].pc = "commit"
    /\ LET ramp == run.streak + 1 >= RampAfter
       IN  IF Publishable(s, "validated")
           THEN /\ Publish(s, "validated", IdentityOf(s))
                /\ run' = [run EXCEPT
                     !.pc = "collect", !.ready = @ \ {s},
                     !.outcome = Completing(s, "validated"),
                     !.streak = IF slow \/ ramp THEN 0 ELSE @ + 1,
                     !.desired = IF slow THEN Slower(@ - 1)
                                 ELSE IF ramp THEN Min({MaximumWorkers, @ + 1}) ELSE @]
           ELSE Failing /\ UNCHANGED rows
    /\ wk' = [wk EXCEPT ![s] = Off]
    /\ KeepsAssemblies /\ UNCHANGED cache
    /\ UNCHANGED <<authority, slot, prepared, ledger, ordinal, cancelled, clock, editing,
                   warm, late, staged, spent>>

CollectEnds == At("collect") /\ run.ready = {} /\ Goto("check") /\ OnlyRun

-----------------------------------------------------------------------------
(* The end: scopes never started, the assembly, the end of the task. *)

Final ==
    /\ At("final")
    /\ run' = [run EXCEPT !.pc = "drain", !.stop = StopReason(TRUE)]
    /\ OnlyRun

\* Faulty: a scope that was never started is published without the bridge.
DrainUnbridged ==
    /\ At("drain") /\ run.pending # {}
    /\ LET s == Min(run.pending)
           status == IF run.stop = "cancelled" THEN "cancelled" ELSE "fallback"
       IN  IF Publishable(s, status)
           THEN /\ Publish(s, status, IF status = "fallback" THEN "technical" ELSE "none")
                /\ run' = [run EXCEPT !.pending = @ \ {s}, !.outcome = Completing(s, status)]
           ELSE Failing /\ UNCHANGED rows
    /\ KeepsAssemblies /\ UNCHANGED cache
    /\ Coordinator

\* _WorkflowCheckpointSink.event bridges a pending row to in_flight before a fallback.
Bridge ==
    /\ At("drain") /\ run.pending # {} /\ run.stop # "cancelled"
    /\ rows[Min(run.pending)].status = "pending"
    /\ Transition(Min(run.pending), "in_flight", "none")
    /\ KeepsAssemblies /\ UNCHANGED <<cache, run>>
    /\ Coordinator

Drain ==
    /\ At("drain") /\ run.pending # {}
    /\ LET s == Min(run.pending)
           status == IF run.stop = "cancelled" THEN "cancelled" ELSE "fallback"
       IN  /\ status = "fallback" => rows[s].status # "pending"
           /\ IF Publishable(s, status)
              THEN /\ Publish(s, status, IF status = "fallback" THEN "technical" ELSE "none")
                   /\ run' = [run EXCEPT !.pending = @ \ {s}, !.outcome = Completing(s, status)]
              ELSE Failing /\ UNCHANGED rows
    /\ KeepsAssemblies /\ UNCHANGED cache
    /\ Coordinator

AssembleRun ==
    /\ At("drain") /\ run.pending = {}
    /\ IF Assemblable(run.gen) THEN Assemble(run.gen) /\ Goto("finish")
       ELSE Failing /\ UNCHANGED assemblies
    /\ UNCHANGED <<rows, attempts, correction, cache>>
    /\ Coordinator

\* What lives as long as the task.
TaskEnds ==
    /\ slot' = "free"
    /\ run' = Resting
    /\ wk' = [s \in Scopes |-> Off]
    /\ ledger' = NoLedger
    /\ ordinal' = [s \in Scopes |-> 0]
    /\ cancelled' = FALSE
    /\ clock' = "fresh"
    /\ warm' = {}
    /\ late' = [s \in Scopes |-> 0]
    /\ staged' = NoCopy

\* The task ends; after an exception the executor first waits for the workers.
Finish ==
    /\ \/ At("finish")
       \/ At("failing") /\ InFlight = Done
    /\ TaskEnds
    /\ UNCHANGED <<storeVars, authority, prepared, editing, spent>>

-----------------------------------------------------------------------------
(* Workers: _call_provider and CodexOrganizationProvider.organize. *)

AtPoint(s, pc) == wk[s].pc = pc
Answer(s, reply) == wk' = [wk EXCEPT ![s] = [@ EXCEPT !.pc = "done", !.reply = reply]]
Move(s, pc) == wk' = [wk EXCEPT ![s].pc = pc]
OnlyWorker == UNCHANGED <<storeVars, authority, slot, prepared, run, ledger, ordinal, cancelled,
                          clock, editing, warm, late, staged, spent>>

\* Faulty: a permit is held for good once it is asked for.
RepairingForEver == {s \in InFlight : wk[s].attempt = 2 /\ wk[s].pc # "done"}

\* Who holds a permit of the repair semaphore.
Repairing == {s \in InFlight : /\ wk[s].attempt = 2
                               /\ wk[s].pc \in {"enter", "guard", "reserve", "sent"}}
AwaitRepair(s) ==
    /\ AtPoint(s, "repair")
    /\ \/ Cardinality(Repairing) < MaximumRepairs /\ Move(s, "enter")
       \/ Withdrawn /\ Answer(s, "withdrawn")
    /\ OnlyWorker

\* Faulty: cancellation is not looked at before the transmission.
EnterBlindly(s) == AtPoint(s, "enter") /\ Move(s, "guard") /\ OnlyWorker

\* organize and _execute up to the gate: cancel checks, then a process that may not start.
Enter(s) ==
    /\ AtPoint(s, "enter")
    /\ IF Withdrawn THEN Answer(s, "withdrawn")
       ELSE Move(s, "guard") \/ Answer(s, "error")
    /\ OnlyWorker

\* _guard_provider_transmission: the authority is read again before every attempt.
Guard(s) ==
    /\ AtPoint(s, "guard")
    /\ IF authority = run.gen THEN Move(s, "reserve") ELSE Answer(s, "error")
    /\ OnlyWorker

\* Faulty: looks only at what is charged so far.
AdmittedOnCharge == ledger.calls < HardCalls /\ ledger.charged < HardTokens

\* _UsageLedger.reserve.
Admitted ==
    /\ ~HardTime
    /\ ledger.calls < HardCalls
    /\ ledger.charged + Ceiling <= HardTokens

Reserve(s) ==
    /\ AtPoint(s, "reserve")
    /\ IF Admitted
       THEN /\ ledger' = [ledger EXCEPT !.calls = @ + 1, !.charged = @ + Ceiling]
            /\ Move(s, "sent")
            /\ late' = [late EXCEPT ![s] = IF cancelled THEN @ + 1 ELSE @]
       ELSE Answer(s, "withdrawn") /\ UNCHANGED <<ledger, late>>
    /\ UNCHANGED <<storeVars, authority, slot, prepared, run, ordinal, cancelled, clock, editing,
                   warm, staged, spent>>

\* Faulty: a malformed report releases the reservation.
ChargeMalformedNothing(report) == IF report \in Usages THEN report ELSE 0

\* The tokens charged for a report; a malformed or partial one keeps the reservation.
Charge(report) == IF report \in Usages THEN report ELSE Ceiling

Settle(report) ==
    ledger' = [ledger EXCEPT
        !.charged = @ + Charge(report) - Ceiling,
        !.known = IF report \in Usages THEN @ + report ELSE @,
        !.blind = IF report \in Usages THEN @ ELSE @ + 1,
        !.overrun = IF Charge(report) > Ceiling THEN @ + Charge(report) - Ceiling ELSE @]

\* Where the worker goes after an attempt whose usage was accepted.
AfterAttempt(s, answer) ==
    CASE answer = "valid" /\ wk[s].part < Parts[s] ->
             wk' = [wk EXCEPT ![s] = [pc |-> "enter", part |-> wk[s].part + 1,
                                      attempt |-> 1, reply |-> "none"]]
      [] answer = "valid" /\ wk[s].part = Parts[s] -> Answer(s, "ok")
      [] answer = "invalid" /\ wk[s].attempt = 1 ->
             wk' = [wk EXCEPT ![s] = [pc |-> "repair", part |-> wk[s].part,
                                      attempt |-> 2, reply |-> "none"]]
      [] answer = "withdrawn" -> Answer(s, "withdrawn")
      [] OTHER -> Answer(s, "error")

\* The answer (or its failure) and observe, in the finally clause: the ledger corrects the
\* reservation, the attempt is recorded, and a report that is malformed, over the ceiling or
\* refused by the table turns the answer into an error.
Respond(s, answer, report) ==
    /\ AtPoint(s, "sent")
    /\ answer = "withdrawn" => Withdrawn
    /\ Settle(report)
    /\ IF report = Negative
       THEN /\ UNCHANGED <<rows, attempts, ordinal>>
            /\ Answer(s, "error")
       ELSE /\ RecordAttempt(s, ordinal[s])
            /\ ordinal' = [ordinal EXCEPT ![s] = @ + 1]
            /\ IF AttemptAccepted(s, ordinal[s]) /\ Charge(report) <= Ceiling
               THEN AfterAttempt(s, answer) ELSE Answer(s, "error")
    /\ UNCHANGED <<correction, cache, assemblies, authority, slot, prepared, run, cancelled,
                   clock, editing, warm, late, staged, spent>>

-----------------------------------------------------------------------------
(* The reviewer, refreshes, the clock and the process. *)

Reviewer == UNCHANGED <<authority, slot, prepared, run, wk, ledger, ordinal, cancelled, clock,
                        warm, late, staged>>

\* set_override stores the correction, then assembles.
Correct(s, text) ==
    /\ Command("texts", MaxTexts)
    /\ editing = NoGeneration
    /\ Exists(s) /\ rows[s].gen = authority
    /\ SetCorrection(s, authority, text)
    /\ editing' = authority
    /\ UNCHANGED <<rows, attempts, cache, assemblies>>
    /\ Reviewer

AssembleCorrection ==
    /\ editing # NoGeneration
    /\ editing' = NoGeneration
    /\ IF Assemblable(editing) THEN Assemble(editing) ELSE UNCHANGED assemblies
    /\ UNCHANGED <<rows, attempts, correction, cache, spent>>
    /\ Reviewer

Apply(a) ==
    /\ Command("edits", MaxEdits)
    /\ Readable(a, authority)
    /\ ApplyAssembly(a, authority)
    /\ UNCHANGED <<rows, attempts, correction, cache, editing>>
    /\ Reviewer

Discard(a) ==
    /\ Command("edits", MaxEdits)
    /\ a.payload.gen = authority /\ a.status = Draft
    /\ DiscardAssembly(a)
    /\ UNCHANGED <<rows, attempts, correction, cache, editing>>
    /\ Reviewer

Cancel ==
    /\ slot = "organization" /\ ~cancelled
    /\ Command("events", MaxEvents)
    /\ cancelled' = TRUE
    /\ UNCHANGED <<storeVars, authority, slot, prepared, run, wk, ledger, ordinal, clock,
                   editing, warm, late, staged>>

\* A refresh in the slot backs the project up and analyses the copy ...
RefreshCopies(g) ==
    /\ slot = "free"
    /\ Command("events", MaxEvents)
    /\ slot' = "refresh"
    /\ staged' = Refreshed(g)
    /\ UNCHANGED <<storeVars, authority, prepared, run, wk, ledger, ordinal, cancelled, clock,
                   editing, warm, late>>

\* ... which replaces the project, with all that was written to it since; a correction that is
\* not yet assembled is assembled in the file that was replaced ...
RefreshReplaces ==
    /\ slot = "refresh"
    /\ slot' = "free"
    /\ rows' = staged.rows /\ attempts' = staged.attempts /\ correction' = staged.correction
    /\ cache' = staged.cache /\ assemblies' = staged.assemblies
    /\ authority' = staged.authority
    /\ editing' = NoGeneration
    /\ staged' = NoCopy
    /\ UNCHANGED <<prepared, run, wk, ledger, ordinal, cancelled, clock, warm, late, spent>>

\* ... unless it was cancelled, failed, or found nothing to do.
RefreshGivesUp ==
    /\ slot = "refresh"
    /\ slot' = "free"
    /\ staged' = NoCopy
    /\ UNCHANGED <<storeVars, authority, prepared, run, wk, ledger, ordinal, cancelled, clock,
                   editing, warm, late, spent>>

Tick ==
    /\ slot = "organization" /\ clock # "hard"
    /\ Command("events", MaxEvents)
    /\ clock' = IF clock = "fresh" THEN "soft" ELSE "hard"
    /\ UNCHANGED <<storeVars, authority, slot, prepared, run, wk, ledger, ordinal, cancelled,
                   editing, warm, late, staged>>

\* The process ends: everything but the database and the route map is lost.
Crash ==
    /\ Command("events", MaxEvents)
    /\ TaskEnds
    /\ prepared' = NoRun
    /\ editing' = NoGeneration
    /\ UNCHANGED <<storeVars, authority>>

-----------------------------------------------------------------------------
Init ==
    /\ StoreInit
    /\ authority \in Generations
    /\ slot = "free"
    /\ prepared = NoRun
    /\ run = Resting
    /\ wk = [s \in Scopes |-> Off]
    /\ ledger = NoLedger
    /\ ordinal = [s \in Scopes |-> 0]
    /\ cancelled = FALSE
    /\ clock = "fresh"
    /\ editing = NoGeneration
    /\ warm = {}
    /\ late = [s \in Scopes |-> 0]
    /\ staged = NoCopy
    /\ spent = [runs |-> 0, texts |-> 0, edits |-> 0, events |-> 0]

CoordinatorStep ==
    \/ Validate
    \/ Register
    \/ Replay
    \/ ReplayCached
    \/ ServeCached
    \/ ReplayEnds
    \/ Check
    \/ Launch
    \/ LaunchEnds
    \/ Wait
    \/ \E s \in Scopes : CollectFailure(s)
    \/ \E s \in Scopes : CollectResult(s)
    \/ \E s \in Scopes, slow \in BOOLEAN : Commit(s, slow)
    \/ CollectEnds
    \/ Final
    \/ Bridge
    \/ Drain
    \/ AssembleRun
    \/ Finish

WorkerStep(s) ==
    \/ AwaitRepair(s)
    \/ Enter(s)
    \/ Guard(s)
    \/ Reserve(s)
    \/ \E answer \in Answers, report \in Reports : Respond(s, answer, report)

UserStep ==
    \/ \E sel \in Selections : Prepare(sel)
    \/ Start
    \/ Cancel
    \/ \E s \in Scopes, text \in Texts : Correct(s, text)
    \/ AssembleCorrection
    \/ \E a \in assemblies : Apply(a) \/ Discard(a)

WorldStep ==
    \/ \E g \in Generations : RefreshCopies(g)
    \/ RefreshReplaces
    \/ RefreshGivesUp
    \/ Tick
    \/ Crash

Next == CoordinatorStep \/ (\E s \in Scopes : WorkerStep(s)) \/ UserStep \/ WorldStep
Spec == Init /\ [][Next]_vars

\* Threads run and provider calls return (they have a timeout); nothing is assumed of the
\* user, of other processes, of the clock and of crashes.
Fairness == WF_vars(CoordinatorStep) /\ \A s \in Scopes : WF_vars(WorkerStep(s))
FairSpec == Spec /\ Fairness

-----------------------------------------------------------------------------
(* Properties. *)

Open == {s \in Scopes : wk[s].pc = "sent"}

\* The hard budget is never exceeded, except by what a provider used beyond its ceiling,
\* whatever the threads do between two looks at the ledger (_UsageLedger).
BudgetHeld ==
    /\ ledger.calls <= HardCalls
    /\ ledger.charged <= HardTokens + ledger.overrun

\* The charge is what was reported plus the full ceiling of every call that is open or whose
\* report cannot be used: malformed accounting never replenishes the budget (record).
ChargesAddUp ==
    slot = "organization" /\ run.pc \notin {"validate", "register", "failing"} =>
        ledger.charged = ledger.known + Ceiling * (Cardinality(Open) + ledger.blind)

\* After the user cancelled, a scope sends at most the one request that had passed its last
\* check: no repair, no further part (organize, _guard_provider_transmission).
LateAtMostOnce == \A s \in Scopes : late[s] <= 1

\* A scope whose identity was cached when the run registered is not sent (run).
CachedIsNotSent == \A s \in InFlight : IdentityOf(s) \notin warm

\* The answer of a validated row is in the cache, so that a row that is reset later is
\* served again without a call (cache before commit).
ValidatedIsCached == \A s \in Scopes : rows[s].status = "validated" => rows[s].result \in cache

\* The state machine of a row refuses nothing the scheduler asks for (the bridge of
\* _WorkflowCheckpointSink), what the scheduler counts as completed is what the database says,
\* and a run that assembled has completed every selected scope.
CompletedIsDurable ==
    /\ ~At("failing")
    /\ \A s \in Completed : rows[s].status = run.outcome[s]
    /\ At("finish") => Completed = run.sel

\* At most one assembly of a generation is applied (apply).
OneApplied ==
    \A a, b \in assemblies :
        a.status = "applied" /\ b.status = "applied" /\ a.payload.gen = b.payload.gen => a = b

\* Drafts and applied assemblies are of the generation whose scopes are registered, also when
\* the map changes and changes back (register_scopes).
LiveIsCurrent ==
    \A a \in assemblies : Live(a) => \A s \in Scopes : Exists(s) => rows[s].gen = a.payload.gen

\* What is applied is one assembly, and one of the present map (apply, register_scopes).
AssembliesAreCurrent == OneApplied /\ LiveIsCurrent

\* A run ends, whatever is cancelled, refused, late or over budget, and so does a run
\* whose transition was refused.
RunEnds == slot = "organization" ~> slot = "free"

\* A refresh loses no correction: those made while it goes on survive it (refresh_input_project).
\* Not so in the code.
CorrectionsSurvive ==
    [][\A s \in Scopes : slot = "refresh" /\ correction[s] # NoCorrection =>
                             correction'[s] # NoCorrection]_vars

\* m07_model.py: "without discarding reusable validation".
ValidationIsKept ==
    [][\A s \in Scopes : rows[s].status = "validated" /\ authority' = authority =>
                             rows'[s].status = "validated"]_vars
=============================================================================
