----------------------- MODULE StoryMapWorkflow_proofs -----------------------
(***************************************************************************)
(* Proofs about the Story Map V2 workflow: its threads, recoveries and     *)
(* commands as clients of the durable repository.                          *)
(*                                                                         *)
(* First that the service keeps its types (ServiceTypeOK) and that each of *)
(* its steps is at most one transaction of RepoSpec: what is proved of the *)
(* repository holds of the workflow, its refinement of CallLedger          *)
(* included.  Then what the tables cannot say, because it is about         *)
(* requests that leave the process: SentInv relates the history of         *)
(* requests, the attempts and the program counters of all the workers, and *)
(* every step keeps it, those of a worker whose lease is gone and of a     *)
(* recovery beside live workers included.  Then that an execution leaves   *)
(* no claim behind (NoClaimLeft): while nothing goes wrong outside the     *)
(* program, every claim has a worker at work on it (ClaimsHeld).  Then     *)
(* that nothing is refused where nobody disturbs (NothingRefused): at each *)
(* point of a worker's way through its job the tables allow the next call  *)
(* (OnTheWay), and the other jobs of the run are untouched, published or   *)
(* in the hands of another worker (CalmRun).  Last that, whatever goes     *)
(* wrong, a derived job is registered only after the jobs it summarizes    *)
(* have published, and that what they published stays (OrderInv).          *)
(***************************************************************************)
EXTENDS StoryMapWorkflow, StoryMapLedger_proofs

-----------------------------------------------------------------------------
(* Types.  What a worker remembers has the shape its next call asks for.        *)

WorkerRow == [pc : Point, job : Jobs \cup {NoJob}, kind : Kinds, reply : Reply,
              key : Keys \cup {NoKey}, cached : BOOLEAN, end : Resolution \cup {"none"},
              quit : BOOLEAN, attempt : Nat]

\* Outside these points a worker has a job of its run.
Free == {"off", "poll", "claim"}

Prepared(w, row) ==
    /\ row \in WorkerRow
    /\ row.pc \notin Free => row.job \in JobsOf(WorkerRun[w])
    /\ row.pc = "complete" => row.reply # "none"
    /\ row.pc \in {"record", "continue", "store"} => row.reply \in Results /\ row.key \in Keys
    /\ row.pc = "finish" => row.end \in Resolution

WorkersOK ==
    /\ worker \in [Tokens -> WorkerRow]
    /\ \A w \in Tokens : Prepared(w, worker[w])

PoolsOK ==
    /\ pool \in [Runs -> Pool]
    /\ abort \in [Runs -> BOOLEAN]
    /\ recovery \in [Runs -> [phase : Phase, chore : [Jobs -> Chore]]]
    /\ sent \in [Jobs -> SUBSET Nat]
    /\ faults \in Nat

ServiceTypeOK == WorkersOK /\ PoolsOK

\* A step that moves one worker to a prepared row leaves the workers typed.
LEMMA OneWorkerMoves ==
    ASSUME WorkersOK, NEW w \in Tokens, NEW row, Prepared(w, row),
           worker' = [worker EXCEPT ![w] = row]
    PROVE  WorkersOK'
BY DEF WorkersOK, Prepared

\* An idle worker, and one that starts its loop, remembers nothing.
LEMMA IdleIsPrepared ==
    ASSUME NEW w \in Tokens
    PROVE  Prepared(w, Idle) /\ Prepared(w, [Idle EXCEPT !.pc = "poll"])
BY DEF Prepared, Idle, WorkerRow, Point, NoJob, Kinds, PrimaryKinds, Reply, Free

\* What a worker keeps when it only moves on.
LEMMA MovesOn ==
    ASSUME WorkersOK, NEW w \in Tokens, NEW pc \in Point, worker[w].pc \notin Free,
           pc \notin {"complete", "record", "continue", "store", "finish"}
    PROVE  Prepared(w, [worker[w] EXCEPT !.pc = pc])
BY DEF WorkersOK, Prepared, WorkerRow, Free

\* A worker that has its job may go on to finalize it.
LEMMA Finishes ==
    ASSUME WorkersOK, NEW w \in Tokens, worker[w].pc \notin Free, NEW res \in Resolution,
           Finish(w, res)
    PROVE  WorkersOK'
<1>1. Prepared(w, [worker[w] EXCEPT !.pc = "finish", !.end = res])
    BY DEF WorkersOK, Prepared, WorkerRow, Free, Point
<1>2. worker' = [worker EXCEPT ![w] = [worker[w] EXCEPT !.pc = "finish", !.end = res]]
    BY DEF Finish
<1> QED
    BY <1>1, <1>2, OneWorkerMoves

\* A worker that has its job may go on to any point that needs nothing more.
LEMMA Goes ==
    ASSUME WorkersOK, NEW w \in Tokens, worker[w].pc \notin Free, NEW pc \in Point,
           pc \notin {"complete", "record", "continue", "store", "finish"}, Goto(w, pc)
    PROVE  WorkersOK'
<1>1. worker' = [worker EXCEPT ![w] = [worker[w] EXCEPT !.pc = pc]]
    BY DEF Goto
<1> QED
    BY <1>1, MovesOn, OneWorkerMoves

\* A worker whose call the repository refuses gives up its job, typed as before.
LEMMA Quits ==
    ASSUME ServiceTypeOK, NEW w \in Tokens, worker[w].pc \notin Free, Refused(w)
    PROVE  ServiceTypeOK'
<1>1. Prepared(w, [worker[w] EXCEPT !.pc = "release", !.quit = TRUE])
    BY DEF ServiceTypeOK, WorkersOK, Prepared, WorkerRow, Free, Point
<1>2. worker' = [worker EXCEPT ![w] = [worker[w] EXCEPT !.pc = "release", !.quit = TRUE]]
    BY DEF Refused, Raise
<1>3. WorkersOK'
    BY <1>1, <1>2, OneWorkerMoves DEF ServiceTypeOK
<1>4. WorkerRun[w] \in Runs
    BY WorkflowAssumption
<1>5. pool' \in [Runs -> Pool] /\ abort' \in [Runs -> BOOLEAN]
    BY <1>4 DEF Refused, Raise, Failing, ServiceTypeOK, PoolsOK, Pool
<1> QED
    BY <1>3, <1>5 DEF ServiceTypeOK, PoolsOK, Refused

\* Where the service's other state does not move, only the worker's row is to be typed.
LEMMA OthersTyped ==
    ASSUME ServiceTypeOK, WorkersOK', UNCHANGED <<pool, abort, recovery, sent>>, faults' \in Nat
    PROVE  ServiceTypeOK'
BY DEF ServiceTypeOK, PoolsOK

\* One prepared row, and nothing else of the service but a count of faults.
LEMMA OneRowIsTyped ==
    ASSUME ServiceTypeOK, NEW w \in Tokens, NEW row, Prepared(w, row),
           worker' = [worker EXCEPT ![w] = row],
           UNCHANGED <<pool, abort, recovery, sent>>, faults' \in Nat
    PROVE  ServiceTypeOK'
BY OneWorkerMoves, OthersTyped DEF ServiceTypeOK

\* The kind a claim resumes with, and the identity a lookup asks for.
LEMMA ClaimedTyped ==
    ASSUME RepoTypeOK, NEW w \in Tokens, NEW j \in JobsOf(WorkerRun[w])
    PROVE  Prepared(w, [Idle EXCEPT !.pc = "held", !.job = j, !.kind = ResumeKind(j)])
<1>1. j \in Jobs /\ ResumeKind(j) \in Kinds
    BY WorkflowAssumption DEF JobsOf, ResumeKind, Kinds, PrimaryKinds, ContinuationKinds
<1> QED
    BY <1>1 DEF Prepared, Idle, WorkerRow, Point, Reply, Free, JobsOf

\* The identity a lookup asks for is one of the cache.
LEMMA LookupTyped ==
    ASSUME NEW j \in Jobs
    PROVE  LookupKey(j) \in Keys
BY RepositoryAssumption, WorkflowAssumption DEF LookupKey

\* A claim is of a job of the run it was made for.
LEMMA ClaimsOwnRun ==
    ASSUME NEW w, NEW r, NEW cached, NEW j \in Jobs, ClaimNextJob(w, r, cached, j)
    PROVE  j \in JobsOf(r)
BY DEF ClaimNextJob, First, Continuable, Startable, JobsOf

\* The steps from the loop of a worker to the reservation of a call.
LEMMA EarlyStepsTyped ==
    ASSUME ServiceTypeOK, RepoTypeOK, NEW w \in Tokens,
           Poll(w) \/ Claim(w) \/ Held(w) \/ Release(w) \/ Lookup(w) \/ Reserve(w)
    PROVE  ServiceTypeOK'
<1>0. /\ WorkersOK /\ Prepared(w, worker[w]) /\ worker[w] \in WorkerRow /\ faults \in Nat
      /\ worker[w].pc \notin Free => JobAt(w) \in Jobs
    BY DEF ServiceTypeOK, WorkersOK, PoolsOK, Prepared, JobAt, JobsOf
<1>1. CASE Poll(w)
    <2>1. CASE worker' = [worker EXCEPT ![w] = Idle]
        BY <1>1, <2>1, IdleIsPrepared, OneRowIsTyped, <1>0 DEF Poll, OnlyWorker
    <2>2. CASE Goto(w, "claim")
        <3>1. Prepared(w, [worker[w] EXCEPT !.pc = "claim"])
            BY <1>0 DEF Prepared, WorkerRow, Free, Point
        <3>2. worker' = [worker EXCEPT ![w] = [worker[w] EXCEPT !.pc = "claim"]]
            BY <2>2 DEF Goto
        <3> QED
            BY <1>1, <3>1, <3>2, OneRowIsTyped, <1>0 DEF Poll, OnlyWorker
    <2> QED
        BY <1>1, <2>1, <2>2 DEF Poll
<1>2. CASE Claim(w)
    <2>1. ASSUME NEW j \in Jobs, ClaimNextJob(w, WorkerRun[w], FALSE, j),
                 worker' = [worker EXCEPT ![w] = [Idle EXCEPT !.pc = "held", !.job = j,
                                                              !.kind = ResumeKind(j)]]
          PROVE  ServiceTypeOK'
        BY <1>0, <1>2, <2>1, ClaimsOwnRun, ClaimedTyped, OneRowIsTyped DEF Claim, Service
    <2>2. CASE worker' = [worker EXCEPT ![w] = Idle]
        BY <1>0, <1>2, <2>2, IdleIsPrepared, OneRowIsTyped DEF Claim, Service
    <2> QED
        BY <1>2, <2>1, <2>2 DEF Claim
<1>3. CASE Held(w)
    <2>0. worker[w].pc \notin Free
        BY <1>3 DEF Held, AtPoint, Free
    <2>1. ASSUME worker' = [worker EXCEPT ![w].pc = "release", ![w].quit = TRUE]
          PROVE  WorkersOK'
        <3>1. Prepared(w, [worker[w] EXCEPT !.pc = "release", !.quit = TRUE])
            BY <1>0, <2>0 DEF Prepared, WorkerRow, Free, Point
        <3> QED
            BY <1>0, <2>1, <3>1, OneWorkerMoves
    <2>2. "cancelled" \in Resolution /\ "lookup" \in Point
        BY DEF Resolution, Point
    <2>3. WorkersOK'
        BY <1>0, <1>3, <2>0, <2>1, <2>2, Finishes, Goes DEF Held
    <2> QED
        BY <1>0, <1>3, <2>3, OthersTyped DEF Held, OnlyWorker
<1>4. CASE Release(w)
    <2>1. Prepared(w, IF worker[w].quit THEN Idle ELSE [Idle EXCEPT !.pc = "poll"])
        BY IdleIsPrepared
    <2>2. \/ worker' = [worker EXCEPT ![w] = IF worker[w].quit THEN Idle
                                             ELSE [Idle EXCEPT !.pc = "poll"]]
          \/ worker' = [worker EXCEPT ![w] = Idle]
        BY <1>4 DEF Release
    <2>3. WorkersOK'
        BY <1>0, <2>1, <2>2, IdleIsPrepared, OneWorkerMoves
    <2>4. WorkerRun[w] \in Runs
        BY WorkflowAssumption
    <2>5. pool' \in [Runs -> Pool]
        BY <1>4, <2>4 DEF Release, Service, OnlyWorker, Failing, ServiceTypeOK, PoolsOK, Pool
    <2>6. UNCHANGED <<abort, recovery, sent, faults>>
        BY <1>4 DEF Release, Service, OnlyWorker
    <2> QED
        BY <2>3, <2>5, <2>6 DEF ServiceTypeOK, PoolsOK
<1>5. CASE Lookup(w)
    <2>0. worker[w].pc \notin Free
        BY <1>5 DEF Lookup, AtPoint, Free
    <2>1. "structural" \in Resolution /\ "reserve" \in Point
        BY DEF Resolution, Point
    <2>2. ASSUME NEW k \in Keys, cache[k] # NoResult, UseCached(w, k)
          PROVE  WorkersOK'
        <3>1. cache[k] \in Results
            BY <2>2 DEF RepoTypeOK
        <3>2. Prepared(w, [worker[w] EXCEPT !.pc = "record", !.cached = TRUE, !.key = k,
                                            !.reply = cache[k]])
            BY <1>0, <2>0, <3>1 DEF Prepared, WorkerRow, Free, Point, Reply, SentReply,
                  ResultReply
        <3>3. CASE Finish(w, "structural")
            BY <1>0, <2>0, <2>1, <3>3, Finishes
        <3>4. CASE ~Finish(w, "structural")
            <4>1. worker' = [worker EXCEPT ![w] = [worker[w] EXCEPT !.pc = "record",
                                !.cached = TRUE, !.key = k, !.reply = cache[k]]]
                BY <2>2, <3>4 DEF UseCached
            <4> QED
                BY <1>0, <3>2, <4>1, OneWorkerMoves
        <3> QED
            BY <3>3, <3>4
    <2>3. LookupKey(JobAt(w)) \in Keys
        BY <1>0, <2>0, LookupTyped
    <2>4. \/ WorkersOK' /\ OnlyWorker
          \/ Refused(w)
        BY <1>0, <1>5, <2>0, <2>1, <2>2, <2>3, Finishes, Goes DEF Lookup
    <2> QED
        BY <1>0, <2>0, <2>4, Quits, OthersTyped DEF OnlyWorker
<1>6. CASE Reserve(w)
    <2>0. worker[w].pc \notin Free
        BY <1>6 DEF Reserve, AtPoint, Free
    <2>1. "structural" \in Resolution
        BY DEF Resolution
    <2>2. ASSUME worker' = [worker EXCEPT ![w].pc = "reserved",
                                          ![w].attempt = Ordinal(JobAt(w))]
          PROVE  WorkersOK'
        <3>1. Ordinal(JobAt(w)) \in Nat
            BY <1>0, <2>0 DEF Ordinal, RepoTypeOK
        <3>2. Prepared(w, [worker[w] EXCEPT !.pc = "reserved", !.attempt = Ordinal(JobAt(w))])
            BY <1>0, <2>0, <3>1 DEF Prepared, WorkerRow, Free, Point
        <3> QED
            BY <1>0, <2>2, <3>2, OneWorkerMoves
    <2>3. \/ WorkersOK' /\ (Service \/ OnlyWorker)
          \/ Refused(w)
        BY <1>0, <1>6, <2>0, <2>1, <2>2, Finishes DEF Reserve
    <2> QED
        BY <1>0, <2>0, <2>3, Quits, OthersTyped DEF OnlyWorker, Service
<1> QED
    BY <1>1, <1>2, <1>3, <1>4, <1>5, <1>6

\* The steps of a call.
LEMMA CallStepsTyped ==
    ASSUME ServiceTypeOK, NEW w \in Tokens,
           Prepare(w) \/ Mark(w) \/ Marked(w) \/ Submit(w) \/ Complete(w) \/ Refuse(w)
    PROVE  ServiceTypeOK'
<1>0. /\ WorkersOK /\ Prepared(w, worker[w]) /\ worker[w] \in WorkerRow /\ faults \in Nat
      /\ worker[w].pc \notin Free /\ JobAt(w) \in Jobs
    BY DEF ServiceTypeOK, WorkersOK, PoolsOK, Prepared, JobAt, JobsOf, Free, AtPoint,
          Prepare, Mark, Marked, Submit, Complete, Refuse
<1>a. ASSUME NEW reply \in Reply \ {"none"}
      PROVE  Prepared(w, [worker[w] EXCEPT !.pc = "complete", !.reply = reply])
    BY <1>0 DEF Prepared, WorkerRow, Free, Point
<1>b. {"unsent", "withdrawn"} \subseteq Reply \ {"none"}
    BY DEF Reply, UnsentReply
<1>c. ASSUME NEW pc \in {"mark", "marked", "submit", "reserve", "refuse", "release"}
      PROVE  Prepared(w, [worker[w] EXCEPT !.pc = pc])
    BY <1>0, MovesOn DEF Point
<1>1. CASE Prepare(w)
    <2>1. faults' \in Nat
        BY <1>0, <1>1 DEF Prepare
    <2>2. \/ worker' = [worker EXCEPT ![w] = [worker[w] EXCEPT !.pc = "complete", !.reply = "unsent"]]
          \/ worker' = [worker EXCEPT ![w] = [worker[w] EXCEPT !.pc = "complete", !.reply = "withdrawn"]]
          \/ worker' = [worker EXCEPT ![w] = [worker[w] EXCEPT !.pc = "mark"]]
        BY <1>1 DEF Prepare
    <2>3. WorkersOK'
        BY <1>0, <1>a, <1>b, <1>c, <2>2, OneWorkerMoves
    <2> QED
        BY <1>1, <2>1, <2>3, OthersTyped DEF Prepare
<1>2. CASE Mark(w)
    <2>1. \/ worker' = [worker EXCEPT ![w] = [worker[w] EXCEPT !.pc = "complete", !.reply = "withdrawn"]]
          \/ worker' = [worker EXCEPT ![w] = [worker[w] EXCEPT !.pc = "marked"]]
          \/ Refused(w)
        BY <1>2 DEF Mark, Goto
    <2>2. Refused(w) \/ (WorkersOK' /\ (Service \/ OnlyWorker))
        BY <1>0, <1>2, <1>a, <1>b, <1>c, <2>1, OneWorkerMoves DEF Mark
    <2> QED
        BY <1>0, <2>2, Quits, OthersTyped DEF Service, OnlyWorker
<1>3. CASE Marked(w)
    <2>1. \/ worker' = [worker EXCEPT ![w] = [worker[w] EXCEPT !.pc = "complete", !.reply = "withdrawn"]]
          \/ worker' = [worker EXCEPT ![w] = [worker[w] EXCEPT !.pc = "submit"]]
        BY <1>3 DEF Marked
    <2>2. WorkersOK'
        BY <1>0, <1>a, <1>b, <1>c, <2>1, OneWorkerMoves
    <2> QED
        BY <1>0, <1>3, <2>2, OthersTyped DEF Marked, OnlyWorker
<1>4. CASE Submit(w)
    <2>1. PICK reply \in Reply \ {"none"} :
             worker' = [worker EXCEPT ![w] = [worker[w] EXCEPT !.pc = "complete", !.reply = reply]]
        BY <1>4 DEF Submit
    <2>2. WorkersOK'
        BY <1>0, <1>a, <2>1, OneWorkerMoves
    <2>3. faults' \in Nat
        BY <1>0, <1>4 DEF Submit
    <2>4. sent' \in [Jobs -> SUBSET Nat]
        <3>1. sent \in [Jobs -> SUBSET Nat] /\ worker[w].attempt \in Nat
            BY <1>0 DEF ServiceTypeOK, PoolsOK, WorkerRow
        <3>2. \/ sent' = sent
              \/ sent' = [sent EXCEPT ![JobAt(w)] = sent[JobAt(w)] \cup {worker[w].attempt}]
            BY <1>4 DEF Submit
        <3> QED
            BY <1>0, <3>1, <3>2
    <2> QED
        BY <1>4, <2>2, <2>3, <2>4 DEF ServiceTypeOK, PoolsOK, Submit
<1>5. CASE Complete(w)
    <2>1. Resolution = {"accepted", "structural", "resumable", "indeterminate", "cancelled"}
        BY DEF Resolution
    <2>2. ASSUME AfterCall(w)
          PROVE  WorkersOK'
        <3>1. worker[w].reply # "none" /\ worker[w].reply \in Reply
            BY <1>0, <1>5 DEF Complete, AtPoint, Prepared, WorkerRow
        <3>2. ASSUME worker[w].reply \in Results,
                     worker' = [worker EXCEPT ![w].pc = "record",
                         ![w].key = IF worker[w].kind = "refusal_fallback"
                                    THEN LocalKey[JobAt(w)] ELSE CacheKey[JobAt(w)]]
              PROVE  WorkersOK'
            <4> PICK k : k = IF worker[w].kind = "refusal_fallback"
                             THEN LocalKey[JobAt(w)] ELSE CacheKey[JobAt(w)]
                OBVIOUS
            <4>1. k \in Keys
                BY <1>0, RepositoryAssumption, WorkflowAssumption
            <4>2. Prepared(w, [worker[w] EXCEPT !.pc = "record", !.key = k])
                BY <1>0, <3>2, <4>1 DEF Prepared, WorkerRow, Free, Point
            <4>3. worker' = [worker EXCEPT ![w] = [worker[w] EXCEPT !.pc = "record", !.key = k]]
                BY <3>2
            <4> QED
                BY <1>0, <4>2, <4>3, OneWorkerMoves
        <3>3. ASSUME Goto(w, "refuse") PROVE WorkersOK'
            BY <1>0, <3>3, Goes DEF Point
        <3>4. ASSUME NEW res \in Resolution, Finish(w, res) PROVE WorkersOK'
            BY <1>0, <3>4, Finishes
        <3> QED
            BY <2>1, <2>2, <3>1, <3>2, <3>3, <3>4
               DEF AfterCall, Reply, SentReply, UnsentReply, ResultReply
    <2>3. Refused(w) \/ (WorkersOK' /\ Service)
        BY <1>5, <2>2 DEF Complete
    <2> QED
        BY <1>0, <2>3, Quits, OthersTyped DEF Service
<1>6. CASE Refuse(w)
    <2>1. Prepared(w, [worker[w] EXCEPT !.pc = "reserve", !.kind = "refusal_fallback"])
        BY <1>0 DEF Prepared, WorkerRow, Free, Point, Kinds, ContinuationKinds
    <2>2. Prepared(w, [worker[w] EXCEPT !.pc = "finish", !.end = "structural"])
        BY <1>0 DEF Prepared, WorkerRow, Free, Point, Resolution
    <2>3. \/ Refused(w)
          \/ /\ Service
             /\ \/ worker' = [worker EXCEPT ![w] = [worker[w] EXCEPT !.pc = "reserve",
                                                     !.kind = "refusal_fallback"]]
                \/ worker' = [worker EXCEPT ![w] = [worker[w] EXCEPT !.pc = "finish",
                                                     !.end = "structural"]]
        BY <1>6 DEF Refuse
    <2>4. Refused(w) \/ (WorkersOK' /\ Service)
        BY <1>0, <2>1, <2>2, <2>3, OneWorkerMoves
    <2> QED
        BY <1>0, <2>4, Quits, OthersTyped DEF Service
<1> QED
    BY <1>1, <1>2, <1>3, <1>4, <1>5, <1>6

\* The steps from a result to a published one.
LEMMA LateStepsTyped ==
    ASSUME ServiceTypeOK, NEW w \in Tokens,
           Record(w) \/ Continue(w) \/ Store(w) \/ FinishJob(w) \/ Publish(w)
    PROVE  ServiceTypeOK'
<1>0. /\ WorkersOK /\ Prepared(w, worker[w]) /\ worker[w] \in WorkerRow /\ faults \in Nat
      /\ worker[w].pc \notin Free /\ JobAt(w) \in Jobs
    BY DEF ServiceTypeOK, WorkersOK, PoolsOK, Prepared, JobAt, JobsOf, Free, AtPoint,
          Record, Continue, Store, FinishJob, Publish
<1>a. ASSUME worker[w].reply \in Results, worker[w].key \in Keys,
             NEW pc \in {"continue", "store"}, Goto(w, pc)
      PROVE  WorkersOK'
    <2>1. Prepared(w, [worker[w] EXCEPT !.pc = pc])
        BY <1>0, <1>a DEF Prepared, WorkerRow, Free, Point
    <2>2. worker' = [worker EXCEPT ![w] = [worker[w] EXCEPT !.pc = pc]]
        BY <1>a DEF Goto
    <2> QED
        BY <1>0, <2>1, <2>2, OneWorkerMoves
<1>b. ASSUME NEW res \in Resolution, Finish(w, res) PROVE WorkersOK'
    BY <1>0, <1>b, Finishes
<1>c. {"structural", "accepted"} \subseteq Resolution
    BY DEF Resolution
<1>d. ASSUME worker[w].reply \in Results, worker[w].key \in Keys, AfterValidation(w)
      PROVE  WorkersOK'
    BY <1>a, <1>b, <1>c, <1>d DEF AfterValidation
<1>e. worker[w].pc \in {"record", "continue", "store"}
         => worker[w].reply \in Results /\ worker[w].key \in Keys
    BY <1>0 DEF Prepared
<1>1. CASE Record(w)
    <2>1. Refused(w) \/ (WorkersOK' /\ Service)
        BY <1>1, <1>a, <1>d, <1>e DEF Record, AtPoint
    <2> QED
        BY <1>0, <2>1, Quits, OthersTyped DEF Service
<1>2. CASE Continue(w)
    <2>1. Prepared(w, [worker[w] EXCEPT !.pc = "reserve", !.kind = "replacement_review"])
        BY <1>0 DEF Prepared, WorkerRow, Free, Point, Kinds, ContinuationKinds
    <2>2. \/ Refused(w)
          \/ /\ Service
             /\ \/ AfterValidation(w)
                \/ worker' = [worker EXCEPT ![w] = [worker[w] EXCEPT !.pc = "reserve",
                                                     !.kind = "replacement_review"]]
        BY <1>2 DEF Continue
    <2>3. Refused(w) \/ (WorkersOK' /\ Service)
        BY <1>0, <1>2, <1>d, <1>e, <2>1, <2>2, OneWorkerMoves DEF Continue, AtPoint
    <2> QED
        BY <1>0, <2>3, Quits, OthersTyped DEF Service
<1>3. CASE Store(w)
    <2>1. Refused(w) \/ (WorkersOK' /\ Service)
        BY <1>3, <1>b, <1>c DEF Store
    <2> QED
        BY <1>0, <2>1, Quits, OthersTyped DEF Service
<1>4. CASE FinishJob(w)
    <2>1. ASSUME AfterFinish(w, worker[w].end) PROVE WorkersOK'
        BY <1>0, <2>1, Goes DEF AfterFinish, Point
    <2>2. Refused(w) \/ (WorkersOK' /\ (Service \/ OnlyWorker))
        BY <1>4, <2>1 DEF FinishJob
    <2> QED
        BY <1>0, <2>2, Quits, OthersTyped DEF Service, OnlyWorker
<1>5. CASE Publish(w)
    <2>1. Refused(w) \/ (WorkersOK' /\ Service)
        BY <1>0, <1>5, Goes DEF Publish, Point
    <2> QED
        BY <1>0, <2>1, Quits, OthersTyped DEF Service
<1> QED
    BY <1>1, <1>2, <1>3, <1>4, <1>5

\* Every step of a worker keeps the types.
LEMMA WorkerStepTyped ==
    ASSUME ServiceTypeOK, RepoTypeOK, NEW w \in Tokens, WorkerStep(w)
    PROVE  ServiceTypeOK'
BY EarlyStepsTyped, CallStepsTyped, LateStepsTyped DEF WorkerStep

\* The steps of the execution of a run.
LEMMA PoolStepTyped ==
    ASSUME ServiceTypeOK, NEW r \in Runs, PoolStep(r)
    PROVE  ServiceTypeOK'
<1>1. CASE Begin(r)
    <2>1. WorkersOK'
        <3>1. \A w \in Tokens : worker'[w] \in {worker[w], [Idle EXCEPT !.pc = "poll"]}
            BY <1>1 DEF Begin
        <3>2. \A w \in Tokens : Prepared(w, worker'[w])
            BY <3>1, IdleIsPrepared DEF ServiceTypeOK, WorkersOK
        <3>3. DOMAIN worker' = Tokens /\ worker' = [w \in Tokens |-> worker'[w]]
            BY <1>1 DEF Begin
        <3> QED
            BY <3>2, <3>3 DEF WorkersOK, Prepared
    <2>2. pool' \in [Runs -> Pool] /\ abort' \in [Runs -> BOOLEAN]
        BY <1>1 DEF Begin, PoolTo, ServiceTypeOK, PoolsOK, Pool
    <2> QED
        BY <1>1, <2>1, <2>2 DEF Begin, ServiceTypeOK, PoolsOK
<1>2. CASE ~Begin(r)
    <2>1. UNCHANGED <<worker, abort, recovery, hits, sent, faults>>
        BY <1>2 DEF PoolStep, Validate, Drain, NextPhase, RegisterSections, OnlyPool
    <2>2. pool' \in [Runs -> Pool]
        BY <1>2 DEF PoolStep, Validate, Drain, NextPhase, RegisterSections, PoolTo,
              ServiceTypeOK, PoolsOK, Pool
    <2> QED
        BY <2>1, <2>2 DEF ServiceTypeOK, WorkersOK, PoolsOK
<1> QED
    BY <1>1, <1>2

RecoveryRow == [phase : Phase, chore : [Jobs -> Chore]]

\* The steps of a recovery.
LEMMA RecoveryStepTyped ==
    ASSUME ServiceTypeOK, NEW r \in Runs, RecoveryStep(r)
    PROVE  ServiceTypeOK'
<1>0. recovery[r].phase \in Phase /\ recovery[r].chore \in [Jobs -> Chore]
    BY DEF ServiceTypeOK, PoolsOK
<1>1. NoChores \in [Jobs -> Chore]
    BY DEF NoChores, Chore
<1>2. ASSUME NEW phase \in Phase, NEW chore \in [Jobs -> Chore], RecoveryTo(r, phase, chore),
             OnlyRecovery
      PROVE  ServiceTypeOK'
    <2> PICK row : row = [phase |-> phase, chore |-> chore]
        OBVIOUS
    <2>1. row \in RecoveryRow /\ recovery' = [recovery EXCEPT ![r] = row]
        BY <1>2 DEF RecoveryTo, RecoveryRow
    <2>2. recovery' \in [Runs -> RecoveryRow]
        BY <2>1 DEF ServiceTypeOK, PoolsOK, RecoveryRow
    <2> QED
        BY <1>2, <2>2 DEF OnlyRecovery, ServiceTypeOK, WorkersOK, PoolsOK, RecoveryRow
<1>3. CASE RecoverLeases(r)
    BY <1>1, <1>2, <1>3 DEF RecoverLeases, Phase
<1>4. CASE ListJobs(r)
    <2> PICK list : list = [j \in Jobs |-> IF RunOf[j] = r THEN ChoreFor(job[j]) ELSE "none"]
        OBVIOUS
    <2>1. list \in [Jobs -> Chore]
        BY DEF ChoreFor, Chore
    <2> QED
        BY <1>2, <1>4, <2>1 DEF ListJobs, Phase
<1>5. CASE Loop(r)
    <2>1. ASSUME NEW j \in Jobs, First(Chores(r), j), DoChore(r, j)
          PROVE  \E phase \in Phase, chore \in [Jobs -> Chore] : RecoveryTo(r, phase, chore)
        <3> PICK old : old = recovery[r].chore
            OBVIOUS
        <3>0. old[j] \in {"defer", "store", "finalize", "publish"}
            BY <1>0, <2>1 DEF First, Chores, Chore
        <3>1. ASSUME NEW next \in Chore
              PROVE  [old EXCEPT ![j] = next] \in [Jobs -> Chore]
            BY <1>0
        <3>2. "loop" \in Phase /\ "failed" \in Phase
              /\ {"none", "finalize", "publish"} \subseteq Chore
            BY DEF Phase, Chore
        <3>3. \/ RecoveryTo(r, "failed", NoChores)
              \/ RecoveryTo(r, "loop", [old EXCEPT ![j] = "none"])
              \/ RecoveryTo(r, "loop", [old EXCEPT ![j] = "finalize"])
              \/ RecoveryTo(r, "loop", [old EXCEPT ![j] = "publish"])
            BY <2>1, <3>0 DEF DoChore
        <3> QED
            BY <1>1, <3>1, <3>2, <3>3
    <2>2. \E phase \in Phase, chore \in [Jobs -> Chore] : RecoveryTo(r, phase, chore)
        BY <1>1, <1>5, <2>1 DEF Loop, Phase
    <2> QED
        BY <1>2, <1>5, <2>2 DEF Loop
<1>6. CASE EndResume(r)
    <2>1. Resting \in RecoveryRow
        BY <1>1 DEF Resting, RecoveryRow, Phase
    <2>2. recovery' \in [Runs -> RecoveryRow]
        BY <1>6, <2>1 DEF EndResume, ServiceTypeOK, PoolsOK, RecoveryRow
    <2>3. pool' \in [Runs -> Pool]
        BY <1>6 DEF EndResume, ServiceTypeOK, PoolsOK, Pool
    <2> QED
        BY <1>6, <2>2, <2>3 DEF EndResume, ServiceTypeOK, WorkersOK, PoolsOK, RecoveryRow
<1> QED
    BY <1>3, <1>4, <1>5, <1>6 DEF RecoveryStep

\* Commands, crashes and expiries.
LEMMA OutsideStepTyped ==
    ASSUME ServiceTypeOK, Command \/ Fault
    PROVE  ServiceTypeOK'
<1>1. NoChores \in [Jobs -> Chore] /\ Resting \in RecoveryRow
    BY DEF NoChores, Chore, Resting, RecoveryRow, Phase
<1>2. faults \in Nat
    BY DEF ServiceTypeOK, PoolsOK
<1>3. ASSUME NEW r \in Runs, Start(r)
      PROVE  ServiceTypeOK'
    BY <1>3 DEF Start, PoolTo, ServiceTypeOK, WorkersOK, PoolsOK, Pool
<1>4. ASSUME NEW r \in Runs, Resume(r)
      PROVE  ServiceTypeOK'
    <2> PICK row : row = [phase |-> "recover", chore |-> NoChores]
        OBVIOUS
    <2>1. row \in RecoveryRow /\ recovery' = [recovery EXCEPT ![r] = row]
        BY <1>1, <1>4 DEF Resume, RecoveryTo, RecoveryRow, Phase
    <2>2. recovery' \in [Runs -> RecoveryRow]
        BY <2>1 DEF ServiceTypeOK, PoolsOK, RecoveryRow
    <2>3. faults' \in Nat
        BY <1>2, <1>4 DEF Resume
    <2> QED
        BY <1>4, <2>2, <2>3 DEF Resume, ServiceTypeOK, WorkersOK, PoolsOK, RecoveryRow
<1>5. ASSUME NEW r \in Runs, Cancel(r)
      PROVE  ServiceTypeOK'
    BY <1>5 DEF Cancel, serviceVars, ServiceTypeOK, WorkersOK, PoolsOK
<1>6. ASSUME NEW j \in Jobs, ApproveRetry(j)
      PROVE  ServiceTypeOK'
    BY <1>6 DEF ApproveRetry, serviceVars, ServiceTypeOK, WorkersOK, PoolsOK
<1>7. CASE Crash
    <2>1. WorkersOK'
        <3>1. \A w \in Tokens : Prepared(w, worker'[w])
            BY <1>7, IdleIsPrepared DEF Crash
        <3>2. worker' = [w \in Tokens |-> worker'[w]]
            BY <1>7 DEF Crash
        <3> QED
            BY <3>1, <3>2 DEF WorkersOK, Prepared
    <2>2. recovery' \in [Runs -> RecoveryRow]
        BY <1>1, <1>7 DEF Crash
    <2>3. pool' \in [Runs -> Pool] /\ abort' \in [Runs -> BOOLEAN] /\ faults' \in Nat
        BY <1>2, <1>7 DEF Crash, Pool
    <2> QED
        BY <1>7, <2>1, <2>2, <2>3 DEF Crash, ServiceTypeOK, PoolsOK, RecoveryRow
<1>8. ASSUME NEW j \in Jobs, Expire(j)
      PROVE  ServiceTypeOK'
    BY <1>2, <1>8 DEF Expire, ServiceTypeOK, WorkersOK, PoolsOK
<1> QED
    BY <1>3, <1>4, <1>5, <1>6, <1>7, <1>8 DEF Command, Fault

\* A service that starts is typed.
LEMMA InitServiceTyped == WorkflowInit => ServiceTypeOK
<1> SUFFICES ASSUME WorkflowInit PROVE ServiceTypeOK
    OBVIOUS
<1>1. \A w \in Tokens : Prepared(w, worker[w])
    BY IdleIsPrepared DEF WorkflowInit
<1>2. worker = [w \in Tokens |-> worker[w]]
    BY DEF WorkflowInit
<1>3. NoChores \in [Jobs -> Chore] /\ Resting \in RecoveryRow
    BY DEF NoChores, Chore, Resting, RecoveryRow, Phase
<1>4. recovery \in [Runs -> RecoveryRow]
    BY <1>3 DEF WorkflowInit
<1>5. pool \in [Runs -> Pool] /\ abort \in [Runs -> BOOLEAN]
      /\ sent \in [Jobs -> SUBSET Nat] /\ faults \in Nat
    BY DEF WorkflowInit, Pool
<1> QED
    BY <1>1, <1>2, <1>4, <1>5 DEF ServiceTypeOK, WorkersOK, PoolsOK, Prepared, RecoveryRow

\* So is one after any step.
LEMMA NextServiceTyped ==
    ASSUME ServiceTypeOK, RepoTypeOK, [Next]_vars
    PROVE  ServiceTypeOK'
<1>1. CASE UNCHANGED vars
    BY <1>1 DEF vars, serviceVars, ServiceTypeOK, WorkersOK, PoolsOK
<1> QED
    BY <1>1, WorkerStepTyped, PoolStepTyped, RecoveryStepTyped, OutsideStepTyped DEF Next

-----------------------------------------------------------------------------
(* Every transaction of the workflow is one the repository offers, with arguments *)
(* of its tables: what is proved of RepoSpec is true of the workflow.             *)

\* A transaction that names a job is one of the repository.
LEMMA AJobStep ==
    ASSUME NEW j \in Jobs, JobStep(j)
    PROVE  RepoNext
BY DEF RepoNext

\* So is one that names a lease and a job ...
LEMMA ALeaseStep ==
    ASSUME NEW w \in Tokens, NEW j \in Jobs, LeaseStep(w, j)
    PROVE  RepoNext
BY DEF RepoNext

\* ... and one that names a run.
LEMMA ARunStep ==
    ASSUME NEW r \in Runs, RunStep(r)
    PROVE  RepoNext
BY DEF RepoNext

\* The transactions of the service that name a job, once it is registered, and with its
\* registration: all but the passing of a lease.
LaterCall(j) ==
    \/ StoreRetryApproval(j) \/ StoreCache(j) \/ DeferResumableJob(j)
    \/ \E res \in Resolution : FinalizeJob(j, res)
    \/ \E c \in {"complete"} \cup ContinuationKinds : RecordContinuation(j, c)
    \/ \E result \in Results \cup {Structural} : PublishJob(j, result)
    \/ \E o \in {0, Len(attempts[j])}, result \in Results, k \in Keys :
          RecordValidated(j, o, result, k)

JobCall(j) == RegisterJob(j) \/ LaterCall(j)

\* They are transactions of the repository.
LEMMA JobCallSteps ==
    ASSUME NEW j \in Jobs, JobCall(j)
    PROVE  JobStep(j)
BY Zenon DEF JobStep, JobCall, LaterCall

\* What the adapter publishes is a result of the cache, or the structural one.
LEMMA PublishedFormTyped ==
    ASSUME CacheInv, NEW j \in Jobs
    PROVE  PublishedForm(j) \in Results \cup {Structural}
BY DEF CacheInv, CacheSafe, PublishedForm

\* Publishing it is therefore a transaction of the repository.
LEMMA PublishesForm ==
    ASSUME CacheInv, NEW j \in Jobs, PublishJob(j, PublishedForm(j))
    PROVE  LaterCall(j)
BY PublishedFormTyped DEF LaterCall

\* The transactions of a worker that name its job and not its lease.
LEMMA JobCalls ==
    ASSUME ServiceTypeOK, CacheInv, NEW w \in Tokens,
           \/ Refuse(w) \/ Record(w) \/ Continue(w)
           \/ Store(w) \/ FinishJob(w) \/ Publish(w)
    PROVE  JobAt(w) \in Jobs /\ (LaterCall(JobAt(w)) \/ UNCHANGED repoVars)
<1>0. /\ Prepared(w, worker[w]) /\ worker[w].pc \notin Free
      /\ JobAt(w) \in Jobs
    BY DEF ServiceTypeOK, WorkersOK, Prepared, JobAt, JobsOf, Free, AtPoint,
          Refuse, Record, Continue, Store, FinishJob, Publish
<1>1. CASE Refuse(w)
    <2>1. CASE RecordContinuation(JobAt(w), "refusal_fallback")
        BY <1>0, <2>1 DEF LaterCall, ContinuationKinds
    <2> QED
        BY <1>0, <1>1, <2>1 DEF Refuse, Refused, repoVars
<1>2. CASE Record(w)
    <2> PICK o : o = IF worker[w].cached THEN 0 ELSE worker[w].attempt
        OBVIOUS
    <2>1. worker[w].reply \in Results /\ worker[w].key \in Keys
        BY <1>0, <1>2 DEF Record, AtPoint, Prepared
    <2>2. CASE RecordValidated(JobAt(w), o, worker[w].reply, worker[w].key)
        <3>1. o \in {0, Len(attempts[JobAt(w)])}
            BY <2>2 DEF RecordValidated, MayRecord
        <3> QED
            BY <1>0, <2>1, <2>2, <3>1 DEF LaterCall
    <2> QED
        BY <1>0, <1>2, <2>2 DEF Record, Refused, repoVars
<1>3. CASE Continue(w)
    <2>1. CASE RecordContinuation(JobAt(w), NextContinuation(w))
        BY <1>0, <2>1 DEF LaterCall, ContinuationKinds, NextContinuation
    <2> QED
        BY <1>0, <1>3, <2>1 DEF Continue, Refused, repoVars
<1>4. CASE Store(w)
    BY <1>0, <1>4 DEF Store, LaterCall, Refused, repoVars
<1>5. CASE FinishJob(w)
    <2>1. worker[w].end \in Resolution
        BY <1>0, <1>5 DEF FinishJob, AtPoint, Prepared
    <2>2. CASE DeferResumableJob(JobAt(w)) \/ FinalizeJob(JobAt(w), worker[w].end)
        BY <1>0, <2>1, <2>2 DEF LaterCall
    <2> QED
        BY <1>0, <1>5, <2>2 DEF FinishJob, Refused, OnlyWorker, repoVars
<1>6. CASE Publish(w)
    BY <1>0, <1>6, PublishesForm DEF Publish, Refused, repoVars
<1> QED
    BY <1>0, <1>1, <1>2, <1>3, <1>4, <1>5, <1>6

\* The worker's transactions.
LEMMA WorkerStepCalls ==
    ASSUME ServiceTypeOK, CacheInv, NEW w \in Tokens, WorkerStep(w)
    PROVE  [RepoNext]_repoVars
<1>0. /\ Prepared(w, worker[w]) /\ worker[w] \in WorkerRow /\ WorkerRun[w] \in Runs
      /\ worker[w].pc \notin Free => JobAt(w) \in Jobs
    BY WorkflowAssumption DEF ServiceTypeOK, WorkersOK, Prepared, JobAt, JobsOf
<1>1. CASE Poll(w) \/ Held(w) \/ Lookup(w) \/ Prepare(w) \/ Marked(w) \/ Submit(w)
    BY <1>1 DEF Poll, Held, Lookup, Prepare, Marked, Submit, OnlyWorker, Refused, repoVars
<1>2. CASE Claim(w)
    BY <1>0, <1>2 DEF Claim, RepoNext, ClaimStep
<1>3. CASE Release(w)
    <2>1. JobAt(w) \in Jobs
        BY <1>0, <1>3 DEF Release, AtPoint, Free
    <2>2. CASE ReleaseClaim(w, JobAt(w))
        BY <2>1, <2>2, ALeaseStep DEF LeaseStep
    <2> QED
        BY <1>3, <2>2 DEF Release, OnlyWorker, repoVars
<1>4. CASE Reserve(w)
    <2>1. JobAt(w) \in Jobs /\ worker[w].kind \in Kinds
        BY <1>0, <1>4 DEF Reserve, AtPoint, Free, WorkerRow
    <2>2. CASE ReserveAttempt(w, JobAt(w), worker[w].kind)
        BY <2>1, <2>2, ALeaseStep DEF LeaseStep
    <2> QED
        BY <1>4, <2>2 DEF Reserve, OnlyWorker, Refused, repoVars
<1>5. CASE Mark(w)
    <2>1. JobAt(w) \in Jobs
        BY <1>0, <1>5 DEF Mark, AtPoint, Free
    <2>2. CASE MarkTransmitting(w, JobAt(w))
        BY <2>1, <2>2, ALeaseStep DEF LeaseStep
    <2> QED
        BY <1>5, <2>2 DEF Mark, OnlyWorker, Refused, repoVars
<1>6. CASE Complete(w)
    <2> PICK d : d = DispositionOf(worker[w].reply)
        OBVIOUS
    <2>1. JobAt(w) \in Jobs /\ d \in Disposition \ {"not_started"}
        BY <1>0, <1>6 DEF Complete, AtPoint, Free, DispositionOf, Disposition
    <2>2. ASSUME NEW calls \in {0, 1}, NEW u \in Units,
                 CompleteAttempt(w, JobAt(w), d, TRUE, calls, u,
                                 d = "definitely_not_transmitted")
          PROVE  RepoNext
        <3>1. (d = "definitely_not_transmitted") \in BOOLEAN
            OBVIOUS
        <3>2. LeaseStep(w, JobAt(w))
            BY <2>1, <2>2, <3>1 DEF LeaseStep
        <3> QED
            BY <2>1, <3>2, ALeaseStep
    <2> QED
        BY <1>6, <2>2 DEF Complete, Refused, repoVars
<1>7. CASE \/ Refuse(w) \/ Record(w) \/ Continue(w)
           \/ Store(w) \/ FinishJob(w) \/ Publish(w)
    BY <1>7, JobCalls, JobCallSteps, AJobStep DEF JobCall
<1> QED
    BY <1>1, <1>2, <1>3, <1>4, <1>5, <1>6, <1>7 DEF WorkerStep

\* Those of the execution, of recovery, of the user and of time.
LEMMA PoolStepCalls ==
    ASSUME NEW r \in Runs, PoolStep(r)
    PROVE  [RepoNext]_repoVars
<1>1. CASE Begin(r)
    BY <1>1, ARunStep DEF Begin, RunStep
<1>2. ASSUME NEW j \in Jobs, RegisterJob(j)
      PROVE  RepoNext
    BY <1>2, AJobStep DEF JobStep
<1>3. CASE NextPhase(r)
    <2>1. \A j : j \in Absent(RollupsOf(r)) => j \in Jobs
        BY DEF Absent, RollupsOf, JobsOf
    <2>2. UNCHANGED repoVars \/ \E j \in Jobs : RegisterJob(j)
        BY <1>3, <2>1 DEF NextPhase
    <2> QED
        BY <1>2, <2>2
<1>4. CASE RegisterSections(r)
    <2>1. \A j : j \in Absent(SectionsOf(r)) => j \in Jobs
        BY DEF Absent, SectionsOf, JobsOf
    <2>2. UNCHANGED repoVars \/ \E j \in Jobs : RegisterJob(j)
        BY <1>4, <2>1 DEF RegisterSections
    <2> QED
        BY <1>2, <2>2
<1> QED
    BY <1>1, <1>3, <1>4 DEF PoolStep, Validate, Drain, OnlyPool, repoVars

\* The transactions of a recovery.
LEMMA RecoveryStepCalls ==
    ASSUME ServiceTypeOK, CacheInv, NEW r \in Runs, RecoveryStep(r)
    PROVE  [RepoNext]_repoVars
<1>1. CASE RecoverLeases(r)
    BY <1>1, ARunStep DEF RecoverLeases, RunStep
<1>2. CASE Loop(r)
    <2>1. ASSUME NEW j \in Jobs, First(Chores(r), j), DoChore(r, j)
          PROVE  [RepoNext]_repoVars
        <3>0. recovery[r].chore[j] \in {"defer", "store", "finalize", "publish"}
            BY <2>1 DEF ServiceTypeOK, PoolsOK, First, Chores, Chore
        <3>1. \/ UNCHANGED repoVars \/ DeferResumableJob(j) \/ StoreCache(j)
              \/ FinalizeJob(j, "accepted") \/ PublishJob(j, PublishedForm(j))
            BY <2>1, <3>0 DEF DoChore
        <3>2. "accepted" \in Resolution
            BY DEF Resolution
        <3> QED
            BY <3>1, <3>2, AJobStep, PublishesForm, JobCallSteps DEF JobStep, JobCall
    <2> QED
        BY <1>2, <2>1 DEF Loop
<1> QED
    BY <1>1, <1>2 DEF RecoveryStep, ListJobs, EndResume, repoVars

\* The transactions of the user and of time; a crash makes none.
LEMMA OutsideStepCalls ==
    ASSUME Command \/ Fault
    PROVE  [RepoNext]_repoVars
<1>1. ASSUME NEW r \in Runs, Start(r) \/ Cancel(r)
      PROVE  RepoNext
    BY <1>1, ARunStep DEF Start, Cancel, RunStep
<1>2. ASSUME NEW j \in Jobs, ApproveRetry(j) \/ Expire(j)
      PROVE  RepoNext
    BY <1>2, AJobStep DEF ApproveRetry, Expire, JobStep
<1> QED
    BY <1>1, <1>2 DEF Command, Fault, Resume, Crash, repoVars

\* Every step of the workflow is at most one transaction of the repository.
LEMMA NextCalls ==
    ASSUME ServiceTypeOK, CacheInv, [Next]_vars
    PROVE  [RepoNext]_repoVars
<1>1. CASE UNCHANGED vars
    BY <1>1 DEF vars, repoVars
<1> QED
    BY <1>1, WorkerStepCalls, PoolStepCalls, RecoveryStepCalls, OutsideStepCalls DEF Next

\* The workflow is a client of the repository: each of its steps, whatever workers,
\* recoveries, commands and crashes interleave, is one transaction of the repository's
\* specification or leaves its tables alone.
THEOREM WorkflowUsesRepository == Workflow => RepoSpec
<1>1. WorkflowInit => RepoInit /\ ServiceTypeOK /\ CacheInv
    BY InitTyped, InitServiceTyped DEF WorkflowInit, RepoInit, FreshJob, CacheInv, CacheSafe
<1>2. ServiceTypeOK /\ CacheInv /\ [Next]_vars
         => ServiceTypeOK' /\ CacheInv' /\ [RepoNext]_repoVars
    BY NextCalls, NextCaches, NextServiceTyped DEF CacheInv
<1> QED
    BY <1>1, <1>2, PTL DEF Workflow, RepoSpec

\* Whatever the workflow does, its tables keep the safety invariants of the repository:
\* no silent resend, approvals spent once, ceilings and the slot limit respected, fresh
\* run statuses, accepted results in the cache, attempts that match their jobs.
THEOREM WorkflowKeepsTables ==
    Workflow => /\ []AttemptMatchesJob /\ []NoSilentResend /\ []ApprovalSpentOnce
                /\ []CeilingRespected /\ []SlotBound /\ []RunStatusFresh /\ []AcceptedIsCached
BY WorkflowUsesRepository, AttemptsMatch, ResendsAreApproved, ApprovalsAreSpentOnce,
   CeilingsHold, SlotsAreBounded, RunStatusIsDerived, AcceptedStaysCached

\* ImplementsLedger of the workflow: its calls and publications are those the ledger
\* allows.
THEOREM WorkflowKeepsLedger == Workflow => ImplementsLedger
BY WorkflowUsesRepository, LedgerIsKept

-----------------------------------------------------------------------------
(* What a transaction leaves of the attempts and leases of a job that it does not  *)
(* reserve a call for: as many attempts, those that may have been transmitted still *)
(* on record as such, and the lease with its holder or with nobody.                 *)

Recorded(k) ==
    /\ DOMAIN attempts'[k] = DOMAIN attempts[k] /\ Len(attempts'[k]) = Len(attempts[k])
    /\ \A o \in DOMAIN attempts[k] :
          MaybeTransmitted(attempts[k][o]) => MaybeTransmitted(attempts'[k][o])

Hands(k) == job'[k].token \in {job[k].token, NoToken}

\* A call on the wire is not settled as one that stayed at home.
NotTakenBack(k) ==
    LatestIs(k, "transmitting") => Latest(k)'.disposition # "definitely_not_transmitted"

\* A transaction that rewrites only latest attempts, as Rewrites allows, and takes no
\* call on the wire back, leaves what may have been transmitted on record as such.
LEMMA RewritesRecord ==
    ASSUME FateInv, NEW k \in Jobs, Rewrites(k), NotTakenBack(k)
    PROVE  Recorded(k)
<1>1. /\ attempts[k] \in Seq(AttemptRow) /\ attempts'[k] \in Seq(AttemptRow)
      /\ Len(attempts'[k]) = Len(attempts[k])
      /\ DOMAIN attempts'[k] = DOMAIN attempts[k]
    BY DEF FateInv, RepoTypeOK, Rewrites
<1>2. ASSUME NEW o \in DOMAIN attempts[k], MaybeTransmitted(attempts[k][o])
      PROVE  MaybeTransmitted(attempts'[k][o])
    <2>1. CASE o < Len(attempts[k])
        BY <1>2, <2>1 DEF Rewrites
    <2>2. CASE ~(o < Len(attempts[k]))
        <3>1. o = Len(attempts[k]) /\ Attempted(k)
            BY <1>1, <1>2, <2>2 DEF Attempted
        <3>2. attempts[k][o] = Latest(k) /\ attempts'[k][o] = Latest(k)'
            BY <1>1, <3>1 DEF Latest
        <3> PICK a, b : a = Latest(k) /\ b = Latest(k)'
            OBVIOUS
        <3>3. /\ RowChanges(k, a, b) /\ Consistent(a) /\ MaybeTransmitted(a)
              /\ a.status = "transmitting" => b.disposition # "definitely_not_transmitted"
            BY <1>2, <3>1, <3>2 DEF Rewrites, FateInv, NotTakenBack, LatestIs
        <3>4. MaybeTransmitted(b)
            BY <3>3 DEF RowChanges, SameFate, Sends, Settles, Loses, Consistent, Over, OpenRow,
                  Unsent, Unresolved, Answered, MaybeTransmitted
        <3> QED
            BY <3>2, <3>4
    <2> QED
        BY <2>1, <2>2
<1> QED
    BY <1>1, <1>2 DEF Recorded

\* Attempts that stand still stay on record.
LEMMA SameRecorded ==
    ASSUME RepoTypeOK, NEW k \in Jobs, attempts'[k] = attempts[k]
    PROVE  Recorded(k)
BY DEF Recorded, RepoTypeOK

\* Recovering a job settles a call on the wire as uncertain.
LEMMA RecoveryTakesNothingBack ==
    ASSUME FateInv, NEW k \in Jobs, NEW due, attempts'[k] = AttemptsAfter(due)[k],
           LatestIs(k, "transmitting")
    PROVE  NotTakenBack(k)
<1>1. /\ Attempted(k) /\ Latest(k) \in AttemptRow /\ Len(attempts[k]) \in DOMAIN attempts[k]
      /\ attempts[k] \in Seq(AttemptRow)
    BY LatestTyped DEF LatestIs, RepoTypeOK, FateInv
<1>2. CASE k \in due
    <2> PICK row : row = [Latest(k) EXCEPT !.status = "indeterminate",
                                           !.disposition = "indeterminate"]
        OBVIOUS
    <2>1. attempts'[k] = [attempts[k] EXCEPT ![Len(attempts[k])] = row]
        BY <1>1, <1>2 DEF AttemptsAfter, RecoveredAttempts, MaybeSent, Latest
    <2>2. row.disposition = "indeterminate" /\ row \in AttemptRow
        BY <1>1 DEF AttemptRow, AttemptStatus, Disposition
    <2>3. Latest(k)' = row
        BY <1>1, <2>1, <2>2 DEF Latest
    <2> QED
        BY <2>2, <2>3 DEF NotTakenBack
<1>3. CASE k \notin due
    <2>1. attempts'[k] = attempts[k]
        BY <1>3 DEF AttemptsAfter
    <2>2. Latest(k)'.disposition = Latest(k).disposition
        BY <2>1 DEF Latest
    <2>3. Consistent(Latest(k)) /\ Latest(k).status = "transmitting"
        BY <1>1 DEF FateInv, Latest, LatestIs
    <2> QED
        BY <2>2, <2>3 DEF NotTakenBack, Consistent, Over, Unsent, Unresolved, Answered
<1> QED
    BY <1>2, <1>3

\* The transactions on a run.
LEMMA RunStepRecords ==
    ASSUME FateInv, NEW r \in Runs, RunStep(r), NEW k \in Jobs
    PROVE  Recorded(k) /\ Hands(k)
<1>0. RepoTypeOK /\ job[k] \in JobRow
    BY DEF FateInv, RepoTypeOK
<1>1. CASE RecoverRun(r)
    <2>1. ASSUME LatestIs(k, "transmitting") PROVE NotTakenBack(k)
        <3>1. k \notin Lost(r)
            BY <1>0, <2>1 DEF Lost, FateInv, AttemptMatchesJob
        <3>2. attempts'[k] = AttemptsAfter(DueInRun(r))[k]
            BY <1>1, <3>1 DEF RecoverRun
        <3> QED
            BY <2>1, <3>2, RecoveryTakesNothingBack
    <2>2. NotTakenBack(k)
        BY <2>1 DEF NotTakenBack
    <2>3. Recorded(k)
        BY <1>1, <2>2, RunStepRewrites, RewritesRecord
    <2>4. Hands(k)
        BY <1>0, <1>1 DEF RecoverRun, JobsAfter, RecoveredJob, Unleased, Hands, JobRow
    <2> QED
        BY <2>3, <2>4
<1>2. CASE ~RecoverRun(r)
    <2>1. Recorded(k)
        BY <1>0, <1>2, SameRecorded DEF RunStep, StoreRunApproval, CancelRun, ActivateResumableJobs
    <2>2. Hands(k)
        <3>1. CASE StoreRunApproval(r)
            BY <3>1 DEF StoreRunApproval, Hands
        <3>2. CASE CancelRun(r)
            <4>1. job'[k] \in {job[k], [Unleased(job[k]) EXCEPT !.status = "cancelled"]}
                BY <3>2 DEF CancelRun
            <4> QED
                BY <1>0, <4>1 DEF Unleased, Hands, JobRow
        <3>3. CASE ActivateResumableJobs(r)
            <4>1. job'[k] \in {job[k], [job[k] EXCEPT !.status = "pending", !.resolution = "none"]}
                BY <3>3 DEF ActivateResumableJobs
            <4> QED
                BY <1>0, <4>1 DEF Hands, JobRow
        <3> QED
            BY <1>2, <3>1, <3>2, <3>3 DEF RunStep
    <2> QED
        BY <2>1, <2>2
<1> QED
    BY <1>1, <1>2

\* The transactions that name a job.
LEMMA JobStepRecords ==
    ASSUME FateInv, NEW j \in Jobs, JobStep(j), NEW k \in Jobs
    PROVE  Recorded(k) /\ Hands(k)
<1>0. /\ RepoTypeOK /\ job[k] \in JobRow /\ job[j] \in JobRow /\ job \in [Jobs -> JobRow]
      /\ AttemptMatchesJob
    BY DEF FateInv, RepoTypeOK
<1>1. Rewrites(k)
    BY <1>0, JobStepRewrites
<1>2. ASSUME LatestIs(k, "transmitting"), attempts'[k] # attempts[k] PROVE FALSE
    <2>1. CASE StoreRetryApproval(j)
        BY <1>2, <2>1, <1>0 DEF StoreRetryApproval, WithLatest, RepoTypeOK, LatestIs
    <2>2. ASSUME NEW o, NEW result, NEW key, RecordValidated(j, o, result, key)
          PROVE  FALSE
        BY <1>2, <2>2, <1>0 DEF RecordValidated, MayRecord, WithLatest, RepoTypeOK, LatestIs
    <2> QED
        BY <1>2, <2>1, <2>2 DEF JobStep, RegisterJob, ExpireLease, StoreCache,
              DeferResumableJob, FinalizeJob, RecordContinuation, PublishJob
<1>3. Recorded(k)
    <2>1. CASE attempts'[k] = attempts[k]
        BY <1>0, <2>1, SameRecorded
    <2>2. CASE attempts'[k] # attempts[k]
        BY <1>1, <1>2, <2>2, RewritesRecord DEF NotTakenBack
    <2> QED
        BY <2>1, <2>2
<1>4. Hands(k)
    <2>1. CASE StoreRetryApproval(j)
        BY <1>0, <2>1 DEF StoreRetryApproval, Hands, JobRow
    <2>2. CASE RegisterJob(j)
        BY <1>0, <2>2 DEF RegisterJob, FreshJob, Hands
    <2>3. CASE ExpireLease(j) \/ StoreCache(j) \/ DeferResumableJob(j)
        BY <1>0, <2>3 DEF ExpireLease, StoreCache, DeferResumableJob, Hands, JobRow
    <2>4. ASSUME NEW res \in Resolution, FinalizeJob(j, res) PROVE Hands(k)
        <3>1. CASE k = j
            <4>1. job'[k] = [Unleased(job[k]) EXCEPT !.status = FinalizedStatus(res),
                                                     !.resolution = res]
                BY <1>0, <2>4, <3>1 DEF FinalizeJob
            <4> QED
                BY <1>0, <4>1 DEF Unleased, Hands, JobRow
        <3>2. CASE k # j
            BY <1>0, <2>4, <3>2 DEF FinalizeJob, Hands
        <3> QED
            BY <3>1, <3>2
    <2>5. ASSUME NEW c, RecordContinuation(j, c) PROVE Hands(k)
        BY <1>0, <2>5 DEF RecordContinuation, Hands, JobRow
    <2>6. ASSUME NEW result, PublishJob(j, result) PROVE Hands(k)
        BY <1>0, <2>6 DEF PublishJob, Hands, JobRow
    <2>7. ASSUME NEW o, NEW result, NEW key, RecordValidated(j, o, result, key) PROVE Hands(k)
        <3>1. CASE k = j
            <4>1. job'[k] \in {job[k], [job[k] EXCEPT !.status = "validated",
                                                     !.result = result, !.key = key]}
                BY <1>0, <2>7, <3>1 DEF RecordValidated
            <4> QED
                BY <1>0, <4>1 DEF Hands, JobRow
        <3>2. CASE k # j
            BY <1>0, <2>7, <3>2 DEF RecordValidated, Hands
        <3> QED
            BY <3>1, <3>2
    <2> QED
        BY <2>1, <2>2, <2>3, <2>4, <2>5, <2>6, <2>7 DEF JobStep
<1> QED
    BY <1>3, <1>4

\* What a claim leaves of the other jobs, and of its own attempts.
LEMMA ClaimRecords ==
    ASSUME FateInv, NEW w \in Tokens, NEW r \in Runs, NEW k \in Jobs,
           ClaimNothing(r, FALSE) \/ \E j \in Jobs : ClaimNextJob(w, r, FALSE, j)
    PROVE  Recorded(k) /\ job'[k].token \in {job[k].token, NoToken, w}
<1>0. RepoTypeOK /\ AttemptMatchesJob /\ job[k] \in JobRow /\ job \in [Jobs -> JobRow]
    BY DEF FateInv, RepoTypeOK
<1>1. attempts' = AttemptsAfter(DueNow)
    BY DEF ClaimNothing, ClaimNextJob
<1>2. Rewrites(k) /\ NotTakenBack(k)
    BY <1>0, <1>1, AfterRewrites, RecoveryTakesNothingBack DEF NotTakenBack
<1>3. Recorded(k)
    BY <1>2, RewritesRecord
<1> PICK rows : rows = JobsAfter(DueNow)
    OBVIOUS
<1>4. rows = JobsBeforeClaim(FALSE)
    BY DEF JobsBeforeClaim
<1>5. /\ rows \in [Jobs -> JobRow]
      /\ rows[k].token \in {job[k].token, NoToken}
    BY <1>0, AfterTyped DEF JobsAfter, RecoveredJob, Unleased, JobRow
<1>6. \/ job' = rows
      \/ \E j \in Jobs :
            \/ job' = [rows EXCEPT ![j] = Leased(rows[j], w)]
            \/ job' = [rows EXCEPT ![j] = [Leased(rows[j], w) EXCEPT !.status = "claimed"]]
    BY <1>4 DEF ClaimNothing, ClaimNextJob
<1>7. job'[k].token \in {rows[k].token, w}
    <2>1. rows[k] \in JobRow
        BY <1>5
    <2>2. Leased(rows[k], w).token = w /\ [Leased(rows[k], w) EXCEPT !.status = "claimed"].token = w
        BY <2>1 DEF Leased, JobRow
    <2>3. job'[k] \in {rows[k], Leased(rows[k], w), [Leased(rows[k], w) EXCEPT !.status = "claimed"]}
        BY <1>5, <1>6
    <2> QED
        BY <2>2, <2>3
<1> QED
    BY <1>3, <1>5, <1>7

\* What the holder of a claim leaves when it neither reserves nor completes a call.
LEMMA HolderRecords ==
    ASSUME FateInv, NEW w \in Tokens, NEW j \in Jobs, NEW k \in Jobs,
           ReleaseClaim(w, j) \/ MarkTransmitting(w, j)
    PROVE  Recorded(k) /\ Hands(k)
<1>0. /\ RepoTypeOK /\ AttemptMatchesJob /\ job[k] \in JobRow /\ job \in [Jobs -> JobRow]
      /\ job[j] \in JobRow
    BY DEF FateInv, RepoTypeOK
<1>1. Hands(k)
    <2>1. CASE MarkTransmitting(w, j)
        BY <1>0, <2>1 DEF MarkTransmitting, Hands, JobRow
    <2>2. CASE ReleaseClaim(w, j)
        <3>1. job'[k] \in {job[k], Released(job[k])}
            BY <1>0, <2>2 DEF ReleaseClaim
        <3> QED
            BY <1>0, <3>1 DEF Released, Unleased, Hands, JobRow
    <2> QED
        BY <2>1, <2>2
<1>2. CASE ReleaseClaim(w, j)
    BY <1>0, <1>1, <1>2, SameRecorded DEF ReleaseClaim
<1>3. CASE MarkTransmitting(w, j)
    <2>1. CASE k = j
        <3>1. ~LatestIs(k, "transmitting")
            BY <1>3, <2>1 DEF MarkTransmitting, MayMark, LatestIs
        <3>2. LeaseStep(w, j) /\ ~(\E kind \in Kinds : ReserveAttempt(w, j, kind))
            <4>1. job[j].status = "reserved"
                BY <1>3 DEF MarkTransmitting, MayMark, HoldsClaim
            <4> QED
                BY <1>3, <4>1 DEF LeaseStep, ReserveAttempt, CanReserve, HoldsClaim
        <3> QED
            BY <1>0, <1>1, <3>1, <3>2, LeaseStepRewrites, RewritesRecord DEF NotTakenBack
    <2>2. CASE k # j
        <3>1. attempts'[k] = attempts[k]
            BY <1>0, <1>3, <2>2 DEF MarkTransmitting, WithLatest, RepoTypeOK
        <3> QED
            BY <1>0, <1>1, <3>1, SameRecorded
    <2> QED
        BY <2>1, <2>2
<1> QED
    BY <1>2, <1>3

\* The attempts of a job before its latest one.
EarlierStay(j) ==
    /\ DOMAIN attempts'[j] = DOMAIN attempts[j] /\ Len(attempts'[j]) = Len(attempts[j])
    /\ \A o \in DOMAIN attempts[j] :
          o # Len(attempts[j]) => attempts'[j][o] = attempts[j][o]

Completes(w, j, d) ==
    \E calls \in {0, 1}, u \in Units :
        CompleteAttempt(w, j, d, TRUE, calls, u, d = "definitely_not_transmitted")

\* A completed call is off the wire; if it stayed at home only its own attempt changes.
LEMMA CompletionRecords ==
    ASSUME FateInv, NEW w \in Tokens, NEW j \in Jobs, NEW d \in Disposition \ {"not_started"},
           Completes(w, j, d), NEW k \in Jobs
    PROVE  /\ Hands(k)
           /\ \/ Recorded(k)
              \/ k = j /\ d = "definitely_not_transmitted" /\ job[j].token = w /\ EarlierStay(j)
<1>0. /\ RepoTypeOK /\ AttemptMatchesJob /\ job[k] \in JobRow /\ job \in [Jobs -> JobRow]
      /\ job[j] \in JobRow /\ attempts \in [Jobs -> Seq(AttemptRow)]
    BY DEF FateInv, RepoTypeOK
<1> PICK calls \in {0, 1}, u \in Units :
         CompleteAttempt(w, j, d, TRUE, calls, u, d = "definitely_not_transmitted")
    BY DEF Completes
<1> PICK response, defer : response = TRUE /\ defer = (d = "definitely_not_transmitted")
    OBVIOUS
<1>a. CompleteAttempt(w, j, d, response, calls, u, defer)
    OBVIOUS
<1>1. Hands(k)
    BY <1>0, <1>a DEF CompleteAttempt, Unleased, Hands, JobRow
<1> PICK row : row = [Latest(j) EXCEPT !.status = SettledStatus(d, response), !.disposition = d,
                                       !.calls = calls, !.units = u]
    OBVIOUS
<1>2. attempts' = WithLatest(j, row) /\ Attempted(j) /\ job[j].token = w
    BY <1>a DEF CompleteAttempt, Completable, HoldsClaim, Settled, LatestIs
<1>3. CASE k # j
    BY <1>0, <1>1, <1>2, <1>3, SameRecorded DEF WithLatest
<1>4. CASE k = j
    <2>1. /\ Len(attempts[j]) \in DOMAIN attempts[j] /\ Latest(j) \in AttemptRow
          /\ DOMAIN attempts[j] = 1..Len(attempts[j])
        BY <1>0, <1>2, LatestTyped
    <2>2. row.disposition = d
        BY <2>1 DEF AttemptRow
    <2>3. attempts'[j] = [attempts[j] EXCEPT ![Len(attempts[j])] = row]
        BY <1>0, <1>2 DEF WithLatest
    <2>4. /\ DOMAIN attempts'[j] = DOMAIN attempts[j] /\ Len(attempts'[j]) = Len(attempts[j])
          /\ \A o \in DOMAIN attempts[j] :
                 attempts'[j][o] = IF o = Len(attempts[j]) THEN row ELSE attempts[j][o]
        BY <1>0, <2>1, <2>3
    <2>5. CASE d = "definitely_not_transmitted"
        BY <1>1, <1>2, <1>4, <2>4, <2>5 DEF EarlierStay
    <2>6. CASE d # "definitely_not_transmitted"
        BY <1>1, <1>4, <2>2, <2>4, <2>6 DEF Recorded, MaybeTransmitted, Disposition
    <2> QED
        BY <2>5, <2>6
<1> QED
    BY <1>3, <1>4

-----------------------------------------------------------------------------
(* What left the process.  An attempt whose request left is on record as one that *)
(* may have been transmitted; a worker in a call knows an attempt of its job that *)
(* nobody else has, the latest one while it holds the lease, and until it submits  *)
(* that attempt did not leave.                                                     *)

Calling == {"reserved", "mark", "marked", "submit", "complete"}
Unsubmitted(row) ==
    \/ row.pc \in {"reserved", "mark", "marked", "submit"}
    \/ DispositionOf(row.reply) = "definitely_not_transmitted"

CallKnown(w) ==
    LET j == JobAt(w)
        o == worker[w].attempt
    IN  worker[w].pc \in Calling =>
            /\ o \in DOMAIN attempts[j]
            /\ job[j].token = w => o = Len(attempts[j])
            /\ Unsubmitted(worker[w]) => o \notin sent[j]
            /\ worker[w].pc \in {"marked", "submit"} => MaybeTransmitted(attempts[j][o])

OwnCall(v, w) ==
    worker[v].pc \in Calling /\ worker[w].pc \in Calling /\ JobAt(v) = JobAt(w)
      => worker[v].attempt # worker[w].attempt

SentKnown == \A j \in Jobs : \A o \in sent[j] :
                o \in DOMAIN attempts[j] /\ MaybeTransmitted(attempts[j][o])

SentInv == /\ SentKnown
           /\ \A w \in Tokens : CallKnown(w)
           /\ \A v, w \in Tokens : v # w => OwnCall(v, w)

\* What a step leaves of the calls: attempts that left are still on record as such.
SentStays(k) ==
    /\ DOMAIN attempts'[k] = DOMAIN attempts[k] /\ Len(attempts'[k]) = Len(attempts[k])
    /\ \A o \in sent[k] : MaybeTransmitted(attempts'[k][o])

\* A worker that is in a call after the step was in that call before it.
Follows(v) ==
    worker'[v].pc \in Calling =>
        /\ worker[v].pc \in Calling
        /\ worker'[v].job = worker[v].job /\ worker'[v].attempt = worker[v].attempt
        /\ Unsubmitted(worker'[v]) => Unsubmitted(worker[v])
        /\ worker'[v].pc \in {"marked", "submit"}
             => MaybeTransmitted(attempts'[JobAt(v)][worker[v].attempt])
        /\ \A k \in Jobs : job'[k].token = v => job[k].token = v

\* A worker in a call has a job.
LEMMA CallsAreJobs ==
    ASSUME ServiceTypeOK, NEW w \in Tokens, worker[w].pc \in Calling
    PROVE  JobAt(w) \in Jobs /\ worker[w].attempt \in Nat /\ worker[w].pc \notin Free
BY DEF ServiceTypeOK, WorkersOK, Prepared, Calling, Free, JobAt, JobsOf, WorkerRow

\* Steps that send nothing and let every worker follow keep the invariant.
LEMMA FollowingKeepsSent ==
    ASSUME SentInv, ServiceTypeOK, sent' = sent,
           \A k \in Jobs : SentStays(k), \A v \in Tokens : Follows(v)
    PROVE  SentInv'
<1>1. SentKnown'
    <2> SUFFICES ASSUME NEW j \in Jobs, NEW o \in sent[j]
                 PROVE  o \in DOMAIN attempts'[j] /\ MaybeTransmitted(attempts'[j][o])
        BY DEF SentKnown
    <2> QED
        BY DEF SentInv, SentKnown, SentStays
<1>2. ASSUME NEW w \in Tokens PROVE CallKnown(w)'
    <2> SUFFICES ASSUME worker'[w].pc \in Calling PROVE CallKnown(w)'
        BY DEF CallKnown
    <2> PICK j, o : j = JobAt(w) /\ o = worker[w].attempt
        OBVIOUS
    <2>1. /\ Follows(w) /\ worker[w].pc \in Calling
          /\ worker'[w].job = j /\ worker'[w].attempt = o
        BY DEF Follows, JobAt
    <2>2. j \in Jobs
        BY <2>1, CallsAreJobs
    <2>3. /\ o \in DOMAIN attempts[j]
          /\ job[j].token = w => o = Len(attempts[j])
          /\ Unsubmitted(worker[w]) => o \notin sent[j]
        BY <2>1 DEF SentInv, CallKnown
    <2>4. o \in DOMAIN attempts'[j] /\ Len(attempts'[j]) = Len(attempts[j])
        BY <2>2, <2>3 DEF SentStays
    <2>5. job'[j].token = w => job[j].token = w
        BY <2>1, <2>2 DEF Follows
    <2>6. Unsubmitted(worker'[w]) => o \notin sent'[j]
        BY <2>1, <2>3 DEF Follows
    <2>7. worker'[w].pc \in {"marked", "submit"} => MaybeTransmitted(attempts'[j][o])
        BY <2>1 DEF Follows
    <2>8. JobAt(w)' = j
        BY <2>1 DEF JobAt
    <2> QED
        BY <2>1, <2>3, <2>4, <2>5, <2>6, <2>7, <2>8 DEF CallKnown
<1>3. ASSUME NEW v \in Tokens, NEW w \in Tokens, v # w PROVE OwnCall(v, w)'
    BY <1>3 DEF SentInv, OwnCall, Follows, JobAt
<1> QED
    BY <1>1, <1>2, <1>3 DEF SentInv

\* What stays on record stays on record as sent.
LEMMA RecordedStays ==
    ASSUME SentInv, NEW k \in Jobs, Recorded(k)
    PROVE  SentStays(k)
BY DEF SentInv, SentKnown, Recorded, SentStays

\* A worker that does not move follows, unless the step takes back what it marked or
\* hands it a lease.
LEMMA StandingFollows ==
    ASSUME SentInv, ServiceTypeOK, NEW v \in Tokens, worker'[v] = worker[v],
           \A k \in Jobs : Recorded(k) /\ (job'[k].token = v => job[k].token = v)
    PROVE  Follows(v)
<1> SUFFICES ASSUME worker[v].pc \in Calling PROVE Follows(v)
    BY DEF Follows
<1>1. JobAt(v) \in Jobs /\ CallKnown(v) /\ Recorded(JobAt(v))
    BY CallsAreJobs DEF SentInv
<1> QED
    BY <1>1 DEF Follows, CallKnown, Recorded

\* A transaction that gives no lease away makes nobody a holder.
LEMMA HandsNobody ==
    ASSUME NEW k, Hands(k), NEW v \in Tokens, job'[k].token = v
    PROVE  job[k].token = v
BY RepositoryAssumption DEF Hands

\* Steps in which no worker moves, or only to rest.
LEMMA RestingKeepsSent ==
    ASSUME SentInv, ServiceTypeOK, sent' = sent,
           \A k \in Jobs : Recorded(k) /\ Hands(k),
           \A v \in Tokens : worker'[v] = worker[v] \/ worker'[v].pc \notin Calling
    PROVE  SentInv'
<1>1. \A v \in Tokens : Follows(v)
    <2> TAKE v \in Tokens
    <2>1. CASE worker'[v] = worker[v]
        BY <2>1, StandingFollows, HandsNobody
    <2>2. CASE worker'[v].pc \notin Calling
        BY <2>2 DEF Follows
    <2> QED
        BY <2>1, <2>2
<1> QED
    BY <1>1, FollowingKeepsSent, RecordedStays

\* Steps in which one worker moves to a point outside its call, or stays in it.
LEMMA MovingKeepsSent ==
    ASSUME SentInv, ServiceTypeOK, sent' = sent, NEW w \in Tokens, NEW row,
           worker' = [worker EXCEPT ![w] = row], Follows(w),
           \A k \in Jobs : Recorded(k) /\ job'[k].token \in {job[k].token, NoToken, w}
    PROVE  SentInv'
<1>1. ASSUME NEW v \in Tokens PROVE Follows(v)
    <2>1. CASE v # w
        <3>1. worker'[v] = worker[v]
            BY <2>1 DEF ServiceTypeOK, WorkersOK
        <3>2. \A k \in Jobs : job'[k].token = v => job[k].token = v
            BY <2>1, RepositoryAssumption
        <3> QED
            BY <3>1, <3>2, StandingFollows
    <2> QED
        BY <2>1
<1> QED
    BY <1>1, FollowingKeepsSent, RecordedStays

\* A step without a transaction takes nothing back and hands out nothing.
LEMMA NothingRecorded ==
    ASSUME RepoTypeOK, UNCHANGED repoVars, NEW k \in Jobs
    PROVE  Recorded(k) /\ Hands(k)
BY SameRecorded DEF repoVars, Hands

\* Steps that take one worker out of its call keep the invariant.
LEMMA WorkerRests ==
    ASSUME SentInv, ServiceTypeOK, sent' = sent, NEW w \in Tokens, NEW row,
           worker' = [worker EXCEPT ![w] = row], row.pc \notin Calling,
           \A k \in Jobs : Recorded(k) /\ job'[k].token \in {job[k].token, NoToken, w}
    PROVE  SentInv'
<1>1. worker'[w] = row
    BY DEF ServiceTypeOK, WorkersOK
<1>2. Follows(w)
    BY <1>1 DEF Follows
<1> QED
    BY <1>2, MovingKeepsSent

\* So does a refusal: the worker gives up its job.
LEMMA RefusedRests ==
    ASSUME SentInv, ServiceTypeOK, RepoTypeOK, NEW w \in Tokens, Refused(w)
    PROVE  SentInv'
<1> PICK row : row = [worker[w] EXCEPT !.pc = "release", !.quit = TRUE]
    OBVIOUS
<1>1. worker' = [worker EXCEPT ![w] = row] /\ sent' = sent /\ UNCHANGED repoVars
    BY DEF Refused, Raise
<1>2. row.pc = "release"
    BY DEF ServiceTypeOK, WorkersOK, WorkerRow
<1> QED
    BY <1>1, <1>2, NothingRecorded, WorkerRests DEF Calling, Hands

\* A step takes worker w to a point outside a call.
Leaves(w) == \E row \in WorkerRow : worker' = [worker EXCEPT ![w] = row] /\ row.pc \notin Calling

\* Moving on to a point outside a call leaves it.
LEMMA GoesOut ==
    ASSUME ServiceTypeOK, NEW w \in Tokens, NEW pc \in Point \ Calling, Goto(w, pc)
    PROVE  Leaves(w)
<1> PICK row : row = [worker[w] EXCEPT !.pc = pc]
    OBVIOUS
<1>1. row \in WorkerRow /\ row.pc = pc
    BY DEF ServiceTypeOK, WorkersOK, WorkerRow
<1> QED
    BY <1>1 DEF Leaves, Goto

\* So does going on to finalize the job ...
LEMMA FinishesOut ==
    ASSUME ServiceTypeOK, NEW w \in Tokens, NEW res \in Resolution, Finish(w, res)
    PROVE  Leaves(w)
<1> PICK row : row = [worker[w] EXCEPT !.pc = "finish", !.end = res]
    OBVIOUS
<1>1. row \in WorkerRow /\ row.pc = "finish"
    BY DEF ServiceTypeOK, WorkersOK, WorkerRow, Point
<1> QED
    BY <1>1 DEF Leaves, Finish, Calling

\* ... and going on to reserve a further call.
LEMMA ReservesOut ==
    ASSUME ServiceTypeOK, NEW w \in Tokens, NEW kind \in Kinds,
           worker' = [worker EXCEPT ![w].pc = "reserve", ![w].kind = kind]
    PROVE  Leaves(w)
<1> PICK row : row = [worker[w] EXCEPT !.pc = "reserve", !.kind = kind]
    OBVIOUS
<1>1. row \in WorkerRow /\ row.pc = "reserve"
    BY DEF ServiceTypeOK, WorkersOK, WorkerRow, Point
<1> QED
    BY <1>1 DEF Leaves, Calling

\* Of the steps of a worker after its call, each is refused or leads on, outside a call.
LEMMA LateStepsLeave ==
    ASSUME ServiceTypeOK, NEW w \in Tokens,
           \/ Refuse(w) \/ Record(w) \/ Continue(w)
           \/ Store(w) \/ FinishJob(w) \/ Publish(w)
    PROVE  Refused(w) \/ (Leaves(w) /\ sent' = sent)
<1>0. /\ {"continue", "store", "publish", "release"} \subseteq Point \ Calling
      /\ {"structural", "accepted"} \subseteq Resolution
      /\ ContinuationKinds \subseteq Kinds
      /\ {"refusal_fallback", "replacement_review"} \subseteq ContinuationKinds
    BY DEF Point, Calling, Resolution, Kinds, ContinuationKinds
<1>1. CASE Refuse(w)
    <2>1. ASSUME worker' = [worker EXCEPT ![w].pc = "finish", ![w].end = "structural"]
          PROVE  Leaves(w)
        BY <1>0, <2>1, FinishesOut DEF Finish
    <2> QED
        BY <1>0, <1>1, <2>1, ReservesOut DEF Refuse, Service
<1>2. ASSUME AfterValidation(w) PROVE Leaves(w)
    BY <1>0, <1>2, FinishesOut, GoesOut DEF AfterValidation
<1>3. CASE Record(w)
    BY <1>0, <1>2, <1>3, GoesOut DEF Record, Service
<1>4. CASE Continue(w)
    BY <1>0, <1>2, <1>4, ReservesOut DEF Continue, Service
<1>5. CASE Store(w)
    BY <1>0, <1>5, FinishesOut DEF Store, Service
<1>6. CASE FinishJob(w)
    BY <1>0, <1>6, GoesOut DEF FinishJob, AfterFinish, Service, OnlyWorker
<1>7. CASE Publish(w)
    BY <1>0, <1>7, GoesOut DEF Publish, Service
<1> QED
    BY <1>1, <1>3, <1>4, <1>5, <1>6, <1>7

\* The steps after a call keep the invariant.
LEMMA LateStepsKeepSent ==
    ASSUME SentInv, ServiceTypeOK, CacheInv, FateInv, NEW w \in Tokens,
           \/ Refuse(w) \/ Record(w) \/ Continue(w)
           \/ Store(w) \/ FinishJob(w) \/ Publish(w)
    PROVE  SentInv'
<1>1. RepoTypeOK
    BY DEF FateInv
<1>2. \A k \in Jobs : Recorded(k) /\ Hands(k)
    BY <1>1, JobCalls, JobCallSteps, JobStepRecords, NothingRecorded DEF JobCall
<1>3. CASE Leaves(w) /\ sent' = sent
    BY <1>2, <1>3, WorkerRests DEF Leaves, Hands
<1> QED
    BY <1>1, <1>3, LateStepsLeave, RefusedRests

\* The steps before a call.
LEMMA EarlyStepsKeepSent ==
    ASSUME SentInv, ServiceTypeOK, FateInv, NEW w \in Tokens,
           Poll(w) \/ Claim(w) \/ Held(w) \/ Release(w) \/ Lookup(w)
    PROVE  SentInv'
<1>0. /\ RepoTypeOK /\ worker[w] \in WorkerRow /\ WorkerRun[w] \in Runs
      /\ "structural" \in Resolution /\ "cancelled" \in Resolution
      /\ {"claim", "lookup", "reserve"} \subseteq Point \ Calling
    BY WorkflowAssumption DEF FateInv, ServiceTypeOK, WorkersOK, Resolution, Point, Calling
<1>1. Idle.pc \notin Calling /\ [Idle EXCEPT !.pc = "poll"].pc \notin Calling
    BY DEF Idle, Calling
<1>a. ASSUME UNCHANGED repoVars, sent' = sent, Leaves(w) PROVE SentInv'
    BY <1>0, <1>a, NothingRecorded, WorkerRests DEF Leaves, Hands
<1>b. ASSUME UNCHANGED repoVars, sent' = sent, worker' = [worker EXCEPT ![w] = Idle]
      PROVE  SentInv'
    BY <1>0, <1>1, <1>b, NothingRecorded, WorkerRests DEF Hands
<1>2. CASE Poll(w)
    BY <1>0, <1>2, <1>a, <1>b, GoesOut DEF Poll, OnlyWorker, repoVars
<1>3. CASE Claim(w)
    <2>1. \A k \in Jobs : Recorded(k) /\ job'[k].token \in {job[k].token, NoToken, w}
        BY <1>0, <1>3, ClaimRecords DEF Claim
    <2>2. PICK row : worker' = [worker EXCEPT ![w] = row] /\ row.pc \notin Calling
        <3>1. ASSUME NEW j \in Jobs
              PROVE  [Idle EXCEPT !.pc = "held", !.job = j, !.kind = ResumeKind(j)].pc
                        \notin Calling
            BY DEF Idle, Calling
        <3> QED
            BY <1>1, <1>3, <3>1 DEF Claim
    <2> QED
        BY <1>3, <2>1, <2>2, WorkerRests DEF Claim, Service
<1>4. CASE Held(w)
    <2>1. ASSUME worker' = [worker EXCEPT ![w].pc = "release", ![w].quit = TRUE]
          PROVE  Leaves(w)
        <3> PICK row : row = [worker[w] EXCEPT !.pc = "release", !.quit = TRUE]
            OBVIOUS
        <3>1. row \in WorkerRow /\ row.pc = "release"
            BY <1>0 DEF WorkerRow, Point
        <3> QED
            BY <2>1, <3>1 DEF Leaves, Calling
    <2>2. Leaves(w)
        BY <1>0, <1>4, <2>1, FinishesOut, GoesOut DEF Held
    <2> QED
        BY <1>4, <1>a, <2>2 DEF Held, OnlyWorker, repoVars
<1>5. CASE Release(w)
    <2>1. JobAt(w) \in Jobs
        BY <1>5 DEF Release, AtPoint, ServiceTypeOK, WorkersOK, Prepared, Free, JobAt, JobsOf
    <2>2. \A k \in Jobs : Recorded(k) /\ Hands(k)
        BY <1>0, <1>5, <2>1, HolderRecords, NothingRecorded DEF Release, OnlyWorker, repoVars
    <2>3. \/ worker' = [worker EXCEPT ![w] = Idle]
          \/ worker' = [worker EXCEPT ![w] = [Idle EXCEPT !.pc = "poll"]]
        BY <1>5 DEF Release
    <2>4. sent' = sent
        BY <1>5 DEF Release, Service, OnlyWorker
    <2> QED
        BY <1>1, <2>2, <2>3, <2>4, WorkerRests DEF Hands
<1>6. CASE Lookup(w)
    <2>1. ASSUME NEW k, UseCached(w, k), cache[k] \in Results, k \in Keys
          PROVE  Leaves(w)
        <3>1. CASE Finish(w, "structural")
            BY <1>0, <3>1, FinishesOut
        <3>2. CASE ~Finish(w, "structural")
            <4> PICK row : row = [worker[w] EXCEPT !.pc = "record", !.cached = TRUE, !.key = k,
                                                   !.reply = cache[k]]
                OBVIOUS
            <4>1. row \in WorkerRow /\ row.pc = "record"
                BY <1>0, <2>1 DEF WorkerRow, Point, Reply, SentReply, ResultReply
            <4>2. worker' = [worker EXCEPT ![w] = row]
                BY <2>1, <3>2 DEF UseCached
            <4> QED
                BY <4>1, <4>2 DEF Leaves, Calling
        <3> QED
            BY <3>1, <3>2
    <2> PICK k : k = LookupKey(JobAt(w))
        OBVIOUS
    <2>2. k \in Keys
        BY <1>6, LookupTyped DEF Lookup, AtPoint, ServiceTypeOK, WorkersOK, Prepared, Free, JobAt,
              JobsOf
    <2>3. cache[k] # NoResult => cache[k] \in Results
        BY <1>0, <2>2 DEF RepoTypeOK
    <2>4. Refused(w) \/ (Leaves(w) /\ OnlyWorker)
        BY <1>0, <1>6, <2>1, <2>2, <2>3, FinishesOut, GoesOut DEF Lookup
    <2> QED
        BY <1>0, <1>a, <2>4, RefusedRests DEF OnlyWorker, repoVars
<1> QED
    BY <1>2, <1>3, <1>4, <1>5, <1>6

\* The steps of a call before it is made, without a transaction.
LEMMA PreparingKeepsSent ==
    ASSUME SentInv, ServiceTypeOK, FateInv, NEW w \in Tokens, Prepare(w) \/ Marked(w)
    PROVE  SentInv'
<1>0. /\ RepoTypeOK /\ worker[w] \in WorkerRow /\ CallKnown(w)
      /\ UNCHANGED repoVars /\ sent' = sent
    BY DEF FateInv, ServiceTypeOK, WorkersOK, SentInv, Prepare, Marked, OnlyWorker, repoVars
<1>1. PICK row : /\ worker' = [worker EXCEPT ![w] = row]
                 /\ row.job = worker[w].job /\ row.attempt = worker[w].attempt
                 /\ row.pc \in {"complete", "mark", "submit"}
                 /\ row.pc = "submit" => worker[w].pc = "marked"
    <2> PICK old : old = worker[w]
        OBVIOUS
    <2>1. \/ worker' = [worker EXCEPT ![w] = [old EXCEPT !.pc = "complete", !.reply = "unsent"]]
          \/ worker' = [worker EXCEPT ![w] = [old EXCEPT !.pc = "complete", !.reply = "withdrawn"]]
          \/ worker' = [worker EXCEPT ![w] = [old EXCEPT !.pc = "mark"]]
          \/ /\ worker' = [worker EXCEPT ![w] = [old EXCEPT !.pc = "submit"]]
             /\ old.pc = "marked"
        BY DEF Prepare, Marked, AtPoint
    <2>2. CASE worker' = [worker EXCEPT ![w] = [old EXCEPT !.pc = "complete", !.reply = "unsent"]]
        <3> PICK row : row = [old EXCEPT !.pc = "complete", !.reply = "unsent"]
            OBVIOUS
        <3>1. /\ row.job = old.job /\ row.attempt = old.attempt
              /\ row.pc = "complete"
            BY <1>0 DEF WorkerRow
        <3> QED
            BY <2>2, <3>1
    <2>3. CASE worker' = [worker EXCEPT ![w] = [old EXCEPT !.pc = "complete", !.reply = "withdrawn"]]
        <3> PICK row : row = [old EXCEPT !.pc = "complete", !.reply = "withdrawn"]
            OBVIOUS
        <3>1. /\ row.job = old.job /\ row.attempt = old.attempt
              /\ row.pc = "complete"
            BY <1>0 DEF WorkerRow
        <3> QED
            BY <2>3, <3>1
    <2>4. CASE worker' = [worker EXCEPT ![w] = [old EXCEPT !.pc = "mark"]]
        <3> PICK row : row = [old EXCEPT !.pc = "mark"]
            OBVIOUS
        <3>1. /\ row.job = old.job /\ row.attempt = old.attempt
              /\ row.pc = "mark"
            BY <1>0 DEF WorkerRow
        <3> QED
            BY <2>4, <3>1
    <2>5. CASE worker' = [worker EXCEPT ![w] = [old EXCEPT !.pc = "submit"]] /\ old.pc = "marked"
        <3> PICK row : row = [old EXCEPT !.pc = "submit"]
            OBVIOUS
        <3>1. /\ row.job = old.job /\ row.attempt = old.attempt
              /\ row.pc = "submit"
            BY <1>0 DEF WorkerRow
        <3> QED
            BY <2>5, <3>1
    <2> QED
        BY <2>1, <2>2, <2>3, <2>4, <2>5
<1>2. worker'[w] = row
    BY <1>1 DEF ServiceTypeOK, WorkersOK
<1>3. worker[w].pc \in {"reserved", "marked"}
    BY DEF Prepare, Marked, AtPoint
<1>4. JobAt(w) \in Jobs
    BY <1>3, CallsAreJobs DEF Calling
<1>5. attempts' = attempts /\ job' = job
    BY <1>0 DEF repoVars
<1>6. Follows(w)
    BY <1>0, <1>1, <1>2, <1>3, <1>4, <1>5 DEF Follows, Calling, Unsubmitted, CallKnown
<1> QED
    BY <1>0, <1>1, <1>6, NothingRecorded, MovingKeepsSent DEF Hands

\* mark_transmitting puts the call on record before the request can leave.
LEMMA MarkKeepsSent ==
    ASSUME SentInv, ServiceTypeOK, FateInv, NEW w \in Tokens, Mark(w)
    PROVE  SentInv'
<1>0. /\ RepoTypeOK /\ worker[w] \in WorkerRow /\ CallKnown(w) /\ worker[w].pc = "mark"
      /\ JobAt(w) \in Jobs
    BY CallsAreJobs DEF FateInv, ServiceTypeOK, WorkersOK, SentInv, Mark, AtPoint, Calling
<1>1. CASE MarkTransmitting(w, JobAt(w)) /\ Goto(w, "marked") /\ Service
    <2> PICK row : row = [worker[w] EXCEPT !.pc = "marked"]
        OBVIOUS
    <2> PICK j, o : j = JobAt(w) /\ o = worker[w].attempt
        OBVIOUS
    <2>1. /\ worker' = [worker EXCEPT ![w] = row] /\ worker'[w] = row
          /\ row.job = worker[w].job /\ row.attempt = worker[w].attempt /\ row.pc = "marked"
        BY <1>0, <1>1 DEF Goto, WorkerRow, ServiceTypeOK, WorkersOK
    <2>2. job[j].token = w /\ Attempted(j)
        BY <1>1 DEF MarkTransmitting, MayMark, HoldsClaim, LatestIs
    <2>3. o = Len(attempts[j]) /\ o \in DOMAIN attempts[j] /\ Latest(j) \in AttemptRow
        BY <1>0, <2>2, LatestTyped DEF CallKnown, Calling, RepoTypeOK
    <2>4. attempts'[j] = [attempts[j] EXCEPT ![o] = [Latest(j) EXCEPT !.status = "transmitting",
                                                      !.disposition = "indeterminate"]]
        BY <1>0, <1>1, <2>3 DEF MarkTransmitting, WithLatest, RepoTypeOK
    <2>5. attempts'[j][o] = [Latest(j) EXCEPT !.status = "transmitting",
                                              !.disposition = "indeterminate"]
        BY <1>0, <2>3, <2>4 DEF RepoTypeOK
    <2>6. MaybeTransmitted(attempts'[j][o])
        BY <2>3, <2>5 DEF MaybeTransmitted, AttemptRow
    <2>7. \A k \in Jobs : Recorded(k) /\ Hands(k)
        BY <1>0, <1>1, HolderRecords
    <2>8. \A k \in Jobs : job'[k].token = w => job[k].token = w
        BY <2>7, HandsNobody
    <2>9. Follows(w)
        BY <1>0, <2>1, <2>6, <2>8 DEF Follows, Calling, Unsubmitted
    <2> QED
        BY <1>1, <2>1, <2>7, <2>9, MovingKeepsSent DEF Service, Hands
<1>2. CASE /\ worker' = [worker EXCEPT ![w].pc = "complete", ![w].reply = "withdrawn"]
           /\ OnlyWorker
    <2> PICK row : row = [worker[w] EXCEPT !.pc = "complete", !.reply = "withdrawn"]
        OBVIOUS
    <2>1. /\ worker' = [worker EXCEPT ![w] = row] /\ worker'[w] = row
          /\ row.job = worker[w].job /\ row.attempt = worker[w].attempt /\ row.pc = "complete"
        BY <1>0, <1>2 DEF WorkerRow, ServiceTypeOK, WorkersOK
    <2>2. UNCHANGED repoVars /\ job' = job /\ sent' = sent
        BY <1>2 DEF OnlyWorker, repoVars
    <2>3. Follows(w)
        BY <1>0, <2>1, <2>2 DEF Follows, Calling, Unsubmitted
    <2> QED
        BY <1>0, <2>1, <2>2, <2>3, NothingRecorded, MovingKeepsSent DEF Hands
<1> QED
    BY <1>0, <1>1, <1>2, RefusedRests DEF Mark

\* The external call: what leaves is on record, and no other worker has that attempt.
LEMMA SubmitKeepsSent ==
    ASSUME SentInv, ServiceTypeOK, FateInv, NEW w \in Tokens, Submit(w)
    PROVE  SentInv'
<1> PICK j, o : j = JobAt(w) /\ o = worker[w].attempt
    OBVIOUS
<1>0. /\ RepoTypeOK /\ worker[w] \in WorkerRow /\ CallKnown(w) /\ worker[w].pc = "submit"
      /\ j \in Jobs /\ UNCHANGED repoVars
    BY CallsAreJobs DEF FateInv, ServiceTypeOK, WorkersOK, SentInv, Submit, AtPoint, Calling,
          repoVars
<1>1. PICK reply \in Reply \ {"none"} :
         /\ worker' = [worker EXCEPT ![w] = [worker[w] EXCEPT !.pc = "complete", !.reply = reply]]
         /\ \/ sent' = sent
            \/ /\ reply \in SentReply \/ reply = "uncertain"
               /\ sent' = [sent EXCEPT ![j] = sent[j] \cup {o}]
    BY DEF Submit
<1> PICK row : row = [worker[w] EXCEPT !.pc = "complete", !.reply = reply]
    OBVIOUS
<1>2. /\ worker' = [worker EXCEPT ![w] = row] /\ worker'[w] = row
      /\ row.job = j /\ row.attempt = o /\ row.pc = "complete" /\ row.reply = reply
    BY <1>0, <1>1 DEF ServiceTypeOK, WorkersOK, WorkerRow, JobAt
<1>3. \A v \in Tokens : v # w => worker'[v] = worker[v]
    BY <1>2 DEF ServiceTypeOK, WorkersOK
<1>4. attempts' = attempts /\ job' = job
    BY <1>0 DEF repoVars
<1>5. /\ o \in DOMAIN attempts[j] /\ MaybeTransmitted(attempts[j][o]) /\ o \notin sent[j]
      /\ job[j].token = w => o = Len(attempts[j])
    BY <1>0 DEF CallKnown, Calling, Unsubmitted
<1>6. CASE sent' = sent
    <2>1. Follows(w)
        BY <1>0, <1>2, <1>4 DEF Follows, Calling, Unsubmitted, JobAt
    <2> QED
        BY <1>0, <1>2, <1>6, <2>1, NothingRecorded, MovingKeepsSent DEF Hands
<1>7. CASE /\ reply \in SentReply \/ reply = "uncertain"
           /\ sent' = [sent EXCEPT ![j] = sent[j] \cup {o}]
    <2>0. /\ sent'[j] = sent[j] \cup {o}
          /\ \A k \in Jobs : k # j => sent'[k] = sent[k]
        BY <1>0, <1>7 DEF ServiceTypeOK, PoolsOK
    <2>1. SentKnown'
        <3> SUFFICES ASSUME NEW k \in Jobs, NEW a \in sent'[k]
                     PROVE  a \in DOMAIN attempts[k] /\ MaybeTransmitted(attempts[k][a])
            BY <1>4 DEF SentKnown
        <3>1. a \in sent[k] \/ (k = j /\ a = o)
            BY <2>0
        <3> QED
            BY <1>5, <3>1 DEF SentInv, SentKnown
    <2>2. ~Unsubmitted(row)
        BY <1>2, <1>7 DEF Unsubmitted, DispositionOf
    <2>3. ASSUME NEW v \in Tokens PROVE CallKnown(v)'
        <3>1. CASE v = w
            BY <1>2, <1>4, <1>5, <2>2, <3>1 DEF CallKnown, JobAt
        <3>2. CASE v # w
            <4> SUFFICES ASSUME worker[v].pc \in Calling PROVE CallKnown(v)'
                BY <1>3, <3>2 DEF CallKnown
            <4>1. CallKnown(v) /\ JobAt(v) \in Jobs
                BY CallsAreJobs DEF SentInv
            <4>2. JobAt(v) = j => worker[v].attempt # o
                BY <1>0, <3>2 DEF SentInv, OwnCall, Calling, JobAt
            <4>3. worker[v].attempt \notin sent[JobAt(v)]
                     => worker[v].attempt \notin sent'[JobAt(v)]
                BY <2>0, <4>1, <4>2
            <4>4. worker'[v] = worker[v] /\ JobAt(v)' = JobAt(v)
                BY <1>3, <3>2 DEF JobAt
            <4> QED
                BY <1>4, <4>1, <4>3, <4>4 DEF CallKnown
        <3> QED
            BY <3>1, <3>2
    <2>4. ASSUME NEW u \in Tokens, NEW v \in Tokens, u # v PROVE OwnCall(u, v)'
        <3>1. \A x \in Tokens :
                 /\ worker'[x].job = worker[x].job
                 /\ worker'[x].attempt = worker[x].attempt
                 /\ worker'[x].pc \in Calling => worker[x].pc \in Calling
            BY <1>0, <1>2, <1>3 DEF JobAt, Calling
        <3>2. OwnCall(u, v)
            BY <2>4 DEF SentInv
        <3> QED
            BY <3>1, <3>2 DEF OwnCall, JobAt
    <2> QED
        BY <2>1, <2>3, <2>4 DEF SentInv
<1> QED
    BY <1>1, <1>6, <1>7

\* Where a worker goes after its call.
LEMMA AfterCallLeaves ==
    ASSUME ServiceTypeOK, NEW w \in Tokens, AtPoint(w, "complete"), AfterCall(w)
    PROVE  Leaves(w)
<1>0. /\ worker[w].reply # "none" /\ worker[w].reply \in Reply /\ worker[w] \in WorkerRow
      /\ JobAt(w) \in Jobs
    BY CallsAreJobs DEF ServiceTypeOK, WorkersOK, Prepared, AtPoint, WorkerRow, Calling
<1>1. /\ "refuse" \in Point \ Calling
      /\ {"structural", "resumable", "indeterminate", "cancelled"} \subseteq Resolution
    BY DEF Point, Calling, Resolution
<1>2. ASSUME worker' = [worker EXCEPT ![w].pc = "record",
                         ![w].key = IF worker[w].kind = "refusal_fallback"
                                    THEN LocalKey[JobAt(w)] ELSE CacheKey[JobAt(w)]]
      PROVE  Leaves(w)
    <2> PICK k : k = IF worker[w].kind = "refusal_fallback"
                     THEN LocalKey[JobAt(w)] ELSE CacheKey[JobAt(w)]
        OBVIOUS
    <2> PICK row : row = [worker[w] EXCEPT !.pc = "record", !.key = k]
        OBVIOUS
    <2>1. k \in Keys
        BY <1>0, RepositoryAssumption, WorkflowAssumption
    <2>2. row \in WorkerRow /\ row.pc = "record"
        BY <1>0, <2>1 DEF WorkerRow, Point
    <2>3. worker' = [worker EXCEPT ![w] = row]
        BY <1>2
    <2> QED
        BY <2>2, <2>3 DEF Leaves, Calling
<1> QED
    BY <1>0, <1>1, <1>2, GoesOut, FinishesOut
       DEF AfterCall, Reply, SentReply, UnsentReply, ResultReply

\* complete_attempt takes back an attempt only for the worker that did not submit it.
LEMMA CompleteKeepsSent ==
    ASSUME SentInv, ServiceTypeOK, FateInv, NEW w \in Tokens, Complete(w)
    PROVE  SentInv'
<1> PICK j, o, d : j = JobAt(w) /\ o = worker[w].attempt /\ d = DispositionOf(worker[w].reply)
    OBVIOUS
<1>0. /\ RepoTypeOK /\ CallKnown(w) /\ worker[w].pc = "complete" /\ j \in Jobs
      /\ d \in Disposition \ {"not_started"}
    BY CallsAreJobs DEF FateInv, SentInv, Complete, AtPoint, Calling, DispositionOf, Disposition
<1>1. ASSUME Completes(w, j, d), AfterCall(w), Service
      PROVE  SentInv'
    <2>1. PICK row : worker' = [worker EXCEPT ![w] = row] /\ row.pc \notin Calling
        BY <1>0, <1>1, AfterCallLeaves DEF Leaves, AtPoint
    <2>2. ASSUME NEW k \in Jobs
          PROVE  /\ Hands(k)
                 /\ \/ Recorded(k)
                    \/ /\ k = j /\ d = "definitely_not_transmitted"
                       /\ job[j].token = w /\ EarlierStay(j)
        BY <1>0, <1>1, CompletionRecords
    <2>3. CASE \A k \in Jobs : Recorded(k)
        BY <1>1, <2>1, <2>2, <2>3, WorkerRests DEF Service, Hands
    <2>4. CASE ~(\A k \in Jobs : Recorded(k))
        <3>1. /\ d = "definitely_not_transmitted" /\ job[j].token = w /\ EarlierStay(j)
              /\ \A k \in Jobs : k # j => Recorded(k)
            BY <2>2, <2>4
        <3>2. o = Len(attempts[j]) /\ o \notin sent[j]
            BY <1>0, <3>1 DEF CallKnown, Calling, Unsubmitted
        <3>3. ASSUME NEW k \in Jobs PROVE SentStays(k)
            <4>1. CASE k = j
                BY <3>1, <3>2, <4>1 DEF EarlierStay, SentStays, SentInv, SentKnown
            <4>2. CASE k # j
                BY <3>1, <4>2, RecordedStays
            <4> QED
                BY <4>1, <4>2
        <3>4. ASSUME NEW v \in Tokens PROVE Follows(v)
            <4>1. CASE v = w
                BY <2>1, <4>1 DEF Follows, ServiceTypeOK, WorkersOK
            <4>2. CASE v # w
                <5> SUFFICES ASSUME worker[v].pc \in Calling PROVE Follows(v)
                    BY <2>1, <4>2 DEF Follows, ServiceTypeOK, WorkersOK
                <5>1. worker'[v] = worker[v] /\ CallKnown(v) /\ JobAt(v) \in Jobs
                    BY <2>1, <4>2, CallsAreJobs DEF SentInv, ServiceTypeOK, WorkersOK
                <5>2. JobAt(v) = j => worker[v].attempt # o
                    BY <1>0, <4>2 DEF SentInv, OwnCall, Calling, JobAt
                <5>3. \A k \in Jobs : job'[k].token = v => job[k].token = v
                    BY <2>2, HandsNobody
                <5>4. worker[v].pc \in {"marked", "submit"}
                        => MaybeTransmitted(attempts'[JobAt(v)][worker[v].attempt])
                    <6>1. CASE JobAt(v) = j
                        BY <3>1, <3>2, <5>1, <5>2, <6>1 DEF EarlierStay, CallKnown
                    <6>2. CASE JobAt(v) # j
                        BY <3>1, <5>1, <6>2 DEF CallKnown, Recorded
                    <6> QED
                        BY <6>1, <6>2
                <5> QED
                    BY <5>1, <5>3, <5>4 DEF Follows
            <4> QED
                BY <4>1, <4>2
        <3> QED
            BY <1>1, <3>3, <3>4, FollowingKeepsSent DEF Service
    <2> QED
        BY <2>3, <2>4
<1> QED
    BY <1>0, <1>1, RefusedRests DEF Complete, Completes

\* A reservation gives the worker an attempt that nobody has and that did not leave.
LEMMA ReserveKeepsSent ==
    ASSUME SentInv, ServiceTypeOK, FateInv, NEW w \in Tokens, Reserve(w)
    PROVE  SentInv'
<1> PICK j, kind, n : j = JobAt(w) /\ kind = worker[w].kind /\ n = Len(attempts[JobAt(w)])
    OBVIOUS
<1>0. /\ RepoTypeOK /\ worker[w] \in WorkerRow /\ j \in Jobs /\ kind \in Kinds
      /\ n = Len(attempts[j])
    BY DEF FateInv, ServiceTypeOK, WorkersOK, Prepared, WorkerRow, Reserve, AtPoint, Free, JobAt,
           JobsOf
<1>1. CASE /\ ReserveAttempt(w, j, kind)
           /\ worker' = [worker EXCEPT ![w].pc = "reserved", ![w].attempt = Ordinal(j)]
           /\ Service
    <2> PICK row : row = [worker[w] EXCEPT !.pc = "reserved", !.attempt = n + 1]
        OBVIOUS
    <2>1. /\ worker' = [worker EXCEPT ![w] = row] /\ worker'[w] = row
          /\ row.job = j /\ row.attempt = n + 1 /\ row.pc = "reserved"
        BY <1>0, <1>1 DEF ServiceTypeOK, WorkersOK, WorkerRow, JobAt, Ordinal
    <2>2. \A v \in Tokens : v # w => worker'[v] = worker[v]
        BY <2>1 DEF ServiceTypeOK, WorkersOK
    <2>3. sent' = sent
        BY <1>1 DEF Service
    <2>4. /\ job[j].token = w
          /\ \A k \in Jobs : job'[k].token = job[k].token
        BY <1>0, <1>1 DEF ReserveAttempt, CanReserve, HoldsClaim, RepoTypeOK, JobRow
    <2>5. /\ \A k \in Jobs : k # j => attempts'[k] = attempts[k]
          /\ Len(attempts'[j]) = n + 1 /\ n \in Nat
          /\ DOMAIN attempts[j] = 1..n /\ DOMAIN attempts'[j] = 1..(n + 1)
        <3>1. attempts[j] \in Seq(AttemptRow)
            BY <1>0 DEF RepoTypeOK
        <3>2. n \in Nat
            BY <1>0, <3>1
        <3> QED
            BY <1>0, <1>1, <3>2, ReserveAppends
    <2>6. ASSUME NEW k \in Jobs, NEW o \in DOMAIN attempts[k]
          PROVE  /\ o \in DOMAIN attempts'[k]
                 /\ MaybeTransmitted(attempts[k][o]) => MaybeTransmitted(attempts'[k][o])
        <3>1. CASE k = j
            <4>1. SpendsAtMost(attempts[j][o], attempts'[j][o])
                BY <1>0, <1>1, <2>6, <3>1, ReserveKeeps
            <4> QED
                BY <2>5, <2>6, <3>1, <4>1 DEF SpendsAtMost, SameFate, MaybeTransmitted
        <3>2. CASE k # j
            BY <2>5, <2>6, <3>2
        <3> QED
            BY <3>1, <3>2
    <2>7. SentKnown'
        BY <2>3, <2>6 DEF SentInv, SentKnown
    <2>8. n + 1 \notin sent[j]
        BY <1>0, <2>5 DEF SentInv, SentKnown
    <2>9. ASSUME NEW v \in Tokens, v # w, worker[v].pc \in Calling
          PROVE  /\ JobAt(v) \in Jobs /\ worker[v].attempt \in DOMAIN attempts[JobAt(v)]
                 /\ JobAt(v) = j => worker[v].attempt # n + 1
        BY <2>5, <2>9, CallsAreJobs DEF SentInv, CallKnown
    <2>10. ASSUME NEW v \in Tokens PROVE CallKnown(v)'
        <3>1. CASE v = w
            <4>1. /\ worker'[w].pc = "reserved" /\ worker'[w].attempt = n + 1
                  /\ JobAt(w)' = j
                BY <2>1 DEF JobAt
            <4>2. n + 1 \in DOMAIN attempts'[j] /\ n + 1 = Len(attempts'[j])
                BY <2>5
            <4>3. n + 1 \notin sent'[j]
                BY <2>3, <2>8
            <4> QED
                BY <3>1, <4>1, <4>2, <4>3 DEF CallKnown
        <3>2. CASE v # w
            <4> SUFFICES ASSUME worker[v].pc \in Calling PROVE CallKnown(v)'
                BY <2>2, <3>2 DEF CallKnown
            <4> PICK i, o : i = JobAt(v) /\ o = worker[v].attempt
                OBVIOUS
            <4>1. CallKnown(v) /\ i \in Jobs /\ o \in DOMAIN attempts[i]
                BY <2>9, <3>2 DEF SentInv
            <4>2. worker'[v] = worker[v] /\ JobAt(v)' = i
                BY <2>2, <3>2 DEF JobAt
            <4>3. job'[i].token = v => o = Len(attempts'[i])
                BY <2>4, <2>5, <3>2, <4>1 DEF CallKnown
            <4>4. worker[v].pc \in {"marked", "submit"} => MaybeTransmitted(attempts'[i][o])
                BY <2>6, <4>1 DEF CallKnown
            <4>5. o \in DOMAIN attempts'[i] /\ (Unsubmitted(worker[v]) => o \notin sent'[i])
                BY <2>3, <2>6, <4>1 DEF CallKnown
            <4> QED
                BY <4>2, <4>3, <4>4, <4>5 DEF CallKnown
        <3> QED
            BY <3>1, <3>2
    <2>a. worker'[w].job = j /\ worker'[w].attempt = n + 1
        BY <2>1
    <2>b. ASSUME NEW v \in Tokens, v # w, worker'[v].pc \in Calling
          PROVE  worker'[v].job = j => worker'[v].attempt # n + 1
        BY <2>2, <2>9, <2>b DEF JobAt
    <2>11. ASSUME NEW u \in Tokens, NEW v \in Tokens, u # v PROVE OwnCall(u, v)'
        <3>1. CASE u # w /\ v # w
            BY <2>2, <2>11, <3>1 DEF SentInv, OwnCall, JobAt
        <3>2. CASE u = w
            BY <2>a, <2>b, <2>11, <3>2 DEF OwnCall, JobAt
        <3>3. CASE v = w
            BY <2>a, <2>b, <2>11, <3>3 DEF OwnCall, JobAt
        <3> QED
            BY <3>1, <3>2, <3>3
    <2> QED
        BY <2>7, <2>10, <2>11 DEF SentInv
<1>2. CASE Finish(w, "structural") /\ OnlyWorker
    <2>1. Leaves(w)
        BY <1>2, FinishesOut DEF Resolution
    <2> QED
        BY <1>0, <1>2, <2>1, NothingRecorded, WorkerRests DEF Leaves, Hands, OnlyWorker, repoVars
<1> QED
    BY <1>0, <1>1, <1>2, RefusedRests DEF Reserve

\* Every step of a worker keeps the invariant.
LEMMA WorkerStepKeepsSent ==
    ASSUME SentInv, ServiceTypeOK, CacheInv, FateInv, NEW w \in Tokens, WorkerStep(w)
    PROVE  SentInv'
BY EarlyStepsKeepSent, ReserveKeepsSent, PreparingKeepsSent, MarkKeepsSent, SubmitKeepsSent,
   CompleteKeepsSent, LateStepsKeepSent DEF WorkerStep

\* The execution starts its workers afresh and calls the repository on its own.
LEMMA PoolStepKeepsSent ==
    ASSUME SentInv, ServiceTypeOK, FateInv, NEW r \in Runs, PoolStep(r)
    PROVE  SentInv'
<1>0. RepoTypeOK
    BY DEF FateInv
<1>1. sent' = sent
    BY DEF PoolStep, Validate, Begin, Drain, NextPhase, RegisterSections, OnlyPool
<1>2. \A v \in Tokens : worker'[v] = worker[v] \/ worker'[v].pc \notin Calling
    <2>1. [Idle EXCEPT !.pc = "poll"].pc \notin Calling
        BY DEF Idle, Calling
    <2> QED
        BY <2>1 DEF PoolStep, Validate, Begin, Drain, NextPhase, RegisterSections, OnlyPool
<1>3. \A k \in Jobs : Recorded(k) /\ Hands(k)
    <2>1. \/ UNCHANGED repoVars \/ RunStep(r)
          \/ \E j \in Jobs : RegisterJob(j)
        <3>1. \A j : j \in Absent(RollupsOf(r)) \/ j \in Absent(SectionsOf(r)) => j \in Jobs
            BY DEF Absent, RollupsOf, SectionsOf, JobsOf
        <3> QED
            BY <3>1 DEF PoolStep, Validate, Begin, Drain, NextPhase, RegisterSections, OnlyPool,
                  RunStep, repoVars
    <2>2. ASSUME NEW j \in Jobs, RegisterJob(j) PROVE JobStep(j)
        BY <2>2 DEF JobStep
    <2> QED
        BY <1>0, <2>1, <2>2, RunStepRecords, JobStepRecords, NothingRecorded
<1> QED
    BY <1>1, <1>2, <1>3, RestingKeepsSent

\* A recovery, even beside live workers, takes back no call on the wire.
LEMMA RecoveryStepKeepsSent ==
    ASSUME SentInv, ServiceTypeOK, CacheInv, FateInv, NEW r \in Runs, RecoveryStep(r)
    PROVE  SentInv'
<1>0. RepoTypeOK
    BY DEF FateInv
<1>1. sent' = sent /\ worker' = worker
    BY DEF RecoveryStep, RecoverLeases, ListJobs, Loop, EndResume, OnlyRecovery
<1>2. \/ UNCHANGED repoVars \/ RunStep(r)
      \/ \E j \in Jobs : JobStep(j)
    <2>1. ASSUME NEW j \in Jobs, First(Chores(r), j), DoChore(r, j)
          PROVE  UNCHANGED repoVars \/ JobStep(j)
        <3>0. recovery[r].chore[j] \in {"defer", "store", "finalize", "publish"}
            BY <2>1 DEF ServiceTypeOK, PoolsOK, First, Chores, Chore
        <3>1. \/ UNCHANGED repoVars \/ DeferResumableJob(j) \/ StoreCache(j)
              \/ FinalizeJob(j, "accepted") \/ PublishJob(j, PublishedForm(j))
            BY <2>1, <3>0 DEF DoChore
        <3> QED
            BY <3>1, PublishesForm, JobCallSteps DEF JobStep, JobCall, Resolution
    <2> QED
        BY <2>1 DEF RecoveryStep, RecoverLeases, ListJobs, Loop, EndResume, RunStep, repoVars
<1>3. \A k \in Jobs : Recorded(k) /\ Hands(k)
    BY <1>0, <1>2, RunStepRecords, JobStepRecords, NothingRecorded
<1> QED
    BY <1>1, <1>3, RestingKeepsSent

\* Neither commands nor crashes and expiries send anything or move a call.
LEMMA OutsideStepKeepsSent ==
    ASSUME SentInv, ServiceTypeOK, FateInv, Command \/ Fault
    PROVE  SentInv'
<1>0. RepoTypeOK
    BY DEF FateInv
<1>1. sent' = sent
    BY DEF Command, Fault, Start, Resume, Cancel, ApproveRetry, Crash, Expire, serviceVars
<1>2. \A v \in Tokens : worker'[v] = worker[v] \/ worker'[v].pc \notin Calling
    <2>1. Idle.pc \notin Calling
        BY DEF Idle, Calling
    <2> QED
        BY <2>1 DEF Command, Fault, Start, Resume, Cancel, ApproveRetry, Crash, Expire, serviceVars
<1>3. \/ UNCHANGED repoVars
      \/ \E r \in Runs : RunStep(r)
      \/ \E j \in Jobs : JobStep(j)
    BY DEF Command, Fault, Start, Resume, Cancel, ApproveRetry, Crash, Expire, RunStep, JobStep,
           repoVars
<1>4. \A k \in Jobs : Recorded(k) /\ Hands(k)
    BY <1>0, <1>3, RunStepRecords, JobStepRecords, NothingRecorded
<1> QED
    BY <1>1, <1>2, <1>4, RestingKeepsSent

\* Every step of the workflow keeps the invariant.
LEMMA NextKeepsSent ==
    ASSUME SentInv, ServiceTypeOK, CacheInv, FateInv, [Next]_vars
    PROVE  SentInv'
<1>1. CASE UNCHANGED vars
    <2>1. UNCHANGED repoVars /\ sent' = sent /\ worker' = worker
        BY <1>1 DEF vars, serviceVars, repoVars
    <2> QED
        BY <2>1, NothingRecorded, RestingKeepsSent DEF FateInv
<1> QED
    BY <1>1, WorkerStepKeepsSent, PoolStepKeepsSent, RecoveryStepKeepsSent, OutsideStepKeepsSent
       DEF Next

-----------------------------------------------------------------------------
(* What holds of the workflow: the repository's own invariants, and SentInv.       *)

WorkflowInv == ServiceTypeOK /\ CacheInv /\ FateInv /\ AccountInv /\ SentInv

\* The workflow starts in the invariant ...
LEMMA InitWorkflow == WorkflowInit => WorkflowInv
<1> SUFFICES ASSUME WorkflowInit PROVE WorkflowInv
    OBVIOUS
<1>1. RepoInit
    BY DEF WorkflowInit
<1>2. ServiceTypeOK /\ FateInv /\ AccountInv
    BY <1>1, InitServiceTyped, InitFates, InitAccounts
<1>3. CacheInv
    BY <1>1, InitTyped DEF RepoInit, FreshJob, CacheInv, CacheSafe
<1>4. SentInv
    <2>1. \A j \in Jobs : sent[j] = {}
        BY DEF WorkflowInit
    <2>2. \A w \in Tokens : worker[w].pc \notin Calling
        BY DEF WorkflowInit, Idle, Calling
    <2> QED
        BY <2>1, <2>2 DEF SentInv, SentKnown, CallKnown, OwnCall
<1> QED
    BY <1>2, <1>3, <1>4 DEF WorkflowInv

\* ... and no step leaves it.
LEMMA NextWorkflow == WorkflowInv /\ [Next]_vars => WorkflowInv'
<1> SUFFICES ASSUME WorkflowInv, [Next]_vars PROVE WorkflowInv'
    OBVIOUS
<1>1. [RepoNext]_repoVars
    BY NextCalls DEF WorkflowInv
<1>2. ServiceTypeOK'
    BY NextServiceTyped DEF WorkflowInv, FateInv
<1>3. CacheInv' /\ FateInv' /\ AccountInv'
    BY <1>1, NextCaches, NextFates, NextAccounts DEF WorkflowInv
<1>4. SentInv'
    BY NextKeepsSent DEF WorkflowInv
<1> QED
    BY <1>2, <1>3, <1>4 DEF WorkflowInv

\* DefinitelyUnsent holds of every execution of the workflow, whatever crashes, expires,
\* is resumed or cancelled under live workers: an attempt the tables call definitely not
\* transmitted never left the process.
THEOREM UnsentIsUnsent == Workflow => []DefinitelyUnsent
<1>1. WorkflowInv => DefinitelyUnsent
    BY DEF WorkflowInv, SentInv, SentKnown, DefinitelyUnsent, MaybeTransmitted
<1> QED
    BY <1>1, InitWorkflow, NextWorkflow, PTL DEF Workflow

\* SentTwiceOnlyIfApproved holds of every execution of the workflow: the provider sees a
\* second request of one kind for one job only after the user approved its repetition.
THEOREM ResendsToProviderAreApproved == Workflow => []SentTwiceOnlyIfApproved
<1>1. ASSUME WorkflowInv PROVE SentTwiceOnlyIfApproved
    <2> SUFFICES ASSUME NEW j \in Jobs, NEW a \in sent[j], NEW b \in sent[j], a < b,
                        attempts[j][a].kind = attempts[j][b].kind
                 PROVE  /\ attempts[j][b].retryOf >= a
                        /\ attempts[j][attempts[j][b].retryOf].approval = "consumed"
        BY DEF SentTwiceOnlyIfApproved
    <2>1. /\ a \in DOMAIN attempts[j] /\ b \in DOMAIN attempts[j]
          /\ MaybeTransmitted(attempts[j][a])
        BY <1>1 DEF WorkflowInv, SentInv, SentKnown
    <2>2. attempts[j] \in Seq(AttemptRow) /\ ResendsApproved(attempts[j])
        BY <1>1 DEF WorkflowInv, AccountInv, RepoTypeOK, Accounted
    <2>3. a \in 1..(b - 1) /\ b \in 1..Len(attempts[j])
        BY <2>1, <2>2
    <2>4. /\ attempts[j][b].retryOf \in a..(b - 1)
          /\ attempts[j][attempts[j][b].retryOf].approval = "consumed"
        BY <2>1, <2>2, <2>3 DEF ResendsApproved
    <2> QED
        BY <2>3, <2>4
<1> QED
    BY <1>1, InitWorkflow, NextWorkflow, PTL DEF Workflow

-----------------------------------------------------------------------------
(* Claims.  While nothing goes wrong outside the program, a job in a submission  *)
(* slot is in the hands of the worker that its lease names, at a point of the    *)
(* call that goes with its status; and that worker is one of a pool at work.     *)

AtWork(row, status) ==
    \/ /\ status = "claimed"
       /\ row.pc \in {"held", "lookup", "reserve", "record", "finish", "release"}
    \/ /\ status = "reserved"
       /\ row.pc \in {"reserved", "mark"} \/ (row.pc = "complete" /\ row.reply = "withdrawn")
    \/ /\ status = "submitting"
       /\ row.pc \in {"marked", "submit", "complete"}

ClaimHeld(j) ==
    job[j].status \in SlotStatus =>
        /\ job[j].token \in Tokens
        /\ JobAt(job[j].token) = j
        /\ AtWork(worker[job[j].token], job[j].status)

\* The second conjunct is what lets a worker release its claim on a cancelled run.
Undisturbed(j) == /\ ~job[j].expired
                  /\ ~(Cancelled(j) /\ job[j].status = "claimed")
                  /\ ClaimHeld(j)

ClaimsHeld == faults = 0 => \A j \in Jobs : Undisturbed(j)

BusyInv ==
    \A w \in Tokens : worker[w].pc # "off" => pool[WorkerRun[w]] \in {"running", "failing"}

\* The row of a job neither enters a slot, nor changes hands in one, nor expires.
Lasts(a, b) == /\ b.expired => a.expired
               /\ b.status \in SlotStatus => b.status = a.status /\ b.token = a.token

\* A row that loses its lease on the way out of a slot, or moves outside the slots ...
LEMMA LeavingLasts ==
    ASSUME NEW row \in JobRow, NEW s, s \notin SlotStatus
    PROVE  /\ Lasts(row, [Unleased(row) EXCEPT !.status = s])
           /\ Lasts(row, [row EXCEPT !.status = s])
<1> PICK b, c : b = [Unleased(row) EXCEPT !.status = s] /\ c = [row EXCEPT !.status = s]
    OBVIOUS
<1>1. /\ b.status = s /\ b.expired = FALSE
      /\ c.status = s /\ c.expired = row.expired
    BY MovedLease
<1> QED
    BY <1>1 DEF Lasts

\* ... with a resolution.
LEMMA ResolvingLasts ==
    ASSUME NEW row \in JobRow, NEW s, s \notin SlotStatus, NEW x
    PROVE  /\ Lasts(row, [Unleased(row) EXCEPT !.status = s, !.resolution = x])
           /\ Lasts(row, [row EXCEPT !.status = s, !.resolution = x])
<1> PICK b, c : /\ b = [Unleased(row) EXCEPT !.status = s, !.resolution = x]
                /\ c = [row EXCEPT !.status = s, !.resolution = x]
    OBVIOUS
<1>1. /\ b.status = s /\ b.expired = FALSE
      /\ c.status = s /\ c.expired = row.expired
    BY DEF Unleased, JobRow
<1> QED
    BY <1>1 DEF Lasts

\* Recovered rows leave their slots, the others stay as they are.
LEMMA RecoveryLasts ==
    ASSUME RepoTypeOK, NEW k \in Jobs, NEW due
    PROVE  Lasts(job[k], JobsAfter(due)[k])
<1>1. job[k] \in JobRow
    BY DEF RepoTypeOK
<1>2. PICK st \in {"pending", "cancelled", "indeterminate"} :
         RecoveredJob(k) = [Unleased(job[k]) EXCEPT !.status = st]
    BY Zenon DEF RecoveredJob
<1>3. Lasts(job[k], RecoveredJob(k))
    <2>1. st \notin SlotStatus
        BY DEF SlotStatus
    <2>2. Lasts(job[k], [Unleased(job[k]) EXCEPT !.status = st])
        BY <1>1, <2>1, LeavingLasts
    <2> QED
        BY <1>2, <2>2
<1> QED
    BY <1>3 DEF JobsAfter, Lasts

\* The transactions on a run.
LEMMA RunStepLasts ==
    ASSUME RepoTypeOK, NEW r \in Runs, RunStep(r), NEW k \in Jobs
    PROVE  Lasts(job[k], job'[k])
<1>1. job[k] \in JobRow /\ Lasts(job[k], job[k])
    BY DEF RepoTypeOK, Lasts
<1>2. CASE StoreRunApproval(r)
    BY <1>1, <1>2 DEF StoreRunApproval
<1>3. CASE CancelRun(r)
    <2>1. \/ job'[k] = job[k]
          \/ job'[k] = [Unleased(job[k]) EXCEPT !.status = "cancelled"]
        BY <1>3 DEF CancelRun
    <2> QED
        BY <1>1, <2>1, LeavingLasts DEF SlotStatus
<1>4. CASE RecoverRun(r)
    <2>1. \/ job'[k] = JobsAfter(DueInRun(r))[k]
          \/ job'[k] = [Unleased(job[k]) EXCEPT !.status = "indeterminate"]
        BY <1>4 DEF RecoverRun
    <2>2. Lasts(job[k], [Unleased(job[k]) EXCEPT !.status = "indeterminate"])
        BY <1>1, LeavingLasts DEF SlotStatus
    <2> QED
        BY <2>1, <2>2, RecoveryLasts
<1>5. CASE ActivateResumableJobs(r)
    <2>1. \/ job'[k] = job[k]
          \/ job'[k] = [job[k] EXCEPT !.status = "pending", !.resolution = "none"]
        BY <1>5 DEF ActivateResumableJobs
    <2>2. Lasts(job[k], [job[k] EXCEPT !.status = "pending", !.resolution = "none"])
        BY <1>1, ResolvingLasts DEF SlotStatus
    <2> QED
        BY <1>1, <2>1, <2>2
<1> QED
    BY <1>2, <1>3, <1>4, <1>5 DEF RunStep

\* A transaction that writes one row that lasts.
LEMMA OneRowLasts ==
    ASSUME RepoTypeOK, NEW j \in Jobs, NEW row, job' = [job EXCEPT ![j] = row],
           Lasts(job[j], row)
    PROVE  \A k \in Jobs : Lasts(job[k], job'[k])
BY DEF RepoTypeOK, Lasts

\* The transactions on a job.
LEMMA JobCallLasts ==
    ASSUME RepoTypeOK, NEW j \in Jobs, JobCall(j)
    PROVE  \A k \in Jobs : Lasts(job[k], job'[k])
<1> PICK a : a = job[j]
    OBVIOUS
<1>1. a \in JobRow /\ job[j] = a /\ job \in [Jobs -> JobRow]
    BY DEF RepoTypeOK
<1>2. CASE StoreRetryApproval(j)
    <2>1. job' = [job EXCEPT ![j] = [a EXCEPT !.status = "pending", !.resolution = "none"]]
        BY <1>1, <1>2 DEF StoreRetryApproval
    <2> QED
        BY <1>1, <2>1, ResolvingLasts, OneRowLasts DEF SlotStatus
<1>3. CASE RegisterJob(j)
    <2>1. job' = [job EXCEPT ![j] = FreshJob("pending")]
        BY <1>3 DEF RegisterJob
    <2>2. Lasts(a, FreshJob("pending"))
        BY DEF Lasts, FreshJob, SlotStatus
    <2> QED
        BY <1>1, <2>1, <2>2, OneRowLasts
<1>4. CASE StoreCache(j)
    <2>1. job' = [job EXCEPT ![j] = [a EXCEPT !.status = "cache_stored"]]
        BY <1>1, <1>4 DEF StoreCache
    <2> QED
        BY <1>1, <2>1, LeavingLasts, OneRowLasts DEF SlotStatus
<1>5. CASE DeferResumableJob(j)
    <2>1. job' = [job EXCEPT ![j] = [a EXCEPT !.status = "finalized",
                                              !.resolution = "resumable"]]
        BY <1>1, <1>5 DEF DeferResumableJob
    <2> QED
        BY <1>1, <2>1, ResolvingLasts, OneRowLasts DEF SlotStatus
<1>6. ASSUME NEW res \in Resolution, FinalizeJob(j, res)
      PROVE  \A k \in Jobs : Lasts(job[k], job'[k])
    <2> PICK s : s = FinalizedStatus(res)
        OBVIOUS
    <2>1. s \notin SlotStatus
        BY DEF FinalizedStatus, Resolution, SlotStatus
    <2>2. job' = [job EXCEPT ![j] = [Unleased(a) EXCEPT !.status = s, !.resolution = res]]
        BY <1>1, <1>6 DEF FinalizeJob
    <2> QED
        BY <1>1, <2>1, <2>2, ResolvingLasts, OneRowLasts
<1>7. ASSUME NEW c, RecordContinuation(j, c)
      PROVE  \A k \in Jobs : Lasts(job[k], job'[k])
    <2> PICK b : b = [a EXCEPT !.cont = c, !.contAt = Len(attempts[j])]
        OBVIOUS
    <2>1. job' = [job EXCEPT ![j] = b]
        BY <1>1, <1>7 DEF RecordContinuation
    <2>2. Lasts(a, b)
        BY <1>1 DEF JobRow, Lasts
    <2> QED
        BY <1>1, <2>1, <2>2, OneRowLasts
<1>8. ASSUME NEW result, PublishJob(j, result)
      PROVE  \A k \in Jobs : Lasts(job[k], job'[k])
    <2>1. job' = [job EXCEPT ![j] = [a EXCEPT !.status = "published"]]
        BY <1>1, <1>8 DEF PublishJob
    <2> QED
        BY <1>1, <2>1, LeavingLasts, OneRowLasts DEF SlotStatus
<1>9. ASSUME NEW o, NEW result, NEW key, RecordValidated(j, o, result, key)
      PROVE  \A k \in Jobs : Lasts(job[k], job'[k])
    <2> PICK b : b = [a EXCEPT !.status = "validated", !.result = result, !.key = key]
        OBVIOUS
    <2>1. job' = [job EXCEPT ![j] = b] \/ job' = [job EXCEPT ![j] = a]
        BY <1>1, <1>9 DEF RecordValidated
    <2>2. Lasts(a, b) /\ Lasts(a, a)
        BY <1>1 DEF JobRow, Lasts, SlotStatus
    <2> QED
        BY <1>1, <2>1, <2>2, OneRowLasts
<1> QED
    BY <1>2, <1>3, <1>4, <1>5, <1>6, <1>7, <1>8, <1>9 DEF JobCall, LaterCall

\* The holder of a lease that releases its claim or completes its call leaves the slot.
LEMMA HolderLasts ==
    ASSUME RepoTypeOK, NEW w \in Tokens, NEW j \in Jobs, NEW d,
           ReleaseClaim(w, j) \/ Completes(w, j, d)
    PROVE  /\ \A k \in Jobs : Lasts(job[k], job'[k])
           /\ job'[j].status \notin SlotStatus
<1> PICK a : a = job[j]
    OBVIOUS
<1>1. a \in JobRow /\ job[j] = a /\ job \in [Jobs -> JobRow]
    BY DEF RepoTypeOK
<1>a. ASSUME NEW row, job' = [job EXCEPT ![j] = row], Lasts(a, row),
             row.status \notin SlotStatus
      PROVE  /\ \A k \in Jobs : Lasts(job[k], job'[k])
             /\ job'[j].status \notin SlotStatus
    BY <1>1, <1>a, OneRowLasts
<1>2. CASE ReleaseClaim(w, j)
    <2> PICK s : s = IF a.status = "claimed" THEN "pending" ELSE a.status
        OBVIOUS
    <2> PICK row : row = [Unleased(a) EXCEPT !.status = s]
        OBVIOUS
    <2>1. s \notin SlotStatus
        BY <1>1, <1>2 DEF ReleaseClaim, HoldsClaim, SlotStatus
    <2>2. job' = [job EXCEPT ![j] = row]
        BY <1>1, <1>2 DEF ReleaseClaim, Released
    <2>3. row.status = s
        BY <1>1, MovedLease
    <2>4. Lasts(a, row)
        BY <1>1, <2>1, LeavingLasts
    <2> QED
        BY <1>a, <2>1, <2>2, <2>3, <2>4
<1>3. CASE Completes(w, j, d)
    <2> PICK s : s = IF Cancelled(j) THEN "cancelled"
                     ELSE IF d = "definitely_not_transmitted"
                          THEN IF d = "definitely_not_transmitted" THEN "finalized" ELSE "pending"
                     ELSE IF d = "indeterminate" THEN "indeterminate"
                     ELSE "returned"
        OBVIOUS
    <2> PICK x : x = IF s = "finalized" THEN "resumable" ELSE "none"
        OBVIOUS
    <2>a. s \in {"cancelled", "finalized", "pending", "indeterminate", "returned"}
        OBVIOUS
    <2>b. job' = [job EXCEPT ![j] = IF s = "returned" THEN [a EXCEPT !.status = s]
                                    ELSE [Unleased(a) EXCEPT !.status = s, !.resolution = x]]
        BY <1>1, <1>3 DEF Completes, CompleteAttempt
    <2>1. \/ job' = [job EXCEPT ![j] = [a EXCEPT !.status = s]]
          \/ job' = [job EXCEPT ![j] = [Unleased(a) EXCEPT !.status = s, !.resolution = x]]
        <3>1. CASE s = "returned"
            BY <2>b, <3>1
        <3>2. CASE s # "returned"
            BY <2>b, <3>2
        <3> QED
            BY <3>1, <3>2
    <2>2. s \notin SlotStatus
        BY <2>a DEF SlotStatus
    <2>3. CASE job' = [job EXCEPT ![j] = [a EXCEPT !.status = s]]
        <3> PICK row : row = [a EXCEPT !.status = s]
            OBVIOUS
        <3>1. Lasts(a, row)
            BY <1>1, <2>2, LeavingLasts
        <3>2. row.status = s
            BY <1>1, MovedLease
        <3> QED
            BY <1>a, <2>2, <2>3, <3>1, <3>2
    <2>4. CASE job' = [job EXCEPT ![j] = [Unleased(a) EXCEPT !.status = s, !.resolution = x]]
        <3> PICK row : row = [Unleased(a) EXCEPT !.status = s, !.resolution = x]
            OBVIOUS
        <3>1. Lasts(a, row) /\ row.status = s
            BY <1>1, <2>2, ResolvingLasts DEF Unleased, JobRow
        <3> QED
            BY <1>a, <2>2, <2>4, <3>1
    <2> QED
        BY <2>1, <2>3, <2>4
<1> QED
    BY <1>2, <1>3

\* A claim: recovered leases, and one job that becomes the claimant's.
LEMMA ClaimLasts ==
    ASSUME RepoTypeOK, NEW w \in Tokens, NEW r \in Runs
    PROVE  /\ ClaimNothing(r, FALSE) => \A k \in Jobs : Lasts(job[k], job'[k])
           /\ \A j \in Jobs : ClaimNextJob(w, r, FALSE, j) =>
                 /\ \A k \in Jobs \ {j} : Lasts(job[k], job'[k])
                 /\ ~job'[j].expired
                 /\ job'[j].status \in SlotStatus =>
                       job'[j].status = "claimed" /\ job'[j].token = w /\ ~Cancelled(j)
<1> PICK rows, runs : rows = JobsAfter(DueNow) /\ runs = RunsBeforeClaim(FALSE)
    OBVIOUS
<1>1. rows = JobsBeforeClaim(FALSE) /\ rows \in [Jobs -> JobRow]
    BY AfterTyped DEF JobsBeforeClaim
<1>2. \A k \in Jobs : Lasts(job[k], rows[k])
    BY RecoveryLasts
<1>3. runs[r].cancel = run[r].cancel
    BY RefreshKeepsCancel DEF RunsBeforeClaim
<1>4. ASSUME NEW j \in Jobs, ClaimNextJob(w, r, FALSE, j)
      PROVE  /\ \A k \in Jobs \ {j} : Lasts(job[k], job'[k])
             /\ ~job'[j].expired
             /\ job'[j].status \in SlotStatus =>
                   job'[j].status = "claimed" /\ job'[j].token = w /\ ~Cancelled(j)
    <2>1. /\ \/ job' = [rows EXCEPT ![j] = Leased(rows[j], w)]
             \/ job' = [rows EXCEPT ![j] = [Leased(rows[j], w) EXCEPT !.status = "claimed"]]
          /\ RunOf[j] = r /\ ~runs[r].cancel
          /\ job' = [rows EXCEPT ![j] = Leased(rows[j], w)]
                => rows[j].status \in {"returned", "validated"}
                   \/ job' = [rows EXCEPT ![j] = [Leased(rows[j], w) EXCEPT !.status = "claimed"]]
        BY <1>1, <1>4 DEF ClaimNextJob, First, Continuable, Startable
    <2>2. \A k \in Jobs \ {j} : job'[k] = rows[k]
        BY <1>1, <2>1
    <2>3. CASE job' = [rows EXCEPT ![j] = [Leased(rows[j], w) EXCEPT !.status = "claimed"]]
        <3>1. job'[j] = [Leased(rows[j], w) EXCEPT !.status = "claimed"]
            BY <1>1, <2>3
        <3>2. job'[j].status = "claimed" /\ job'[j].token = w /\ job'[j].expired = FALSE
            BY <1>1, <3>1 DEF Leased, JobRow
        <3> QED
            BY <1>2, <1>3, <2>1, <2>2, <3>2 DEF Cancelled
    <2>4. CASE /\ job' = [rows EXCEPT ![j] = Leased(rows[j], w)]
               /\ rows[j].status \in {"returned", "validated"}
        <3>1. job'[j] = Leased(rows[j], w)
            BY <1>1, <2>4
        <3>2. job'[j].status = rows[j].status /\ job'[j].expired = FALSE
            BY <1>1, <3>1 DEF Leased, JobRow
        <3> QED
            BY <1>2, <2>2, <2>4, <3>2 DEF SlotStatus
    <2> QED
        BY <2>1, <2>3, <2>4
<1> QED
    BY <1>1, <1>2, <1>4 DEF ClaimNothing

\* A step of a worker moves no other one.
Stands(w) == \A v \in Tokens : v # w => worker'[v] = worker[v]

\* ... and whoever has moved was there, and the execution goes on or is failing.
LEMMA WorkerMoves ==
    ASSUME ServiceTypeOK, NEW w \in Tokens, WorkerStep(w)
    PROVE  Stands(w) /\ worker[w].pc # "off" /\ (pool' = pool \/ Failing(w))
<1>0. worker \in [Tokens -> WorkerRow] /\ worker[w] \in WorkerRow
    BY DEF ServiceTypeOK, WorkersOK
<1>1. worker[w].pc # "off"
    BY DEF WorkerStep, AtPoint, Poll, Claim, Held, Release, Lookup, Reserve, Prepare, Mark,
           Marked, Submit, Complete, Refuse, Record, Continue, Store, FinishJob, Publish
<1>2. pool' = pool \/ Failing(w)
    BY DEF WorkerStep, Poll, Claim, Held, Release, Lookup, Reserve, Prepare, Mark,
           Marked, Submit, Complete, Refuse, Record, Continue, Store, FinishJob, Publish,
           OnlyWorker, Service, Refused, Raise
<1> SUFFICES Stands(w)
    BY <1>1, <1>2
<1>a. ASSUME NEW row, worker' = [worker EXCEPT ![w] = row] PROVE Stands(w)
    BY <1>0, <1>a DEF Stands
<1>b. ASSUME Refused(w) PROVE Stands(w)
    BY <1>0, <1>b DEF Stands, Refused, Raise
<1>c. ASSUME Leaves(w) PROVE Stands(w)
    BY <1>a, <1>c DEF Leaves
<1>d. \A pc : Goto(w, pc) => Stands(w)
    BY <1>0 DEF Stands, Goto
<1>e. \A res : Finish(w, res) => Stands(w)
    BY <1>0 DEF Stands, Finish
<1>3. CASE Poll(w) \/ Claim(w)
    BY <1>3, <1>a, <1>d DEF Poll, Claim
<1>4. CASE Held(w)
    <2>1. worker' = [worker EXCEPT ![w].pc = "release", ![w].quit = TRUE] => Stands(w)
        BY <1>0 DEF Stands
    <2> QED
        BY <1>4, <1>d, <1>e, <2>1 DEF Held
<1>5. CASE Release(w)
    BY <1>5, <1>a DEF Release
<1>6. CASE Lookup(w)
    <2>1. ASSUME NEW k, UseCached(w, k) PROVE Stands(w)
        BY <1>0, <1>e, <2>1 DEF UseCached, Stands
    <2> QED
        BY <1>6, <1>b, <1>d, <1>e, <2>1 DEF Lookup
<1>7. CASE Reserve(w)
    <2>1. worker' = [worker EXCEPT ![w].pc = "reserved", ![w].attempt = Ordinal(JobAt(w))]
             => Stands(w)
        BY <1>0 DEF Stands
    <2> QED
        BY <1>7, <1>b, <1>e, <2>1 DEF Reserve
<1>8. CASE Prepare(w) \/ Marked(w)
    BY <1>0, <1>8 DEF Prepare, Marked, Stands
<1>9. CASE Mark(w)
    <2>1. worker' = [worker EXCEPT ![w].pc = "complete", ![w].reply = "withdrawn"] => Stands(w)
        BY <1>0 DEF Stands
    <2> QED
        BY <1>9, <1>b, <1>d, <2>1 DEF Mark
<1>10. CASE Submit(w)
    BY <1>0, <1>10 DEF Submit, Stands
<1>11. CASE Complete(w)
    BY <1>11, <1>b, <1>c, AfterCallLeaves DEF Complete
<1>12. CASE \/ Refuse(w) \/ Record(w) \/ Continue(w)
            \/ Store(w) \/ FinishJob(w) \/ Publish(w)
    BY <1>12, <1>b, <1>c, LateStepsLeave
<1> QED
    BY <1>3, <1>4, <1>5, <1>6, <1>7, <1>8, <1>9, <1>10, <1>11, <1>12
       DEF WorkerStep

\* Workers run only while their pool does, and a step of one leaves the pool at work.
LEMMA WorkerStepBusy ==
    ASSUME BusyInv, ServiceTypeOK, NEW w \in Tokens, WorkerStep(w)
    PROVE  BusyInv'
<1>1. Stands(w) /\ worker[w].pc # "off" /\ (pool' = pool \/ Failing(w))
    BY WorkerMoves
<1>2. \A v \in Tokens : WorkerRun[v] \in Runs
    BY WorkflowAssumption
<1>3. pool \in [Runs -> Pool]
    BY DEF ServiceTypeOK, PoolsOK
<1>4. \A r \in Runs : pool'[r] = pool[r] \/ pool'[r] = "failing"
    BY <1>1, <1>2, <1>3 DEF Failing
<1>5. \A v \in Tokens : worker'[v].pc # "off" => worker[v].pc # "off"
    BY <1>1 DEF Stands
<1> QED
    BY <1>2, <1>4, <1>5 DEF BusyInv

\* What a transaction may do to the claims: none expires, none is made on a cancelled
\* run, and what is in a slot after it is in the hands of its worker.
LEMMA ClaimsStayHeld ==
    ASSUME ClaimsHeld, RepoTypeOK, [RepoNext]_repoVars, faults = 0,
           \A k \in Jobs :
              /\ job'[k].expired => job[k].expired
              /\ job'[k].status = "claimed" => job[k].status = "claimed" \/ ~Cancelled(k)
              /\ job'[k].status \in SlotStatus =>
                    /\ job'[k].token \in Tokens
                    /\ worker'[job'[k].token].job = k
                    /\ AtWork(worker'[job'[k].token], job'[k].status)
    PROVE  ClaimsHeld'
<1>1. ASSUME NEW k \in Jobs, job'[k].status = "claimed" PROVE ~Cancelled(k)'
    <2>1. RunOf[k] \in Runs /\ ~Cancelled(k)
        BY <1>1, RepositoryAssumption DEF ClaimsHeld, Undisturbed
    <2>2. ~CancelRun(RunOf[k])
        <3> SUFFICES ASSUME CancelRun(RunOf[k]) PROVE FALSE
            OBVIOUS
        <3>1. \/ job'[k] = [Unleased(job[k]) EXCEPT !.status = "cancelled"]
              \/ job'[k] = job[k] /\ job[k].status # "claimed"
            BY DEF CancelRun
        <3>2. [Unleased(job[k]) EXCEPT !.status = "cancelled"].status = "cancelled"
            BY MovedLease DEF RepoTypeOK
        <3> QED
            BY <1>1, <3>1, <3>2
    <2>3. run'[RunOf[k]].cancel = run[RunOf[k]].cancel
        BY <2>1, <2>2, CancelStays
    <2> QED
        BY <2>1, <2>3 DEF Cancelled
<1>2. ASSUME NEW k \in Jobs PROVE Undisturbed(k)'
    BY <1>1 DEF ClaimsHeld, Undisturbed, ClaimHeld, JobAt
<1> QED
    BY <1>2 DEF ClaimsHeld

\* Where rows last and no worker that is at work moves, claims stay held.
LEMMA OthersKeepClaims ==
    ASSUME ClaimsHeld, RepoTypeOK, [RepoNext]_repoVars, faults = 0,
           \A k \in Jobs : Lasts(job[k], job'[k]),
           \A v \in Tokens : worker'[v] = worker[v] \/ worker[v].pc = "off"
    PROVE  ClaimsHeld'
<1> SUFFICES ASSUME NEW k \in Jobs, job'[k].status \in SlotStatus
             PROVE  /\ job'[k].token \in Tokens
                    /\ worker'[job'[k].token].job = k
                    /\ AtWork(worker'[job'[k].token], job'[k].status)
    BY ClaimsStayHeld DEF Lasts, SlotStatus
<1> PICK v : v = job[k].token
    OBVIOUS
<1>1. job'[k].status = job[k].status /\ job'[k].token = v
    BY DEF Lasts
<1>2. v \in Tokens /\ worker[v].job = k /\ AtWork(worker[v], job[k].status)
    BY <1>1 DEF ClaimsHeld, Undisturbed, ClaimHeld, JobAt
<1>3. worker'[v] = worker[v]
    BY <1>2 DEF AtWork
<1> QED
    BY <1>1, <1>2, <1>3 DEF JobAt

\* The worker that moves stays at work wherever it was ...
StaysAtWork(old, new) ==
    \A s \in SlotStatus : AtWork(old, s) => new.job = old.job /\ AtWork(new, s)

\* ... or has let go of its job.
LetsGo(w) == job'[JobAt(w)].status \in SlotStatus => job'[JobAt(w)].token # w

\* If it does one or the other, and moves no job into a slot, every claim stays held.
LEMMA WorkerKeepsClaims ==
    ASSUME ClaimsHeld, RepoTypeOK, [RepoNext]_repoVars, faults = 0, NEW w \in Tokens, Stands(w),
           \A k \in Jobs : Lasts(job[k], job'[k]),
           StaysAtWork(worker[w], worker'[w]) \/ LetsGo(w)
    PROVE  ClaimsHeld'
<1> SUFFICES ASSUME NEW k \in Jobs, job'[k].status \in SlotStatus
             PROVE  /\ job'[k].token \in Tokens
                    /\ worker'[job'[k].token].job = k
                    /\ AtWork(worker'[job'[k].token], job'[k].status)
    BY ClaimsStayHeld DEF Lasts, SlotStatus
<1> PICK v, s : v = job[k].token /\ s = job[k].status
    OBVIOUS
<1>1. job'[k].status = s /\ job'[k].token = v /\ s \in SlotStatus
    BY DEF Lasts
<1>2. v \in Tokens /\ worker[v].job = k /\ AtWork(worker[v], s)
    BY <1>1 DEF ClaimsHeld, Undisturbed, ClaimHeld, JobAt
<1>3. worker'[v].job = k /\ AtWork(worker'[v], s)
    <2>1. CASE v # w
        BY <1>2, <2>1 DEF Stands
    <2>2. CASE v = w
        <3>1. ~LetsGo(w)
            BY <1>1, <1>2, <2>2 DEF LetsGo, JobAt
        <3> QED
            BY <1>1, <1>2, <2>2, <3>1 DEF StaysAtWork
    <2> QED
        BY <2>1, <2>2
<1> QED
    BY <1>1, <1>2, <1>3 DEF JobAt

\* The worker that claims, reserves or marks is at work on that one job afterwards.
LEMMA WorkerTakesOn ==
    ASSUME ClaimsHeld, RepoTypeOK, [RepoNext]_repoVars, faults = 0, NEW w \in Tokens, Stands(w),
           NEW j \in Jobs, \A k \in Jobs \ {j} : Lasts(job[k], job'[k]),
           ~job'[j].expired,
           job'[j].status = "claimed" => ~Cancelled(j),
           job'[j].status \in SlotStatus =>
               job'[j].token = w /\ worker'[w].job = j /\ AtWork(worker'[w], job'[j].status),
           JobAt(w) = j \/ \A s \in SlotStatus : ~AtWork(worker[w], s)
    PROVE  ClaimsHeld'
<1> SUFFICES ASSUME NEW k \in Jobs, job'[k].status \in SlotStatus
             PROVE  /\ job'[k].token \in Tokens
                    /\ worker'[job'[k].token].job = k
                    /\ AtWork(worker'[job'[k].token], job'[k].status)
    BY ClaimsStayHeld DEF Lasts, SlotStatus
<1>1. CASE k = j
    BY <1>1 DEF JobAt
<1>2. CASE k # j
    <2> PICK v, s : v = job[k].token /\ s = job[k].status
        OBVIOUS
    <2>1. job'[k].status = s /\ job'[k].token = v /\ s \in SlotStatus
        BY <1>2 DEF Lasts
    <2>2. v \in Tokens /\ worker[v].job = k /\ AtWork(worker[v], s)
        BY <2>1 DEF ClaimsHeld, Undisturbed, ClaimHeld, JobAt
    <2>3. v # w
        BY <1>2, <2>1, <2>2 DEF JobAt
    <2> QED
        BY <2>1, <2>2, <2>3 DEF Stands, JobAt
<1> QED
    BY <1>1, <1>2

\* A step of a worker without a transaction: it stays at work, or has let go.
LEMMA QuietKeepsClaims ==
    ASSUME ClaimsHeld, RepoTypeOK, faults = 0, NEW w \in Tokens, Stands(w),
           UNCHANGED repoVars, StaysAtWork(worker[w], worker'[w]) \/ LetsGo(w)
    PROVE  ClaimsHeld'
<1>1. \A k \in Jobs : Lasts(job[k], job'[k])
    BY DEF Lasts, repoVars
<1> QED
    BY <1>1, WorkerKeepsClaims

\* A refused worker has its claim still to release, unless it was in a call.
LEMMA RefusedKeepsClaims ==
    ASSUME ClaimsHeld, ServiceTypeOK, RepoTypeOK, faults = 0, NEW w \in Tokens, Refused(w),
           worker[w].pc \notin Calling \/ LetsGo(w)
    PROVE  ClaimsHeld'
<1>1. /\ worker'[w].pc = "release" /\ worker'[w].job = worker[w].job
      /\ UNCHANGED repoVars /\ Stands(w)
    BY DEF Refused, Raise, ServiceTypeOK, WorkersOK, WorkerRow, Stands
<1>2. worker[w].pc \notin Calling => StaysAtWork(worker[w], worker'[w])
    BY <1>1 DEF Calling, StaysAtWork, AtWork, SlotStatus
<1> QED
    BY <1>1, <1>2, QuietKeepsClaims

\* The points between the transactions of a worker.
LEMMA QuietStepsKeepClaims ==
    ASSUME ClaimsHeld, ServiceTypeOK, RepoTypeOK, faults = 0, faults' = 0, NEW w \in Tokens,
           Poll(w) \/ Held(w) \/ Lookup(w) \/ Prepare(w) \/ Marked(w) \/ Submit(w)
    PROVE  ClaimsHeld'
<1>0. Stands(w) /\ worker[w] \in WorkerRow /\ worker \in [Tokens -> WorkerRow]
    BY WorkerMoves DEF WorkerStep, ServiceTypeOK, WorkersOK
<1>1. CASE Poll(w)
    <2>1. StaysAtWork(worker[w], worker'[w])
        BY <1>1 DEF Poll, AtPoint, StaysAtWork, AtWork
    <2> QED
        BY <1>0, <1>1, <2>1, QuietKeepsClaims DEF Poll, OnlyWorker
<1>2. CASE Held(w)
    <2>1. worker'[w].job = worker[w].job /\ worker'[w].pc \in {"release", "finish", "lookup"}
        BY <1>0, <1>2 DEF Held, Finish, Goto, WorkerRow
    <2>2. StaysAtWork(worker[w], worker'[w])
        BY <1>2, <2>1 DEF Held, AtPoint, StaysAtWork, AtWork
    <2> QED
        BY <1>0, <1>2, <2>2, QuietKeepsClaims DEF Held, OnlyWorker
<1>3. CASE Lookup(w)
    <2>1. ASSUME OnlyWorker, worker'[w].job = worker[w].job,
                 worker'[w].pc \in {"finish", "reserve", "record"}
          PROVE  ClaimsHeld'
        <3>1. StaysAtWork(worker[w], worker'[w])
            BY <1>3, <2>1 DEF Lookup, AtPoint, StaysAtWork, AtWork
        <3> QED
            BY <1>0, <2>1, <3>1, QuietKeepsClaims DEF OnlyWorker
    <2>2. \A res : Finish(w, res) =>
              worker'[w].job = worker[w].job /\ worker'[w].pc = "finish"
        BY <1>0 DEF Finish, WorkerRow
    <2>3. Goto(w, "reserve") => worker'[w].job = worker[w].job /\ worker'[w].pc = "reserve"
        BY <1>0 DEF Goto, WorkerRow
    <2>4. \A k : UseCached(w, k) =>
              worker'[w].job = worker[w].job /\ worker'[w].pc \in {"finish", "record"}
        BY <1>0, <2>2 DEF UseCached, WorkerRow
    <2>5. Refused(w) => ClaimsHeld'
        BY <1>3, RefusedKeepsClaims DEF Lookup, AtPoint, Calling
    <2> QED
        BY <1>3, <2>1, <2>2, <2>3, <2>4, <2>5 DEF Lookup
<1>4. CASE Prepare(w)
    <2>1. /\ worker'[w].job = worker[w].job
          /\ \/ worker'[w].pc = "complete" /\ worker'[w].reply = "withdrawn"
             \/ worker'[w].pc = "mark"
        BY <1>0, <1>4 DEF Prepare, WorkerRow
    <2>2. StaysAtWork(worker[w], worker'[w])
        BY <1>4, <2>1 DEF Prepare, AtPoint, StaysAtWork, AtWork
    <2> QED
        BY <1>0, <1>4, <2>2, QuietKeepsClaims DEF Prepare
<1>5. CASE Marked(w)
    <2>1. worker'[w].job = worker[w].job /\ worker'[w].pc \in {"complete", "submit"}
        BY <1>0, <1>5 DEF Marked, WorkerRow
    <2>2. StaysAtWork(worker[w], worker'[w])
        BY <1>5, <2>1 DEF Marked, AtPoint, StaysAtWork, AtWork
    <2> QED
        BY <1>0, <1>5, <2>2, QuietKeepsClaims DEF Marked, OnlyWorker
<1>6. CASE Submit(w)
    <2> PICK reply : worker' = [worker EXCEPT ![w].pc = "complete", ![w].reply = reply]
        BY <1>6 DEF Submit
    <2>1. worker'[w].job = worker[w].job /\ worker'[w].pc = "complete"
        BY <1>0 DEF WorkerRow
    <2>2. StaysAtWork(worker[w], worker'[w])
        BY <1>6, <2>1 DEF Submit, AtPoint, StaysAtWork, AtWork
    <2> QED
        BY <1>0, <1>6, <2>2, QuietKeepsClaims DEF Submit
<1> QED
    BY <1>1, <1>2, <1>3, <1>4, <1>5, <1>6

\* What the claims say of a worker.
LEMMA ClaimsOfWorker ==
    ASSUME ClaimsHeld, faults = 0, NEW j \in Jobs, job[j].status \in SlotStatus
    PROVE  /\ ~job[j].expired /\ ~(Cancelled(j) /\ job[j].status = "claimed")
           /\ JobAt(job[j].token) = j /\ AtWork(worker[job[j].token], job[j].status)
BY DEF ClaimsHeld, Undisturbed, ClaimHeld

\* Claims are taken, and given back, in the hands of their worker.
LEMMA ClaimingKeepsClaims ==
    ASSUME ClaimsHeld, ServiceTypeOK, RepoTypeOK, faults = 0, NEW w \in Tokens,
           [RepoNext]_repoVars, Claim(w) \/ Release(w)
    PROVE  ClaimsHeld'
<1>0. Stands(w) /\ worker \in [Tokens -> WorkerRow] /\ WorkerRun[w] \in Runs
    BY WorkerMoves, WorkflowAssumption DEF WorkerStep, ServiceTypeOK, WorkersOK
<1>1. CASE Claim(w)
    <2>1. \A s \in SlotStatus : ~AtWork(worker[w], s)
        BY <1>1 DEF Claim, AtPoint, AtWork
    <2>2. CASE ClaimNothing(WorkerRun[w], FALSE)
        <3>1. \A k \in Jobs : Lasts(job[k], job'[k])
            BY <1>0, <2>2, ClaimLasts
        <3>2. StaysAtWork(worker[w], worker'[w])
            BY <2>1 DEF StaysAtWork
        <3> QED
            BY <1>0, <3>1, <3>2, WorkerKeepsClaims
    <2>3. ASSUME NEW j \in Jobs, ClaimNextJob(w, WorkerRun[w], FALSE, j),
                 worker' = [worker EXCEPT ![w] = [Idle EXCEPT !.pc = "held", !.job = j,
                                                              !.kind = ResumeKind(j)]]
          PROVE  ClaimsHeld'
        <3>1. worker'[w].pc = "held" /\ worker'[w].job = j
            BY <1>0, <2>3 DEF Idle
        <3>2. /\ \A k \in Jobs \ {j} : Lasts(job[k], job'[k])
              /\ ~job'[j].expired
              /\ job'[j].status \in SlotStatus =>
                    job'[j].status = "claimed" /\ job'[j].token = w /\ ~Cancelled(j)
            BY <1>0, <2>3, ClaimLasts
        <3>3. AtWork(worker'[w], "claimed")
            BY <3>1 DEF AtWork
        <3>4. "claimed" \in SlotStatus
            BY DEF SlotStatus
        <3> QED
            BY <1>0, <2>1, <3>1, <3>2, <3>3, <3>4, WorkerTakesOn
    <2> QED
        BY <1>1, <2>2, <2>3 DEF Claim
<1>2. CASE Release(w)
    <2> PICK j : j = JobAt(w)
        OBVIOUS
    <2>1. j \in Jobs
        BY <1>2 DEF Release, AtPoint, ServiceTypeOK, WorkersOK, Prepared, Free, JobAt, JobsOf
    <2>2. CASE ReleaseClaim(w, j)
        <3>1. \A k \in Jobs : Lasts(job[k], job'[k])
            BY <2>1, <2>2, HolderLasts
        <3>2. LetsGo(w)
            BY <2>1, <2>2, HolderLasts DEF LetsGo
        <3> QED
            BY <1>0, <3>1, <3>2, WorkerKeepsClaims
    <2>3. CASE ~ReleaseClaim(w, j)
        <3>1. UNCHANGED repoVars
            BY <1>2, <2>3 DEF Release, OnlyWorker, repoVars
        <3>2. ASSUME job[j].status \in SlotStatus, job[j].token = w PROVE FALSE
            <4>1. job[j].status = "claimed"
                BY <1>2, <2>1, <3>2, ClaimsOfWorker DEF Release, AtPoint, AtWork
            <4>2. HoldsClaim(w, j, {"claimed", "returned", "validated"})
                BY <2>1, <3>2, <4>1, ClaimsOfWorker DEF HoldsClaim
            <4>3. ~MayRelease(w, j)
                BY <3>2, <4>1, RepositoryAssumption DEF MayRelease
            <4> QED
                BY <1>2, <2>3, <4>2, <4>3 DEF Release
        <3>3. LetsGo(w)
            BY <3>1, <3>2 DEF LetsGo, repoVars
        <3> QED
            BY <1>0, <3>1, <3>3, QuietKeepsClaims
    <2> QED
        BY <2>2, <2>3
<1> QED
    BY <1>1, <1>2

\* A reservation turns the claim into a reserved call of the same worker.
LEMMA ReserveKeepsClaims ==
    ASSUME ClaimsHeld, ServiceTypeOK, RepoTypeOK, faults = 0, NEW w \in Tokens,
           [RepoNext]_repoVars, Reserve(w)
    PROVE  ClaimsHeld'
<1> PICK j : j = JobAt(w)
    OBVIOUS
<1>0. /\ Stands(w) /\ worker \in [Tokens -> WorkerRow] /\ worker[w].pc = "reserve"
      /\ j \in Jobs /\ job \in [Jobs -> JobRow]
    BY WorkerMoves DEF WorkerStep, ServiceTypeOK, WorkersOK, Prepared, Free, JobAt, JobsOf,
       Reserve, AtPoint, RepoTypeOK
<1>1. ASSUME ReserveAttempt(w, j, worker[w].kind),
             worker' = [worker EXCEPT ![w].pc = "reserved", ![w].attempt = Ordinal(j)]
      PROVE  ClaimsHeld'
    <2>1. worker'[w].job = j /\ worker'[w].pc = "reserved"
        BY <1>0, <1>1 DEF JobAt, WorkerRow
    <2>2. job[j].token = w /\ ~job[j].expired
        BY <1>1 DEF ReserveAttempt, CanReserve, HoldsClaim
    <2>3. /\ \A k \in Jobs \ {j} : job'[k] = job[k]
          /\ job'[j].status = "reserved" /\ job'[j].token = w /\ ~job'[j].expired
        BY <1>0, <1>1, <2>2 DEF ReserveAttempt, JobRow
    <2>4. \A k \in Jobs \ {j} : Lasts(job[k], job'[k])
        BY <2>3 DEF Lasts
    <2>5. AtWork(worker'[w], job'[j].status)
        BY <2>1, <2>3 DEF AtWork
    <2> QED
        BY <1>0, <2>1, <2>3, <2>4, <2>5, WorkerTakesOn
<1>2. CASE Finish(w, "structural") /\ OnlyWorker
    <2>1. worker'[w].job = worker[w].job /\ worker'[w].pc = "finish"
        BY <1>0, <1>2 DEF Finish, WorkerRow
    <2>2. StaysAtWork(worker[w], worker'[w])
        BY <1>0, <2>1 DEF StaysAtWork, AtWork
    <2> QED
        BY <1>0, <1>2, <2>2, QuietKeepsClaims DEF OnlyWorker
<1>3. CASE Refused(w)
    BY <1>0, <1>3, RefusedKeepsClaims DEF Calling
<1> QED
    BY <1>1, <1>2, <1>3 DEF Reserve

\* mark_submitting is not refused to the holder, but for the cancellation it answers.
LEMMA MarkKeepsClaims ==
    ASSUME ClaimsHeld, ServiceTypeOK, FateInv, faults = 0, NEW w \in Tokens,
           [RepoNext]_repoVars, Mark(w)
    PROVE  ClaimsHeld'
<1> PICK j : j = JobAt(w)
    OBVIOUS
<1>0. /\ Stands(w) /\ worker \in [Tokens -> WorkerRow] /\ worker[w].pc = "mark"
      /\ j \in Jobs /\ RepoTypeOK /\ job \in [Jobs -> JobRow] /\ AttemptMatchesJob
    BY WorkerMoves DEF WorkerStep, ServiceTypeOK, WorkersOK, Prepared, Free, JobAt, JobsOf,
       Mark, AtPoint, RepoTypeOK, FateInv
<1>1. ASSUME MarkTransmitting(w, j), Goto(w, "marked") PROVE ClaimsHeld'
    <2>1. worker'[w].job = j /\ worker'[w].pc = "marked"
        BY <1>0, <1>1 DEF Goto, JobAt, WorkerRow
    <2>2. job[j].token = w /\ ~job[j].expired
        BY <1>1 DEF MarkTransmitting, MayMark, HoldsClaim
    <2>3. /\ \A k \in Jobs \ {j} : job'[k] = job[k]
          /\ job'[j].status = "submitting" /\ job'[j].token = w /\ ~job'[j].expired
        BY <1>0, <1>1, <2>2 DEF MarkTransmitting, JobRow
    <2>4. \A k \in Jobs \ {j} : Lasts(job[k], job'[k])
        BY <2>3 DEF Lasts
    <2>5. AtWork(worker'[w], job'[j].status)
        BY <2>1, <2>3 DEF AtWork
    <2> QED
        BY <1>0, <2>1, <2>3, <2>4, <2>5, WorkerTakesOn
<1>2. CASE /\ worker' = [worker EXCEPT ![w].pc = "complete", ![w].reply = "withdrawn"]
           /\ OnlyWorker
    <2>1. /\ worker'[w].job = worker[w].job
          /\ worker'[w].pc = "complete" /\ worker'[w].reply = "withdrawn"
        BY <1>0, <1>2 DEF WorkerRow
    <2>2. StaysAtWork(worker[w], worker'[w])
        BY <1>0, <2>1 DEF StaysAtWork, AtWork
    <2> QED
        BY <1>0, <1>2, <2>2, QuietKeepsClaims DEF OnlyWorker
<1>3. CASE ~MayMark(w, j) /\ ~(Owns(w, j) /\ Cancelled(j)) /\ Refused(w)
    <2>1. ASSUME job[j].status \in SlotStatus, job[j].token = w PROVE FALSE
        <3>1. job[j].status = "reserved" /\ ~job[j].expired
            BY <1>0, <2>1, ClaimsOfWorker DEF AtWork
        <3>2. LatestIs(j, "reserved")
            BY <1>0, <3>1 DEF AttemptMatchesJob
        <3> QED
            BY <1>3, <2>1, <3>1, <3>2 DEF MayMark, HoldsClaim, Owns
    <2>2. LetsGo(w)
        BY <1>3, <2>1 DEF LetsGo, Refused, repoVars
    <2> QED
        BY <1>0, <1>3, <2>2, RefusedKeepsClaims
<1> QED
    BY <1>1, <1>2, <1>3 DEF Mark

\* Nor is complete_attempt: what a worker reports of its call, the row accepts.
LEMMA CompleteKeepsClaims ==
    ASSUME ClaimsHeld, ServiceTypeOK, FateInv, faults = 0, NEW w \in Tokens,
           [RepoNext]_repoVars, Complete(w)
    PROVE  ClaimsHeld'
<1> PICK j, d : j = JobAt(w) /\ d = DispositionOf(worker[w].reply)
    OBVIOUS
<1>0. /\ Stands(w) /\ worker \in [Tokens -> WorkerRow] /\ worker[w].pc = "complete"
      /\ j \in Jobs /\ RepoTypeOK /\ AttemptMatchesJob
    BY WorkerMoves DEF WorkerStep, ServiceTypeOK, WorkersOK, Prepared, Free, JobAt, JobsOf,
       Complete, AtPoint, FateInv
<1>1. CASE Completes(w, j, d)
    <2>1. \A k \in Jobs : Lasts(job[k], job'[k])
        BY <1>0, <1>1, HolderLasts
    <2>2. LetsGo(w)
        BY <1>0, <1>1, HolderLasts DEF LetsGo
    <2> QED
        BY <1>0, <2>1, <2>2, WorkerKeepsClaims
<1>2. CASE ~Completable(w, j, d) /\ Refused(w)
    <2>1. ASSUME job[j].status \in SlotStatus, job[j].token = w PROVE FALSE
        <3>1. /\ AtWork(worker[w], job[j].status) /\ ~job[j].expired
              /\ job[j].status \in {"reserved", "submitting"}
            BY <1>0, <2>1, ClaimsOfWorker DEF AtWork
        <3>2. HoldsClaim(w, j, {"reserved", "submitting"})
            BY <2>1, <3>1 DEF HoldsClaim
        <3>3. CASE job[j].status = "submitting"
            BY <1>0, <1>2, <3>2, <3>3 DEF AttemptMatchesJob, Completable
        <3>4. CASE job[j].status = "reserved"
            <4>1. worker[w].reply = "withdrawn"
                BY <1>0, <3>1, <3>4 DEF AtWork
            <4>2. d = "definitely_not_transmitted"
                BY <4>1, WorkflowAssumption DEF DispositionOf, SentReply, ResultReply
            <4> QED
                BY <1>0, <1>2, <3>2, <3>4, <4>2 DEF AttemptMatchesJob, Completable
        <3> QED
            BY <3>1, <3>3, <3>4
    <2>2. LetsGo(w)
        BY <1>2, <2>1 DEF LetsGo, Refused, repoVars
    <2> QED
        BY <1>0, <1>2, <2>2, RefusedKeepsClaims
<1> QED
    BY <1>1, <1>2 DEF Complete, Completes

\* After its call a worker records, finalizes and publishes what its job row says, and
\* where that is a claim, it lets go of it or has it still to release.
LEMMA LateStepsKeepClaims ==
    ASSUME ClaimsHeld, ServiceTypeOK, RepoTypeOK, CacheInv, faults = 0, NEW w \in Tokens,
           [RepoNext]_repoVars,
           \/ Refuse(w) \/ Record(w) \/ Continue(w)
           \/ Store(w) \/ FinishJob(w) \/ Publish(w)
    PROVE  ClaimsHeld'
<1> PICK j : j = JobAt(w)
    OBVIOUS
<1>0. /\ Stands(w) /\ worker \in [Tokens -> WorkerRow] /\ job \in [Jobs -> JobRow]
      /\ j \in Jobs /\ worker[w].pc \notin Calling
      /\ \A k \in Jobs : Lasts(job[k], job'[k])
    <2>1. Stands(w) /\ worker \in [Tokens -> WorkerRow] /\ job \in [Jobs -> JobRow]
        BY WorkerMoves DEF WorkerStep, ServiceTypeOK, WorkersOK, RepoTypeOK
    <2>2. worker[w].pc \notin Calling
        BY DEF Refuse, Record, Continue, Store, FinishJob, Publish, AtPoint, Calling
    <2>3. j \in Jobs /\ (JobCall(j) \/ UNCHANGED repoVars)
        BY JobCalls DEF JobCall
    <2>4. UNCHANGED repoVars => \A k \in Jobs : Lasts(job[k], job'[k])
        BY DEF Lasts, repoVars
    <2> QED
        BY <2>1, <2>2, <2>3, <2>4, JobCallLasts
<1>1. CASE Refused(w)
    BY <1>0, <1>1, RefusedKeepsClaims
<1>2. CASE worker[w].pc \notin {"record", "finish"}
    <2>1. StaysAtWork(worker[w], worker'[w])
        BY <1>0, <1>2 DEF Refuse, Record, Continue, Store, FinishJob, Publish, AtPoint,
           StaysAtWork, AtWork
    <2> QED
        BY <1>0, <2>1, WorkerKeepsClaims
<1>3. CASE Record(w) /\ ~Refused(w)
    <2> SUFFICES ASSUME job'[j].status \in SlotStatus, job'[j].token = w PROVE FALSE
        BY <1>0, WorkerKeepsClaims DEF LetsGo
    <2>1. job[j].status = job'[j].status /\ job[j].token = w
        BY <1>0 DEF Lasts
    <2>2. job[j].status = "claimed"
        BY <1>0, <1>3, <2>1, ClaimsOfWorker DEF Record, AtPoint, AtWork
    <2>3. \E o, result, key : RecordValidated(j, o, result, key)
        BY <1>3 DEF Record
    <2>4. job'[j].status = "validated"
        BY <1>0, <2>2, <2>3 DEF RecordValidated, JobRow
    <2> QED
        BY <2>1, <2>2, <2>4
<1>4. CASE FinishJob(w) /\ ~Refused(w)
    <2>1. job'[j].status \notin SlotStatus
        <3>1. \/ FinalizeJob(j, worker[w].end) \/ DeferResumableJob(j)
              \/ /\ UNCHANGED job
                 /\ job[j].status \in {"finalized", "published", "indeterminate", "cancelled"}
            BY <1>4 DEF FinishJob, AlreadyFinal, OnlyWorker, repoVars
        <3>2. CASE FinalizeJob(j, worker[w].end)
            <4> PICK s, x : s = FinalizedStatus(worker[w].end) /\ x = worker[w].end
                OBVIOUS
            <4> PICK row : row = [Unleased(job[j]) EXCEPT !.status = s, !.resolution = x]
                OBVIOUS
            <4>1. job' = [job EXCEPT ![j] = row]
                BY <1>0, <3>2 DEF FinalizeJob
            <4>2. row.status = s
                BY <1>0 DEF Unleased, JobRow
            <4>3. s \notin SlotStatus
                BY DEF FinalizedStatus, SlotStatus
            <4> QED
                BY <1>0, <4>1, <4>2, <4>3
        <3>3. CASE DeferResumableJob(j)
            BY <1>0, <3>3 DEF DeferResumableJob, JobRow, SlotStatus
        <3> QED
            BY <3>1, <3>2, <3>3 DEF SlotStatus
    <2> QED
        BY <1>0, <2>1, WorkerKeepsClaims DEF LetsGo
<1> QED
    BY <1>1, <1>2, <1>3, <1>4 DEF Refuse, Record, Continue, Store, FinishJob, Publish, AtPoint

\* Every step of a worker keeps the claims held.
LEMMA WorkerStepKeepsClaims ==
    ASSUME ClaimsHeld, ServiceTypeOK, FateInv, CacheInv, faults = 0, faults' = 0,
           NEW w \in Tokens, WorkerStep(w)
    PROVE  ClaimsHeld'
<1>1. [RepoNext]_repoVars /\ RepoTypeOK
    BY WorkerStepCalls DEF FateInv
<1> QED
    BY <1>1, QuietStepsKeepClaims, ClaimingKeepsClaims, ReserveKeepsClaims, MarkKeepsClaims,
       CompleteKeepsClaims, LateStepsKeepClaims DEF WorkerStep

\* An execution may leave its state, or start its workers, while none of them is at work.
LEMMA PoolTurns ==
    ASSUME BusyInv, ServiceTypeOK, NEW r \in Runs, NEW x, PoolTo(r, x), worker' = worker,
           \A w \in WorkersOf(r) : worker[w].pc = "off"
    PROVE  BusyInv'
<1>1. pool \in [Runs -> Pool] /\ \A w \in Tokens : WorkerRun[w] \in Runs
    BY WorkflowAssumption DEF ServiceTypeOK, PoolsOK
<1>2. \A w \in Tokens : worker[w].pc # "off" => pool'[WorkerRun[w]] = pool[WorkerRun[w]]
    BY <1>1 DEF PoolTo, WorkersOf
<1> QED
    BY <1>2 DEF BusyInv

\* The steps of an execution.
LEMMA PoolStepDrains ==
    ASSUME BusyInv, ClaimsHeld, ServiceTypeOK, FateInv, NEW r \in Runs, PoolStep(r)
    PROVE  BusyInv' /\ ClaimsHeld'
<1>0. /\ RepoTypeOK /\ faults' = faults /\ [RepoNext]_repoVars
      /\ pool \in [Runs -> Pool] /\ worker \in [Tokens -> WorkerRow]
      /\ \A w \in Tokens : WorkerRun[w] \in Runs
    BY PoolStepCalls, WorkflowAssumption
       DEF FateInv, PoolStep, Validate, Begin, Drain, NextPhase, RegisterSections, OnlyPool,
           ServiceTypeOK, PoolsOK, WorkersOK
<1>1. \A w \in WorkersOf(r) : worker[w].pc = "off"
    BY DEF PoolStep, Validate, Begin, Drain, NextPhase, RegisterSections, BusyInv, WorkersOf
<1>2. \A w \in Tokens : worker'[w] = worker[w] \/ worker[w].pc = "off"
    BY <1>1 DEF PoolStep, Validate, Begin, Drain, NextPhase, RegisterSections, OnlyPool
<1>3. BusyInv'
    <2>1. CASE Begin(r)
        <3>1. \A w \in Tokens : WorkerRun[w] # r =>
                  worker'[w] = worker[w] /\ pool'[WorkerRun[w]] = pool[WorkerRun[w]]
            BY <1>0, <2>1 DEF Begin, PoolTo, WorkersOf
        <3>2. pool'[r] = "running"
            BY <1>0, <2>1 DEF Begin, PoolTo
        <3> QED
            BY <3>1, <3>2 DEF BusyInv
    <2>2. CASE ~Begin(r)
        <3>1. worker' = worker /\ (pool' = pool \/ \E x : PoolTo(r, x))
            BY <2>2 DEF PoolStep, Validate, Drain, NextPhase, RegisterSections, OnlyPool
        <3>2. pool' = pool => BusyInv'
            BY <3>1 DEF BusyInv
        <3> QED
            BY <1>1, <3>1, <3>2, PoolTurns
    <2> QED
        BY <2>1, <2>2
<1>4. \A k \in Jobs : Lasts(job[k], job'[k])
    <2>1. \/ UNCHANGED repoVars \/ RunStep(r)
          \/ \E j \in Jobs : JobCall(j)
        <3>1. \A j : j \in Absent(RollupsOf(r)) \/ j \in Absent(SectionsOf(r)) => j \in Jobs
            BY DEF Absent, RollupsOf, SectionsOf, JobsOf
        <3> QED
            BY <3>1 DEF PoolStep, Validate, Begin, Drain, NextPhase, RegisterSections, OnlyPool,
                  RunStep, JobCall, LaterCall, repoVars
    <2>2. UNCHANGED repoVars => \A k \in Jobs : Lasts(job[k], job'[k])
        BY DEF Lasts, repoVars
    <2> QED
        BY <1>0, <2>1, <2>2, RunStepLasts, JobCallLasts
<1>5. ClaimsHeld'
    <2>1. faults = 0 => ClaimsHeld'
        BY <1>0, <1>2, <1>4, OthersKeepClaims
    <2> QED
        BY <1>0, <2>1 DEF ClaimsHeld
<1> QED
    BY <1>3, <1>5

\* A recovery takes the claims of its run away from whoever holds them.
LEMMA RecoveryStepDrains ==
    ASSUME BusyInv, ClaimsHeld, ServiceTypeOK, FateInv, CacheInv, NEW r \in Runs,
           RecoveryStep(r)
    PROVE  BusyInv' /\ ClaimsHeld'
<1>0. RepoTypeOK /\ faults' = faults /\ worker' = worker /\ [RepoNext]_repoVars
    BY RecoveryStepCalls
       DEF FateInv, RecoveryStep, RecoverLeases, ListJobs, Loop, EndResume, OnlyRecovery
<1>1. BusyInv'
    <2>1. CASE pool' = pool
        BY <1>0, <2>1 DEF BusyInv
    <2>2. CASE pool' # pool
        <3>1. pool[r] = "idle" /\ PoolTo(r, "starting")
            BY <2>2 DEF RecoveryStep, RecoverLeases, ListJobs, Loop, EndResume, OnlyRecovery,
               PoolTo
        <3>2. \A w \in WorkersOf(r) : worker[w].pc = "off"
            BY <3>1 DEF BusyInv, WorkersOf
        <3> QED
            BY <1>0, <3>1, <3>2, PoolTurns
    <2> QED
        BY <2>1, <2>2
<1>2. \A k \in Jobs : Lasts(job[k], job'[k])
    <2>1. \/ UNCHANGED repoVars \/ RunStep(r)
          \/ \E j \in Jobs : JobCall(j)
        <3>1. ASSUME NEW j \in Jobs, First(Chores(r), j), DoChore(r, j)
              PROVE  UNCHANGED repoVars \/ JobCall(j)
            <4>0. recovery[r].chore[j] \in {"defer", "store", "finalize", "publish"}
                BY <3>1 DEF ServiceTypeOK, PoolsOK, First, Chores, Chore
            <4>1. \/ UNCHANGED repoVars \/ DeferResumableJob(j) \/ StoreCache(j)
                  \/ FinalizeJob(j, "accepted") \/ PublishJob(j, PublishedForm(j))
                BY <3>1, <4>0 DEF DoChore
            <4> QED
                BY <4>1, PublishesForm DEF JobCall, LaterCall, Resolution
        <3> QED
            BY <3>1 DEF RecoveryStep, RecoverLeases, ListJobs, Loop, EndResume, RunStep, repoVars
    <2>2. UNCHANGED repoVars => \A k \in Jobs : Lasts(job[k], job'[k])
        BY DEF Lasts, repoVars
    <2> QED
        BY <1>0, <2>1, <2>2, RunStepLasts, JobCallLasts
<1>3. faults = 0 => ClaimsHeld'
    BY <1>0, <1>2, OthersKeepClaims
<1> QED
    BY <1>0, <1>1, <1>3 DEF ClaimsHeld

\* Commands keep the claims held; crashes and expiries are counted as faults.
LEMMA OutsideStepDrains ==
    ASSUME BusyInv, ClaimsHeld, ServiceTypeOK, FateInv, Command \/ Fault
    PROVE  BusyInv' /\ ClaimsHeld'
<1>0. RepoTypeOK /\ [RepoNext]_repoVars /\ faults \in Nat
    BY OutsideStepCalls DEF FateInv, ServiceTypeOK, PoolsOK
<1>1. CASE Fault
    <2>1. faults' # 0
        BY <1>0, <1>1 DEF Fault, Crash, Expire
    <2>2. BusyInv'
        BY <1>1 DEF Fault, Crash, Expire, BusyInv, Idle
    <2> QED
        BY <2>1, <2>2 DEF ClaimsHeld
<1>2. CASE Command
    <2>0. worker' = worker
        BY <1>2 DEF Command, Start, Resume, Cancel, ApproveRetry, serviceVars
    <2>1. BusyInv'
        <3>1. CASE pool' = pool
            BY <2>0, <3>1 DEF BusyInv
        <3>2. CASE pool' # pool
            <4>1. PICK r \in Runs : pool[r] = "idle" /\ PoolTo(r, "starting")
                BY <1>2, <3>2 DEF Command, Start, Resume, Cancel, ApproveRetry, serviceVars
            <4>2. \A w \in WorkersOf(r) : worker[w].pc = "off"
                BY <4>1 DEF BusyInv, WorkersOf
            <4> QED
                BY <2>0, <4>1, <4>2, PoolTurns
        <3> QED
            BY <3>1, <3>2
    <2>2. \A k \in Jobs : Lasts(job[k], job'[k])
        <3>1. \/ UNCHANGED repoVars \/ \E r \in Runs : RunStep(r)
              \/ \E j \in Jobs : JobCall(j)
            BY <1>2 DEF Command, Start, Resume, Cancel, ApproveRetry, RunStep, JobCall,
                  LaterCall, repoVars
        <3>2. UNCHANGED repoVars => \A k \in Jobs : Lasts(job[k], job'[k])
            BY DEF Lasts, repoVars
        <3> QED
            BY <1>0, <3>1, <3>2, RunStepLasts, JobCallLasts
    <2>3. faults' = 0 => faults = 0
        BY <1>0, <1>2 DEF Command, Start, Resume, Cancel, ApproveRetry, serviceVars
    <2>4. faults = 0 => ClaimsHeld'
        BY <1>0, <2>0, <2>2, OthersKeepClaims
    <2> QED
        BY <2>1, <2>3, <2>4 DEF ClaimsHeld
<1> QED
    BY <1>1, <1>2

\* Relative to what holds of the workflow anyway, the claims are an inductive invariant.
DrainInv == WorkflowInv /\ BusyInv /\ ClaimsHeld

\* Every step of the workflow keeps it.
LEMMA NextDrains == DrainInv /\ [Next]_vars => DrainInv'
<1> SUFFICES ASSUME DrainInv, [Next]_vars PROVE DrainInv'
    OBVIOUS
<1>0. WorkflowInv /\ ServiceTypeOK /\ FateInv /\ CacheInv /\ BusyInv /\ ClaimsHeld
    BY DEF DrainInv, WorkflowInv
<1>1. WorkflowInv'
    BY <1>0, NextWorkflow
<1>2. ASSUME NEW w \in Tokens, WorkerStep(w) PROVE BusyInv' /\ ClaimsHeld'
    <2>1. faults' = 0 => faults = 0
        <3>1. faults \in Nat
            BY <1>0 DEF ServiceTypeOK, PoolsOK
        <3>2. faults' = faults \/ faults' = faults + 1
            BY <1>2 DEF WorkerStep, Poll, Claim, Held, Release, Lookup, Reserve, Prepare, Mark,
               Marked, Submit, Complete, Refuse, Record, Continue, Store, FinishJob, Publish,
               OnlyWorker, Service, Refused
        <3> QED
            BY <3>1, <3>2
    <2>2. faults' = 0 => ClaimsHeld'
        BY <1>0, <1>2, <2>1, WorkerStepKeepsClaims
    <2> QED
        BY <1>0, <1>2, <2>2, WorkerStepBusy DEF ClaimsHeld
<1>3. CASE UNCHANGED vars
    <2>1. BusyInv'
        BY <1>0, <1>3 DEF BusyInv, vars, serviceVars
    <2>2. ClaimsHeld'
        BY <1>0, <1>3 DEF ClaimsHeld, Undisturbed, ClaimHeld, Cancelled, JobAt, vars, serviceVars,
           repoVars
    <2> QED
        BY <1>1, <2>1, <2>2 DEF DrainInv
<1> QED
    BY <1>0, <1>1, <1>2, <1>3, PoolStepDrains, RecoveryStepDrains, OutsideStepDrains
       DEF Next, DrainInv

\* NoClaimLeft, the first half of CleanDrain, holds of every execution of the workflow:
\* while nothing goes wrong outside the program, an execution that came to its end, by
\* draining, by cancellation or because the repository refused a call, leaves no claim of
\* its run behind.
THEOREM DrainLeavesNoClaim == Workflow => []NoClaimLeft
<1>1. WorkflowInit => DrainInv
    <2> SUFFICES ASSUME WorkflowInit PROVE DrainInv
        OBVIOUS
    <2>1. BusyInv
        BY DEF WorkflowInit, BusyInv, Idle
    <2>2. ClaimsHeld
        BY DEF WorkflowInit, RepoInit, FreshJob, ClaimsHeld, Undisturbed, ClaimHeld, SlotStatus
    <2> QED
        BY <2>1, <2>2, InitWorkflow DEF DrainInv
<1>2. ASSUME DrainInv PROVE NoClaimLeft
    <2> SUFFICES ASSUME NEW r \in Runs, faults = 0, pool[r] \in {"between", "idle"},
                        NEW j \in JobsOf(r), job[j].status \in SlotStatus
                 PROVE  FALSE
        BY DEF NoClaimLeft
    <2> PICK w : w = job[j].token
        OBVIOUS
    <2>1. /\ j \in Jobs /\ w \in Tokens /\ JobAt(w) = j /\ AtWork(worker[w], job[j].status)
        BY <1>2 DEF DrainInv, ClaimsHeld, Undisturbed, ClaimHeld, JobsOf
    <2>2. worker[w].pc \notin Free
        BY <2>1 DEF AtWork, Free
    <2>3. WorkerRun[w] = r
        BY <1>2, <2>1, <2>2 DEF DrainInv, WorkflowInv, ServiceTypeOK, WorkersOK, Prepared,
           JobAt, JobsOf
    <2> QED
        BY <1>2, <2>1, <2>2, <2>3 DEF DrainInv, BusyInv, Free
<1> QED
    BY <1>1, <1>2, NextDrains, PTL DEF Workflow

-----------------------------------------------------------------------------
(* Nothing is refused.  While nothing goes wrong outside the program and nobody  *)
(* cancels, the tables agree with what a worker is about to ask of them, at each *)
(* point of its way through a job.                                               *)

\* The cache identities of a job.
Own(j) == {CacheKey[j], LocalKey[j]}

\* What the clean drain asks for.  No two jobs share a cache identity.  Those of one plan do
\* not: the identity hashes the request's, which names the chunk, and the chunks of a plan
\* are told apart.  Another run of the same plan does: that its entries turn up behind a
\* preview is what the eligibility check refuses, so it has to be excluded.
PrivateKeys == \A i, j \in Jobs : i # j => Own(i) \cap Own(j) = {}

\* The web server executes one run at a time, on as many threads as there are submission
\* slots at most.
EnoughSlots == IsFiniteSet(Tokens) /\ Cardinality(Tokens) <= SlotLimit

\* A job only ever caches under its own identities.
KeysOwn ==
    /\ \A j \in Jobs : job[j].key \in Own(j) \cup {NoKey}
    /\ \A w \in Tokens : worker[w].pc \in {"record", "continue", "store"} =>
                             worker[w].key \in Own(JobAt(w))

\* What a step leaves of a job that is not its own.
SameJob(k) == /\ job'[k] = job[k] /\ attempts'[k] = attempts[k] /\ published'[k] = published[k]
              /\ \A x \in Own(k) : cache'[x] = cache[x]
Elsewhere(j) == \A k \in Jobs \ {j} : SameJob(k)

\* The identities of a job are keys of the cache.
LEMMA OwnKeys ==
    ASSUME NEW j \in Jobs
    PROVE  Own(j) \subseteq Keys /\ NoKey \notin Own(j)
BY RepositoryAssumption, WorkflowAssumption DEF Own

\* A transaction on a job leaves the other ones alone.
LEMMA JobCallElsewhere ==
    ASSUME RepoTypeOK, KeysOwn, PrivateKeys, NEW j \in Jobs, JobCall(j)
    PROVE  Elsewhere(j)
<1> SUFFICES ASSUME NEW k \in Jobs, k # j PROVE SameJob(k)
    BY DEF Elsewhere
<1>1. /\ job \in [Jobs -> JobRow] /\ published \in [Jobs -> Results \cup {NoResult, Structural}]
      /\ attempts \in [Jobs -> Seq(AttemptRow)]
      /\ cache \in [Keys -> Results \cup {NoResult}]
    BY DEF RepoTypeOK
<1>2. job'[k] = job[k] /\ published'[k] = published[k]
    BY <1>1 DEF JobCall, LaterCall, StoreRetryApproval, RegisterJob, StoreCache,
       DeferResumableJob, FinalizeJob, RecordContinuation, PublishJob, RecordValidated
<1>3. attempts'[k] = attempts[k]
    BY <1>1 DEF JobCall, LaterCall, StoreRetryApproval, RegisterJob, StoreCache,
       DeferResumableJob, FinalizeJob, RecordContinuation, PublishJob, RecordValidated, WithLatest
<1>4. \A x \in Own(k) : cache'[x] = cache[x]
    <2>1. cache' = cache \/ cache' = [cache EXCEPT ![job[j].key] = job[j].result]
        BY DEF JobCall, LaterCall, StoreRetryApproval, RegisterJob, StoreCache,
           DeferResumableJob, FinalizeJob, RecordContinuation, PublishJob, RecordValidated
    <2>2. job[j].key \notin Own(k)
        BY OwnKeys DEF KeysOwn, PrivateKeys
    <2> QED
        BY <1>1, <2>1, <2>2, OwnKeys
<1> QED
    BY <1>2, <1>3, <1>4 DEF SameJob

\* So does one of the holder of its lease.
LEMMA HolderElsewhere ==
    ASSUME RepoTypeOK, NEW w \in Tokens, NEW j \in Jobs, NEW d, NEW kind,
           \/ ReleaseClaim(w, j) \/ Completes(w, j, d)
           \/ MarkTransmitting(w, j) \/ ReserveAttempt(w, j, kind)
    PROVE  Elsewhere(j) /\ published' = published /\ cache' = cache
<1> SUFFICES ASSUME NEW k \in Jobs, k # j
             PROVE  SameJob(k) /\ published' = published /\ cache' = cache
    <2>1. published' = published /\ cache' = cache
        BY DEF ReleaseClaim, Completes, CompleteAttempt, MarkTransmitting, ReserveAttempt
    <2> QED
        BY <2>1 DEF Elsewhere
<1>1. job \in [Jobs -> JobRow] /\ attempts \in [Jobs -> Seq(AttemptRow)]
    BY DEF RepoTypeOK
<1>2. published' = published /\ cache' = cache
    BY DEF ReleaseClaim, Completes, CompleteAttempt, MarkTransmitting, ReserveAttempt
<1>3. job'[k] = job[k]
    BY <1>1 DEF ReleaseClaim, Completes, CompleteAttempt, MarkTransmitting, ReserveAttempt
<1>4. attempts'[k] = attempts[k]
    BY <1>1 DEF ReleaseClaim, Completes, CompleteAttempt, MarkTransmitting, ReserveAttempt,
       Settled, WithLatest
<1> QED
    BY <1>2, <1>3, <1>4 DEF SameJob

\* While no lease is expired, a claim moves only the job it hands out: a pending one, or a
\* continuation whose lease was released.
NoneExpired == \A k \in Jobs : ~job[k].expired

\* Without an expired lease the recovery of leases changes no row ...
LEMMA NothingDue ==
    ASSUME RepoTypeOK, NoneExpired
    PROVE  DueNow = {} /\ JobsAfter(DueNow) = job /\ AttemptsAfter(DueNow) = attempts
<1>1. DueNow = {}
    BY DEF NoneExpired, DueNow
<1>2. job \in [Jobs -> JobRow] /\ attempts \in [Jobs -> Seq(AttemptRow)]
    BY DEF RepoTypeOK
<1>3. JobsAfter({}) = job /\ AttemptsAfter({}) = attempts
    BY <1>2 DEF JobsAfter, AttemptsAfter
<1> QED
    BY <1>1, <1>3

\* What a claim that hands job j to w does then.
ClaimsAlone(w, r, j) ==
    /\ Elsewhere(j) /\ cache' = cache /\ published' = published /\ attempts' = attempts
    /\ RunOf[j] = r
    /\ \/ /\ job[j].status \in {"returned", "validated"}
          /\ job[j].token = NoToken
          /\ job' = [job EXCEPT ![j] = Leased(job[j], w)]
       \/ /\ job[j].status = "pending"
          /\ job' = [job EXCEPT ![j] = [Leased(job[j], w) EXCEPT !.status = "claimed"]]

\* ... so that a claim touches the job it hands out alone, one that nobody holds ...
LEMMA ClaimElsewhere ==
    ASSUME RepoTypeOK, NoneExpired, NEW w \in Tokens, NEW r \in Runs, NEW j \in Jobs,
           ClaimNextJob(w, r, FALSE, j)
    PROVE  ClaimsAlone(w, r, j)
<1>1. JobsBeforeClaim(FALSE) = job /\ AttemptsAfter(DueNow) = attempts
    BY NothingDue DEF JobsBeforeClaim
<1>2. job \in [Jobs -> JobRow]
    BY DEF RepoTypeOK
<1>3. /\ cache' = cache /\ published' = published /\ attempts' = attempts
      /\ RunOf[j] = r
      /\ \/ /\ job[j].status \in {"returned", "validated"}
            /\ job[j].token = NoToken \/ job[j].expired
            /\ job' = [job EXCEPT ![j] = Leased(job[j], w)]
         \/ /\ job[j].status = "pending"
            /\ job' = [job EXCEPT ![j] = [Leased(job[j], w) EXCEPT !.status = "claimed"]]
    BY <1>1 DEF ClaimNextJob, First, Continuable, Startable
<1>4. Elsewhere(j)
    BY <1>2, <1>3 DEF Elsewhere, SameJob
<1> QED
    BY <1>3, <1>4 DEF NoneExpired, ClaimsAlone

\* ... and one that finds nothing touches none.
LEMMA ClaimNothingSame ==
    ASSUME RepoTypeOK, NoneExpired, NEW r \in Runs, ClaimNothing(r, FALSE)
    PROVE  \A k \in Jobs : SameJob(k)
BY NothingDue DEF ClaimNothing, JobsBeforeClaim, SameJob

\* A transaction on a run leaves the jobs of the other ones alone.
LEMMA RunStepElsewhere ==
    ASSUME RepoTypeOK, NoneExpired, NEW r \in Runs, RunStep(r)
    PROVE  \A k \in Jobs : RunOf[k] # r => SameJob(k)
<1> SUFFICES ASSUME NEW k \in Jobs, RunOf[k] # r PROVE SameJob(k)
    OBVIOUS
<1>1. CASE StoreRunApproval(r)
    BY <1>1 DEF StoreRunApproval, SameJob
<1>2. CASE CancelRun(r)
    BY <1>2 DEF CancelRun, SameJob
<1>3. CASE ActivateResumableJobs(r)
    BY <1>3 DEF ActivateResumableJobs, SameJob
<1>4. CASE RecoverRun(r)
    <2>1. k \notin DueInRun(r) /\ k \notin Lost(r)
        BY NothingDue DEF DueInRun, Lost, JobsOf
    <2> QED
        BY <1>4, <2>1 DEF RecoverRun, JobsAfter, AttemptsAfter, SameJob
<1> QED
    BY <1>1, <1>2, <1>3, <1>4 DEF RunStep

-----------------------------------------------------------------------------
(* Keys: a job only ever caches under its own identities (KeysOwn).              *)

KeyStays(k) == job'[k].key \in {job[k].key, NoKey}

\* What the writers of a row make of its key: nothing.
LEMMA MovedKey ==
    ASSUME NEW row \in JobRow, NEW s
    PROVE  /\ [row EXCEPT !.status = s].key = row.key
           /\ [Unleased(row) EXCEPT !.status = s].key = row.key
BY DEF JobRow, Unleased

\* Nor of its key when they resolve it ...
LEMMA ResolvedKey ==
    ASSUME NEW row \in JobRow, NEW s, NEW x
    PROVE  /\ [row EXCEPT !.status = s, !.resolution = x].key = row.key
           /\ [Unleased(row) EXCEPT !.status = s, !.resolution = x].key = row.key
BY DEF JobRow, Unleased

\* ... or lease it ...
LEMMA LeasedKey ==
    ASSUME NEW row \in JobRow, NEW w
    PROVE  /\ Leased(row, w).key = row.key
           /\ [Leased(row, w) EXCEPT !.status = "claimed"].key = row.key
BY DEF JobRow, Leased

\* ... or recover it.
LEMMA RecoveredKeys ==
    ASSUME RepoTypeOK, NEW due, NEW k \in Jobs
    PROVE  JobsAfter(due)[k].key = job[k].key
<1>1. job[k] \in JobRow
    BY DEF RepoTypeOK
<1>2. PICK s : RecoveredJob(k) = [Unleased(job[k]) EXCEPT !.status = s]
    BY Zenon DEF RecoveredJob
<1>3. RecoveredJob(k).key = job[k].key
    BY <1>1, <1>2, MovedKey
<1> QED
    BY <1>3 DEF JobsAfter

\* Only record_validated gives a job a key.
LEMMA JobCallKeys ==
    ASSUME RepoTypeOK, NEW j \in Jobs, NEW k \in Jobs,
           \/ StoreRetryApproval(j) \/ RegisterJob(j) \/ StoreCache(j) \/ DeferResumableJob(j)
           \/ \E res : FinalizeJob(j, res)
           \/ \E c : RecordContinuation(j, c)
           \/ \E result : PublishJob(j, result)
           \/ ExpireLease(j)
    PROVE  KeyStays(k)
<1>1. job[k] \in JobRow /\ job[j] \in JobRow /\ job \in [Jobs -> JobRow]
    BY DEF RepoTypeOK
<1>2. CASE k # j
    BY <1>1, <1>2 DEF KeyStays, StoreRetryApproval, RegisterJob, StoreCache, DeferResumableJob,
       FinalizeJob, RecordContinuation, PublishJob, ExpireLease
<1>3. CASE k = j
    <2>1. CASE StoreRetryApproval(j) \/ StoreCache(j) \/ DeferResumableJob(j) \/ ExpireLease(j)
        BY <1>1, <1>3, <2>1 DEF KeyStays, StoreRetryApproval, StoreCache, DeferResumableJob,
           ExpireLease, JobRow
    <2>2. CASE RegisterJob(j)
        BY <1>1, <1>3, <2>2 DEF KeyStays, RegisterJob, FreshJob
    <2>3. ASSUME NEW res, FinalizeJob(j, res) PROVE KeyStays(k)
        <3> PICK s : s = FinalizedStatus(res)
            OBVIOUS
        <3>1. job'[j] = [Unleased(job[j]) EXCEPT !.status = s, !.resolution = res]
            BY <1>1, <2>3 DEF FinalizeJob
        <3> QED
            BY <1>1, <1>3, <3>1, ResolvedKey DEF KeyStays
    <2>4. ASSUME NEW c, RecordContinuation(j, c) PROVE KeyStays(k)
        BY <1>1, <1>3, <2>4 DEF KeyStays, RecordContinuation, JobRow
    <2>5. ASSUME NEW result, PublishJob(j, result) PROVE KeyStays(k)
        BY <1>1, <1>3, <2>5 DEF KeyStays, PublishJob, JobRow
    <2> QED
        BY <2>1, <2>2, <2>3, <2>4, <2>5
<1> QED
    BY <1>2, <1>3

\* The transactions of a lease's holder give none,
LEMMA HolderKeys ==
    ASSUME RepoTypeOK, NEW w \in Tokens, NEW j \in Jobs, NEW k \in Jobs, NEW d, NEW kind,
           \/ ReleaseClaim(w, j) \/ Completes(w, j, d)
           \/ MarkTransmitting(w, j) \/ ReserveAttempt(w, j, kind)
    PROVE  KeyStays(k)
<1>1. job[k] \in JobRow /\ job[j] \in JobRow /\ job \in [Jobs -> JobRow]
    BY DEF RepoTypeOK
<1>2. CASE k # j
    <2>1. Elsewhere(j)
        BY HolderElsewhere
    <2> QED
        BY <1>2, <2>1 DEF Elsewhere, SameJob, KeyStays
<1>3. CASE k = j
    <2>1. CASE MarkTransmitting(w, j) \/ ReserveAttempt(w, j, kind)
        BY <1>1, <1>3, <2>1 DEF KeyStays, MarkTransmitting, ReserveAttempt, JobRow
    <2>2. CASE ReleaseClaim(w, j)
        <3>1. PICK s : job'[j] = [Unleased(job[j]) EXCEPT !.status = s]
            BY <1>1, <2>2 DEF ReleaseClaim, Released
        <3> QED
            BY <1>1, <1>3, <3>1, MovedKey DEF KeyStays
    <2>3. CASE Completes(w, j, d)
        <3>1. PICK s, x : \/ job'[j] = [job[j] EXCEPT !.status = s]
                          \/ job'[j] = [Unleased(job[j]) EXCEPT !.status = s, !.resolution = x]
            <4> PICK next : next = IF Cancelled(j) THEN "cancelled"
                                   ELSE IF d = "definitely_not_transmitted"
                                        THEN IF d = "definitely_not_transmitted"
                                             THEN "finalized" ELSE "pending"
                                   ELSE IF d = "indeterminate" THEN "indeterminate"
                                   ELSE "returned"
                OBVIOUS
            <4> PICK x : x = IF next = "finalized" THEN "resumable" ELSE "none"
                OBVIOUS
            <4>1. job' = [job EXCEPT ![j] =
                             IF next = "returned" THEN [job[j] EXCEPT !.status = next]
                             ELSE [Unleased(job[j]) EXCEPT !.status = next, !.resolution = x]]
                BY <1>1, <2>3 DEF Completes, CompleteAttempt
            <4> QED
                BY <1>1, <4>1
        <3> QED
            <4>1. /\ [job[j] EXCEPT !.status = s].key = job[j].key
                  /\ [Unleased(job[j]) EXCEPT !.status = s, !.resolution = x].key = job[j].key
                BY <1>1, MovedKey, ResolvedKey
            <4> QED
                BY <1>3, <3>1, <4>1 DEF KeyStays
    <2> QED
        BY <2>1, <2>2, <2>3
<1> QED
    BY <1>2, <1>3

\* nor do those on a run,
LEMMA RunStepKeys ==
    ASSUME RepoTypeOK, NEW r \in Runs, RunStep(r), NEW k \in Jobs
    PROVE  KeyStays(k)
<1>1. job[k] \in JobRow
    BY DEF RepoTypeOK
<1>2. CASE StoreRunApproval(r)
    BY <1>2 DEF StoreRunApproval, KeyStays
<1>3. CASE CancelRun(r)
    BY <1>1, <1>3, MovedKey DEF CancelRun, KeyStays
<1>4. CASE ActivateResumableJobs(r)
    <2>1. [job[k] EXCEPT !.status = "pending", !.resolution = "none"].key = job[k].key
        BY <1>1, ResolvedKey
    <2> QED
        BY <1>4, <2>1 DEF ActivateResumableJobs, KeyStays
<1>5. CASE RecoverRun(r)
    BY <1>1, <1>5, MovedKey, RecoveredKeys DEF RecoverRun, KeyStays
<1> QED
    BY <1>2, <1>3, <1>4, <1>5 DEF RunStep

\* nor does a claim.
LEMMA ClaimKeys ==
    ASSUME RepoTypeOK, NEW w, NEW r \in Runs, NEW k \in Jobs,
           ClaimNothing(r, FALSE) \/ \E j \in Jobs : ClaimNextJob(w, r, FALSE, j)
    PROVE  KeyStays(k)
<1> PICK rows : rows = JobsAfter(DueNow)
    OBVIOUS
<1>1. rows \in [Jobs -> JobRow] /\ rows = JobsBeforeClaim(FALSE)
    BY AfterTyped DEF JobsBeforeClaim
<1>2. rows[k].key = job[k].key
    BY RecoveredKeys
<1>3. \/ job' = rows
      \/ \E j \in Jobs : \/ job' = [rows EXCEPT ![j] = Leased(rows[j], w)]
                         \/ job' = [rows EXCEPT ![j] = [Leased(rows[j], w) EXCEPT !.status = "claimed"]]
    BY <1>1 DEF ClaimNothing, ClaimNextJob
<1> QED
    <2>1. CASE job' = rows
        BY <1>2, <2>1 DEF KeyStays
    <2>2. ASSUME NEW j \in Jobs, NEW row, job' = [rows EXCEPT ![j] = row],
                 row \in {Leased(rows[j], w), [Leased(rows[j], w) EXCEPT !.status = "claimed"]}
          PROVE  KeyStays(k)
        <3>1. /\ Leased(rows[j], w).key = rows[j].key
              /\ [Leased(rows[j], w) EXCEPT !.status = "claimed"].key = rows[j].key
            BY <1>1, LeasedKey
        <3>2. row.key = rows[j].key
            BY <2>2, <3>1
        <3> QED
            BY <1>1, <1>2, <2>2, <3>2 DEF KeyStays
    <2> QED
        BY <1>3, <2>1, <2>2

KeyPoint == {"record", "continue", "store"}

\* A worker takes on a key when it gets to record a result, and that is one of its job's.
WorkerKeyOwn(row) == row.pc \in KeyPoint => row.key \in Own(row.job)

\* A job is looked up under one of its identities.
LEMMA LookupKeyOwn == ASSUME NEW j PROVE LookupKey(j) \in Own(j)
BY DEF LookupKey, Own

\* So the key a worker goes on to record, continue or store with is its job's: it is the
\* one looked up, or the one frozen for the kind of call.
LEMMA WorkerStepKeys ==
    ASSUME ServiceTypeOK, RepoTypeOK, KeysOwn, NEW w \in Tokens, WorkerStep(w)
    PROVE  WorkerKeyOwn(worker'[w])
<1> PICK j, row : j = JobAt(w) /\ row = worker[w]
    OBVIOUS
<1>0. /\ worker \in [Tokens -> WorkerRow] /\ row \in WorkerRow /\ row.job = j
      /\ WorkerKeyOwn(row) /\ row.pc \notin {"off"}
    BY WorkerMoves DEF ServiceTypeOK, WorkersOK, KeysOwn, JobAt, WorkerKeyOwn, KeyPoint
<1>b. ASSUME worker'[w].pc \notin KeyPoint PROVE WorkerKeyOwn(worker'[w])
    BY <1>b DEF WorkerKeyOwn
<1>c. \A res : Finish(w, res) => worker'[w].pc = "finish"
    BY <1>0 DEF Finish, WorkerRow
<1>d. \A pc : Goto(w, pc) => /\ worker'[w].pc = pc /\ worker'[w].job = row.job
                             /\ worker'[w].key = row.key
    BY <1>0 DEF Goto, WorkerRow
<1>e. Refused(w) => worker'[w].pc = "release"
    BY <1>0 DEF Refused, Raise, WorkerRow
<1>1. CASE Poll(w) \/ Claim(w) \/ Held(w) \/ Release(w)
    <2>1. worker'[w].pc \in {"off", "poll", "claim", "held", "lookup", "release", "finish"}
        <3>1. CASE Poll(w)
            BY <1>0, <1>d, <3>1 DEF Poll, Idle
        <3>2. CASE Claim(w)
            <4>1. ASSUME NEW k, NEW kind,
                         worker' = [worker EXCEPT ![w] = [Idle EXCEPT !.pc = "held", !.job = k,
                                                                      !.kind = kind]]
                  PROVE  worker'[w].pc = "held"
                BY <1>0, <4>1 DEF Idle
            <4>2. worker' = [worker EXCEPT ![w] = Idle] => worker'[w].pc = "off"
                BY <1>0 DEF Idle
            <4> QED
                BY <3>2, <4>1, <4>2 DEF Claim
        <3>3. CASE Held(w)
            BY <1>0, <1>c, <1>d, <3>3 DEF Held, WorkerRow
        <3>4. CASE Release(w)
            BY <1>0, <3>4 DEF Release, Idle
        <3> QED
            BY <1>1, <3>1, <3>2, <3>3, <3>4
    <2> QED
        BY <1>b, <2>1 DEF KeyPoint
<1>2. CASE Lookup(w)
    <2>1. CASE UseCached(w, LookupKey(j))
        <3>1. \/ worker'[w].pc = "finish"
              \/ worker'[w].job = j /\ worker'[w].key = LookupKey(j)
            BY <1>0, <1>c, <2>1 DEF UseCached, WorkerRow
        <3> QED
            BY <3>1, LookupKeyOwn DEF WorkerKeyOwn, KeyPoint
    <2>2. CASE ~UseCached(w, LookupKey(j))
        <3>1. worker'[w].pc \in {"finish", "reserve", "release"}
            BY <1>2, <1>c, <1>d, <1>e, <2>2 DEF Lookup
        <3> QED
            BY <1>b, <3>1 DEF KeyPoint
    <2> QED
        BY <2>1, <2>2
<1>3. CASE Reserve(w) \/ Prepare(w) \/ Mark(w) \/ Marked(w) \/ Submit(w) \/ Refuse(w)
    <2>1. worker'[w].pc \in Point \ KeyPoint
        <3>1. CASE Reserve(w)
            BY <1>0, <1>c, <1>e, <3>1 DEF Reserve, WorkerRow, Point, KeyPoint
        <3>2. CASE Prepare(w)
            BY <1>0, <3>2 DEF Prepare, WorkerRow, Point, KeyPoint
        <3>3. CASE Mark(w)
            BY <1>0, <1>d, <1>e, <3>3 DEF Mark, WorkerRow, Point, KeyPoint
        <3>4. CASE Marked(w)
            BY <1>0, <3>4 DEF Marked, WorkerRow, Point, KeyPoint
        <3>5. CASE Submit(w)
            BY <1>0, <3>5 DEF Submit, WorkerRow, Point, KeyPoint
        <3>6. CASE Refuse(w)
            BY <1>0, <1>e, <3>6 DEF Refuse, WorkerRow, Point, KeyPoint
        <3> QED
            BY <1>3, <3>1, <3>2, <3>3, <3>4, <3>5, <3>6
    <2> QED
        BY <1>b, <2>1
<1>4. CASE Complete(w)
    <2>1. CASE Refused(w)
        BY <1>b, <1>e, <2>1 DEF KeyPoint
    <2>2. CASE AfterCall(w)
        <3>1. row.reply \in Reply \ {"none"}
            BY <1>0, <1>4 DEF Complete, AtPoint, ServiceTypeOK, WorkersOK, Prepared, WorkerRow
        <3> PICK k : k = IF row.kind = "refusal_fallback" THEN LocalKey[j] ELSE CacheKey[j]
            OBVIOUS
        <3>2. \/ worker' = [worker EXCEPT ![w].pc = "record", ![w].key = k]
              \/ Goto(w, "refuse") \/ \E res : Finish(w, res)
            BY <2>2, <3>1 DEF AfterCall, Reply, SentReply, UnsentReply, ResultReply
        <3>3. \/ worker'[w].pc \in {"refuse", "finish"}
              \/ worker'[w].job = j /\ worker'[w].key = k
            BY <1>0, <1>c, <1>d, <3>2 DEF WorkerRow
        <3> QED
            BY <3>3 DEF WorkerKeyOwn, Own, KeyPoint
    <2> QED
        BY <1>4, <2>1, <2>2 DEF Complete
<1>5. CASE Record(w) \/ Continue(w)
    <2>1. row.pc \in KeyPoint
        BY <1>5 DEF Record, Continue, AtPoint, KeyPoint
    <2>2. \/ worker'[w].pc \in {"finish", "reserve", "release"}
          \/ worker'[w].job = row.job /\ worker'[w].key = row.key
        <3>1. CASE Record(w)
            BY <1>c, <1>d, <1>e, <3>1 DEF Record, AfterValidation
        <3>2. CASE Continue(w)
            BY <1>0, <1>c, <1>d, <1>e, <3>2 DEF Continue, AfterValidation, WorkerRow
        <3> QED
            BY <1>5, <3>1, <3>2
    <2> QED
        BY <1>0, <2>1, <2>2 DEF WorkerKeyOwn, KeyPoint
<1>6. CASE Store(w) \/ FinishJob(w) \/ Publish(w)
    <2>1. worker'[w].pc \in {"finish", "publish", "release"}
        BY <1>6, <1>c, <1>d, <1>e DEF Store, FinishJob, Publish, AfterFinish
    <2> QED
        BY <1>b, <2>1 DEF KeyPoint
<1> QED
    BY <1>1, <1>2, <1>3, <1>4, <1>5, <1>6 DEF WorkerStep

\* What is recorded is recorded under the key the worker got it for.
LEMMA RecordKeys ==
    ASSUME RepoTypeOK, KeysOwn, NEW w \in Tokens, NEW j \in Jobs, j = JobAt(w), NEW o,
           worker[w].pc = "record", RecordValidated(j, o, worker[w].reply, worker[w].key),
           NEW k \in Jobs
    PROVE  job'[k].key \in Own(k) \cup {NoKey}
<1> PICK a, x : a = job[j] /\ x = worker[w].key
    OBVIOUS
<1>1. a \in JobRow /\ job \in [Jobs -> JobRow] /\ x \in Own(j)
    BY DEF RepoTypeOK, KeysOwn
<1>2. \/ job' = job
      \/ job' = [job EXCEPT ![j] = [a EXCEPT !.status = "validated",
                                            !.result = worker[w].reply, !.key = x]]
    BY <1>1 DEF RecordValidated
<1>3. [a EXCEPT !.status = "validated", !.result = worker[w].reply, !.key = x].key = x
    BY <1>1 DEF JobRow
<1> QED
    BY <1>1, <1>2, <1>3 DEF KeysOwn

\* Every step keeps the keys.
LEMMA NextKeys ==
    ASSUME ServiceTypeOK, RepoTypeOK, KeysOwn, [Next]_vars
    PROVE  KeysOwn'
<1>1. ASSUME NEW k \in Jobs PROVE job'[k].key \in Own(k) \cup {NoKey}
    <2>0. KeyStays(k) => job'[k].key \in Own(k) \cup {NoKey}
        BY DEF KeyStays, KeysOwn
    <2>a. UNCHANGED repoVars => KeyStays(k)
        BY DEF repoVars, KeyStays
    <2>b. \A w \in Tokens : worker[w].pc \notin Free => JobAt(w) \in Jobs
        BY DEF ServiceTypeOK, WorkersOK, Prepared, JobAt, JobsOf
    <2>1. ASSUME NEW w \in Tokens, WorkerStep(w)
          PROVE  job'[k].key \in Own(k) \cup {NoKey}
        <3> PICK j : j = JobAt(w)
            OBVIOUS
        <3>1. CASE Poll(w) \/ Held(w) \/ Lookup(w) \/ Prepare(w) \/ Marked(w) \/ Submit(w)
            BY <2>0, <2>a, <3>1
               DEF Poll, Held, Lookup, Prepare, Marked, Submit, OnlyWorker, Refused, repoVars
        <3>2. CASE Claim(w)
            <4>1. WorkerRun[w] \in Runs
                BY WorkflowAssumption
            <4> QED
                BY <2>0, <3>2, <4>1, ClaimKeys DEF Claim
        <3>3. CASE Release(w) \/ Reserve(w) \/ Mark(w) \/ Complete(w)
            <4>1. j \in Jobs
                BY <2>b, <3>3 DEF Release, Reserve, Mark, Complete, AtPoint, Free
            <4>2. \/ UNCHANGED repoVars
                  \/ ReleaseClaim(w, j) \/ \E d : Completes(w, j, d)
                  \/ MarkTransmitting(w, j) \/ \E kind : ReserveAttempt(w, j, kind)
                BY <3>3 DEF Release, Reserve, Mark, Complete, OnlyWorker, Refused, Completes,
                   repoVars
            <4> QED
                BY <2>0, <2>a, <4>1, <4>2, HolderKeys
        <3>4. CASE Refuse(w) \/ Continue(w) \/ Store(w) \/ FinishJob(w) \/ Publish(w)
            <4>1. j \in Jobs
                BY <2>b, <3>4 DEF Refuse, Continue, Store, FinishJob, Publish, AtPoint, Free
            <4>2. \/ UNCHANGED repoVars
                  \/ StoreCache(j) \/ DeferResumableJob(j)
                  \/ \E res : FinalizeJob(j, res)
                  \/ \E c : RecordContinuation(j, c)
                  \/ \E result : PublishJob(j, result)
                BY <3>4 DEF Refuse, Continue, Store, FinishJob, Publish, OnlyWorker, Refused,
                   repoVars
            <4> QED
                BY <2>0, <2>a, <4>1, <4>2, JobCallKeys
        <3>5. CASE Record(w)
            <4>1. j \in Jobs /\ worker[w].pc = "record"
                BY <2>b, <3>5 DEF Record, AtPoint, Free
            <4> QED
                BY <2>0, <2>a, <3>5, <4>1, RecordKeys DEF Record, Refused
        <3> QED
            BY <2>1, <3>1, <3>2, <3>3, <3>4, <3>5 DEF WorkerStep
    <2>2. ASSUME NEW r \in Runs, PoolStep(r)
          PROVE  job'[k].key \in Own(k) \cup {NoKey}
        <3>1. \A j : j \in Absent(RollupsOf(r)) \/ j \in Absent(SectionsOf(r)) => j \in Jobs
            BY DEF Absent, RollupsOf, SectionsOf, JobsOf
        <3>2. UNCHANGED repoVars \/ RunStep(r) \/ \E j \in Jobs : RegisterJob(j)
            BY <2>2, <3>1 DEF PoolStep, Validate, Begin, Drain, NextPhase, RegisterSections,
               OnlyPool, RunStep, repoVars
        <3> QED
            BY <2>0, <2>a, <3>2, RunStepKeys, JobCallKeys
    <2>3. ASSUME NEW r \in Runs, RecoveryStep(r)
          PROVE  job'[k].key \in Own(k) \cup {NoKey}
        <3>1. ASSUME NEW j \in Jobs, First(Chores(r), j), DoChore(r, j) PROVE KeyStays(k)
            <4>0. recovery[r].chore[j] \in {"defer", "store", "finalize", "publish"}
                BY <3>1 DEF ServiceTypeOK, PoolsOK, First, Chores, Chore
            <4>1. \/ UNCHANGED repoVars \/ DeferResumableJob(j) \/ StoreCache(j)
                  \/ FinalizeJob(j, "accepted") \/ PublishJob(j, PublishedForm(j))
                BY <3>1, <4>0 DEF DoChore
            <4> QED
                BY <2>a, <4>1, JobCallKeys
        <3>2. UNCHANGED repoVars \/ RunStep(r) \/ KeyStays(k)
            BY <2>3, <3>1 DEF RecoveryStep, RecoverLeases, ListJobs, Loop, EndResume, RunStep,
               repoVars
        <3> QED
            BY <2>0, <2>a, <3>2, RunStepKeys
    <2>4. CASE Command \/ Fault
        <3>1. \/ UNCHANGED repoVars \/ \E r \in Runs : RunStep(r)
              \/ \E j \in Jobs : StoreRetryApproval(j) \/ ExpireLease(j)
            BY <2>4 DEF Command, Fault, Start, Resume, Cancel, ApproveRetry, Crash, Expire,
               RunStep, repoVars
        <3> QED
            BY <2>0, <2>a, <3>1, RunStepKeys, JobCallKeys
    <2>5. CASE UNCHANGED vars
        BY <2>0, <2>a, <2>5 DEF vars, repoVars
    <2> QED
        BY <2>1, <2>2, <2>3, <2>4, <2>5 DEF Next
<1>2. ASSUME NEW v \in Tokens PROVE WorkerKeyOwn(worker'[v])
    <2>0. WorkerKeyOwn(worker[v])
        BY DEF KeysOwn, WorkerKeyOwn, KeyPoint, JobAt
    <2>a. worker'[v] = worker[v] => WorkerKeyOwn(worker'[v])
        BY <2>0
    <2>1. CASE WorkerStep(v)
        BY <2>1, WorkerStepKeys
    <2>2. ASSUME NEW w \in Tokens, w # v, WorkerStep(w) PROVE worker'[v] = worker[v]
        BY <2>2, WorkerMoves DEF Stands
    <2>3. ASSUME NEW r \in Runs, PoolStep(r) \/ RecoveryStep(r)
          PROVE  WorkerKeyOwn(worker'[v])
        <3>1. \/ worker'[v] = worker[v]
              \/ worker'[v] = [Idle EXCEPT !.pc = "poll"]
            BY <2>3 DEF PoolStep, Validate, Begin, Drain, NextPhase, RegisterSections, OnlyPool,
               RecoveryStep, RecoverLeases, ListJobs, Loop, EndResume, OnlyRecovery
        <3>2. [Idle EXCEPT !.pc = "poll"].pc = "poll"
            BY DEF Idle
        <3> QED
            BY <2>0, <3>1, <3>2 DEF WorkerKeyOwn, KeyPoint
    <2>4. CASE Command \/ Fault
        <3>1. worker'[v] = worker[v] \/ worker'[v] = Idle
            BY <2>4 DEF Command, Fault, Start, Resume, Cancel, ApproveRetry, Crash, Expire,
               serviceVars
        <3>2. Idle.pc = "off"
            BY DEF Idle
        <3> QED
            BY <2>0, <3>1, <3>2 DEF WorkerKeyOwn, KeyPoint
    <2>5. CASE UNCHANGED vars
        BY <2>0, <2>5 DEF vars, serviceVars
    <2> QED
        BY <2>a, <2>1, <2>2, <2>3, <2>4, <2>5 DEF Next
<1> QED
    BY <1>1, <1>2 DEF KeysOwn, WorkerKeyOwn, KeyPoint, JobAt

-----------------------------------------------------------------------------
(* The way of a worker through a job.                                           *)

\* The entries of the cache under a job's identities.
Memory(j) == [k \in Own(j) |-> cache[k]]

LastOf(calls) == calls[Len(calls)]
Replied(calls) == /\ Len(calls) > 0
                  /\ LastOf(calls).status = "returned"
                  /\ LastOf(calls).disposition = "transmitted"

\* There was nothing to be used when the job was looked up.
NothingCached(j, memory) ==
    /\ memory[CacheKey[j]] = NoResult
    /\ Fallback /\ j \notin Derived => memory[LocalKey[j]] = NoResult

\* The identity a fresh result is recorded under.
KeyFor(kind, j) == IF kind = "refusal_fallback" THEN LocalKey[j] ELSE CacheKey[j]

\* The worker is at the first call of its job, or at the one that continues it.
Opening(me, row) ==
    /\ me.kind \in PrimaryKinds
    /\ me.kind = "mapping" <=> me.job \notin Derived
    /\ row.cont = "mapping" /\ row.key = NoKey
Following(me, row) ==
    /\ me.kind \in ContinuationKinds /\ (me.kind = "refusal_fallback" => Fallback)
    /\ me.job \notin Derived
    /\ row.cont = me.kind /\ row.key \in {NoKey, KeyFor(me.kind, me.job)}

Called(me, row, calls) ==
    /\ Len(calls) = me.attempt /\ me.attempt > 0
    /\ LastOf(calls).kind = me.kind /\ LastOf(calls).validated = NoResult
    /\ (Opening(me, row) /\ Len(calls) = 1) \/ Following(me, row)

AtStart(me, row, calls) ==
    /\ me.pc \in {"held", "lookup"} /\ ~me.cached
    /\ row.status = "claimed" /\ calls = <<>> /\ Opening(me, row)

AtReserve(me, row, calls, memory) ==
    /\ me.pc = "reserve" /\ ~me.cached /\ NothingCached(me.job, memory)
    /\ \/ row.status = "claimed" /\ calls = <<>> /\ Opening(me, row)
       \/ /\ row.status \in {"returned", "validated"} /\ row.contAt = 1 /\ Following(me, row)
          /\ Replied(calls) /\ Len(calls) = 1 /\ LastOf(calls).kind = "mapping"

AtCall(me, row, calls, memory) ==
    /\ me.pc \in {"reserved", "mark", "marked", "submit", "complete", "refuse"}
    /\ ~me.cached /\ NothingCached(me.job, memory) /\ Called(me, row, calls)
    /\ row.status = IF me.pc \in {"reserved", "mark"} THEN "reserved"
                    ELSE IF me.pc = "refuse" THEN "returned" ELSE "submitting"
    /\ me.pc = "complete" => me.reply \in SentReply
    /\ me.pc = "refuse" => me.kind = "mapping" /\ Replied(calls)

AtRecord(me, row, calls, memory) ==
    /\ me.pc = "record"
    /\ \/ /\ me.cached /\ row.status = "claimed" /\ row.key = NoKey
          /\ memory[me.key] = me.reply
       \/ /\ ~me.cached /\ row.status = "returned" /\ NothingCached(me.job, memory)
          /\ Called(me, row, calls) /\ Replied(calls) /\ me.key = KeyFor(me.kind, me.job)

AtContinue(me, row, calls, memory) ==
    /\ me.pc = "continue" /\ ~me.cached /\ memory[me.key] = NoResult
    /\ NothingCached(me.job, memory)
    /\ row.status = "validated" /\ row.result = me.reply /\ row.key = me.key
    /\ me.key = KeyFor(me.kind, me.job) /\ Replied(calls)
    /\ \/ me.kind \in ContinuationKinds /\ row.cont = me.kind
       \/ /\ me.kind = "mapping" /\ me.job \notin Derived /\ row.cont = "mapping"
          /\ Len(calls) = 1 /\ LastOf(calls).kind = "mapping"

AtStore(me, row, memory) ==
    /\ me.pc = "store"
    /\ row.status = "validated" /\ row.result = me.reply /\ row.key = me.key
    /\ memory[me.key] \in {NoResult, me.reply}

AtFinish(me, row) ==
    /\ me.pc = "finish"
    /\ \/ me.end = "accepted" /\ row.status = "cache_stored"
       \/ me.end = "structural" /\ row.status \in {"claimed", "returned", "validated"}

AtEnd(me, row) ==
    \/ /\ me.pc = "publish" /\ row.status = "finalized"
       /\ row.resolution \in {"accepted", "structural"}
    \/ me.pc = "release" /\ row.status = "published"

Stage(me, row, calls, memory) ==
    \/ AtStart(me, row, calls) \/ AtReserve(me, row, calls, memory)
    \/ AtCall(me, row, calls, memory) \/ AtRecord(me, row, calls, memory)
    \/ AtContinue(me, row, calls, memory) \/ AtStore(me, row, memory)
    \/ AtFinish(me, row) \/ AtEnd(me, row)

\* Until it is finalized, the job is the worker's and without an outcome.
Bound(w, pc, row, outcome) ==
    /\ row.token = IF pc \in {"publish", "release"} THEN NoToken ELSE w
    /\ pc \notin {"publish", "release"} => row.resolution = "none"
    /\ pc # "release" => outcome = NoResult

OnTheWay(w) ==
    LET j == JobAt(w) IN
    /\ Stage(worker[w], job[j], attempts[j], Memory(j))
    /\ Bound(w, worker[w].pc, job[j], published[j])

\* What holds of the tables and the worker where it takes a step.
Ready(w) ==
    /\ ServiceTypeOK /\ FateInv /\ CacheInv /\ KeysOwn /\ NoneExpired
    /\ faults = 0 /\ ~run[WorkerRun[w]].cancel /\ ~abort[WorkerRun[w]]
    /\ worker[w].pc \notin Free /\ OnTheWay(w)

\* The step is not refused, and takes the worker further on its way, or off a published job.
Advances(w) ==
    /\ pool' = pool /\ abort' = abort
    /\ \/ /\ worker'[w].pc \notin Free /\ JobAt(w)' = JobAt(w) /\ OnTheWay(w)'
       \/ worker'[w].pc \in {"off", "poll"} /\ job'[JobAt(w)].status = "published"

\* The point of a worker decides what its stage is.
LEMMA StageAt ==
    ASSUME NEW me, NEW row, NEW calls, NEW memory, Stage(me, row, calls, memory)
    PROVE  /\ me.pc \in {"held", "lookup"} => AtStart(me, row, calls)
           /\ me.pc = "reserve" => AtReserve(me, row, calls, memory)
           /\ me.pc \in {"reserved", "mark", "marked", "submit", "complete", "refuse"}
                 => AtCall(me, row, calls, memory)
           /\ me.pc = "record" => AtRecord(me, row, calls, memory)
           /\ me.pc = "continue" => AtContinue(me, row, calls, memory)
           /\ me.pc = "store" => AtStore(me, row, memory)
           /\ me.pc = "finish" => AtFinish(me, row)
           /\ me.pc \in {"publish", "release"} => AtEnd(me, row)
BY DEF Stage, AtStart, AtReserve, AtCall, AtRecord, AtContinue, AtStore, AtFinish, AtEnd

\* What a worker that is ready has before it.
LEMMA ReadyRows ==
    ASSUME NEW w \in Tokens, Ready(w)
    PROVE  LET j == JobAt(w) IN
           /\ j \in Jobs /\ RunOf[j] = WorkerRun[w] /\ ~Cancelled(j)
           /\ worker \in [Tokens -> WorkerRow] /\ worker[w] \in WorkerRow
           /\ RepoTypeOK /\ job \in [Jobs -> JobRow] /\ job[j] \in JobRow /\ ~job[j].expired
           /\ attempts \in [Jobs -> Seq(AttemptRow)] /\ attempts[j] \in Seq(AttemptRow)
           /\ published \in [Jobs -> Results \cup {NoResult, Structural}]
           /\ cache \in [Keys -> Results \cup {NoResult}]
           /\ Stage(worker[w], job[j], attempts[j], Memory(j))
           /\ Bound(w, worker[w].pc, job[j], published[j])
<1>1. JobAt(w) \in Jobs /\ RunOf[JobAt(w)] = WorkerRun[w]
    BY DEF Ready, ServiceTypeOK, WorkersOK, Prepared, JobAt, JobsOf
<1> QED
    BY <1>1 DEF Ready, FateInv, RepoTypeOK, ServiceTypeOK, WorkersOK, NoneExpired, OnTheWay,
       Cancelled

\* To be on its way the worker has to stand where the new rows say.
LEMMA GetsTo ==
    ASSUME NEW w, NEW j, j = JobAt(w), worker'[w].job = j, worker'[w].pc \notin Free,
           Stage(worker'[w], job'[j], attempts'[j], [k \in Own(j) |-> cache'[k]]),
           Bound(w, worker'[w].pc, job'[j], published'[j]),
           pool' = pool, abort' = abort
    PROVE  Advances(w)
<1>1. JobAt(w)' = j
    BY DEF JobAt
<1>2. Memory(JobAt(w))' = [k \in Own(j) |-> cache'[k]]
    BY <1>1 DEF Memory
<1>3. OnTheWay(w)'
    BY <1>1, <1>2 DEF OnTheWay
<1> QED
    BY <1>1, <1>3 DEF Advances

\* The two checks after the claim let the worker of a quiet run go on.
LEMMA HeldAdvances ==
    ASSUME NEW w \in Tokens, Ready(w), Held(w) PROVE Advances(w)
<1> PICK j, me, row : j = JobAt(w) /\ me = worker[w] /\ row = job[j]
    OBVIOUS
<1>1. /\ worker' = [worker EXCEPT ![w].pc = "lookup"]
      /\ UNCHANGED <<repoVars, pool, abort>> /\ me.pc = "held"
    BY DEF Held, Ready, Goto, OnlyWorker, AtPoint
<1>2. AtStart(me, row, attempts[j]) /\ Bound(w, "held", row, published[j])
    BY <1>1, ReadyRows, StageAt
<1>3. worker'[w] = [me EXCEPT !.pc = "lookup"] /\ me \in WorkerRow /\ me.job = j
    BY <1>1, ReadyRows DEF JobAt
<1>4. AtStart(worker'[w], row, attempts[j]) /\ worker'[w].pc = "lookup" /\ worker'[w].job = j
    BY <1>2, <1>3 DEF AtStart, Opening, WorkerRow
<1> QED
    BY <1>1, <1>2, <1>4, GetsTo DEF repoVars, Stage, Bound, Free

\* What the preview announced may be used; what it did not know is not in the cache.
LEMMA LookupAdvances ==
    ASSUME NEW w \in Tokens, Ready(w), Lookup(w), JobAt(w) \notin Derived =>
              (cache[LookupKey(JobAt(w))] # NoResult
                  => <<JobAt(w), LookupKey(JobAt(w))>> \in hits[RunOf[JobAt(w)]])
    PROVE  Advances(w)
<1> PICK j, me, row, k : j = JobAt(w) /\ me = worker[w] /\ row = job[j] /\ k = LookupKey(j)
    OBVIOUS
<1>0. /\ me \in WorkerRow /\ me.job = j /\ me.pc = "lookup" /\ k \in Own(j)
      /\ worker \in [Tokens -> WorkerRow]
    BY ReadyRows, LookupKeyOwn DEF Lookup, AtPoint, JobAt
<1>1. AtStart(me, row, attempts[j]) /\ Bound(w, "lookup", row, published[j])
    BY <1>0, ReadyRows, StageAt
<1>2. me.kind \notin ContinuationKinds
    BY <1>1 DEF AtStart, Opening, PrimaryKinds, ContinuationKinds
<1>3. ~(cache[k] # NoResult /\ ~(j \in Derived \/ Eligible(j, k)))
    BY DEF Eligible
<1>4. CASE cache[k] = NoResult /\ Goto(w, "reserve") /\ OnlyWorker
    <2>1. worker'[w] = [me EXCEPT !.pc = "reserve"]
        BY <1>0, <1>4 DEF Goto
    <2>2. NothingCached(j, Memory(j))
        BY <1>4 DEF LookupKey, NothingCached, Memory, Own
    <2>3. /\ worker'[w].pc = "reserve" /\ worker'[w].job = j
          /\ AtReserve(worker'[w], row, attempts[j], Memory(j))
        BY <1>0, <1>1, <2>1, <2>2 DEF AtStart, AtReserve, Opening, WorkerRow
    <2>4. UNCHANGED <<repoVars, pool, abort>>
        BY <1>4 DEF OnlyWorker
    <2> QED
        BY <1>1, <2>3, <2>4, GetsTo DEF repoVars, Stage, Bound, Free, Memory
<1>5. CASE cache[k] # NoResult /\ UseCached(w, k) /\ OnlyWorker
    <2>4. UNCHANGED <<repoVars, pool, abort>>
        BY <1>5 DEF OnlyWorker
    <2>1. CASE Finish(w, "structural")
        <3>1. worker'[w] = [me EXCEPT !.pc = "finish", !.end = "structural"]
            BY <1>0, <2>1 DEF Finish
        <3>2. /\ worker'[w].pc = "finish" /\ worker'[w].job = j
              /\ AtFinish(worker'[w], row)
            BY <1>0, <1>1, <3>1 DEF AtStart, AtFinish, WorkerRow
        <3> QED
            BY <1>1, <2>4, <3>2, GetsTo DEF repoVars, Stage, Bound, Free
    <2>2. CASE ~Finish(w, "structural")
        <3>1. worker'[w] = [me EXCEPT !.pc = "record", !.cached = TRUE, !.key = k,
                                      !.reply = cache[k]]
            BY <1>0, <1>5, <2>2 DEF UseCached
        <3>2. Memory(j)[k] = cache[k]
            BY <1>0 DEF Memory
        <3>3. /\ worker'[w].pc = "record" /\ worker'[w].job = j
              /\ AtRecord(worker'[w], row, attempts[j], Memory(j))
            BY <1>0, <1>1, <3>1, <3>2 DEF AtStart, Opening, AtRecord, WorkerRow
        <3> QED
            BY <1>1, <2>4, <3>3, GetsTo DEF repoVars, Stage, Bound, Free, Memory
    <2> QED
        BY <2>1, <2>2
<1> QED
    BY <1>2, <1>3, <1>4, <1>5 DEF Lookup

\* A sequence with a length has an element.
LEMMA SomeCalls == ASSUME NEW calls \in Seq(AttemptRow), Len(calls) > 0 PROVE calls # <<>>
<1>1. (calls = <<>>) <=> (Len(calls) = 0)
    BY EmptySeq, Zenon
<1> QED
    BY <1>1

\* Rewriting the latest attempt leaves as many as there were.
LEMMA LastRewritten ==
    ASSUME NEW calls \in Seq(AttemptRow), NEW n, n = Len(calls), n > 0, NEW new \in AttemptRow
    PROVE  Len([calls EXCEPT ![n] = new]) = n /\ LastOf([calls EXCEPT ![n] = new]) = new
<1>1. calls \in [1..n -> AttemptRow] /\ n \in Nat /\ n \in 1..n
    OBVIOUS
<1> PICK changed : changed = [calls EXCEPT ![n] = new]
    OBVIOUS
<1>2. changed \in [1..n -> AttemptRow] /\ changed[n] = new
    BY <1>1
<1>3. changed \in Seq(AttemptRow) /\ Len(changed) = n
    BY <1>1, <1>2
<1> QED
    BY <1>2, <1>3 DEF LastOf

\* The step that only moves the worker on: its rows stand.
LEMMA RowsStand ==
    ASSUME NEW w, NEW j, j = JobAt(w), UNCHANGED <<repoVars, pool, abort>>,
           worker'[w].job = j, worker'[w].pc \notin Free,
           Stage(worker'[w], job[j], attempts[j], Memory(j)),
           Bound(w, worker'[w].pc, job[j], published[j])
    PROVE  Advances(w)
BY GetsTo DEF repoVars, Memory

\* From where a call ended in a structural result, finalize_job takes it.
LEMMA StructuralAdvances ==
    ASSUME NEW w \in Tokens, Ready(w), Finish(w, "structural"),
           UNCHANGED <<repoVars, pool, abort>>,
           worker[w].pc \notin {"publish", "release"},
           job[JobAt(w)].status \in {"claimed", "returned", "validated"}
    PROVE  Advances(w)
<1> PICK j, me : j = JobAt(w) /\ me = worker[w]
    OBVIOUS
<1>1. /\ me \in WorkerRow /\ worker \in [Tokens -> WorkerRow] /\ me.job = j
      /\ Bound(w, me.pc, job[j], published[j])
    BY ReadyRows DEF JobAt
<1>2. worker'[w] = [me EXCEPT !.pc = "finish", !.end = "structural"]
    BY <1>1 DEF Finish
<1>3. worker'[w].pc = "finish" /\ worker'[w].job = j /\ AtFinish(worker'[w], job[j])
    BY <1>1, <1>2 DEF AtFinish, WorkerRow
<1> QED
    BY <1>1, <1>3, RowsStand DEF Stage, Bound, Free

\* reserve_attempt raises only for want of a slot: the call's kind is one that the
\* attempts before it allow.
LEMMA ReserveAdvances ==
    ASSUME NEW w \in Tokens, Ready(w), Reserve(w),
           job[JobAt(w)].status # "claimed" => Cardinality(InSlot(job)) < SlotLimit
    PROVE  Advances(w)
<1> PICK j, me, row, calls : j = JobAt(w) /\ me = worker[w] /\ row = job[j]
                                /\ calls = attempts[j]
    OBVIOUS
<1>0. /\ me \in WorkerRow /\ me.job = j /\ me.pc = "reserve" /\ j \in Jobs
      /\ worker \in [Tokens -> WorkerRow] /\ row \in JobRow /\ job \in [Jobs -> JobRow]
      /\ calls \in Seq(AttemptRow) /\ attempts \in [Jobs -> Seq(AttemptRow)]
      /\ ~Cancelled(j) /\ ~row.expired /\ Len(calls) \in Nat
    BY ReadyRows DEF Reserve, AtPoint, JobAt
<1>1. AtReserve(me, row, calls, Memory(j)) /\ Bound(w, "reserve", row, published[j])
    BY <1>0, ReadyRows, StageAt
<1>2. CanReserve(w, j) /\ HasFreeSlot(j)
    BY <1>0, <1>1 DEF CanReserve, HoldsClaim, Bound, AtReserve, HasFreeSlot
<1>3. /\ KindAllowed(j, me.kind) /\ ~ResendsUncertain(j, me.kind)
      /\ (Len(calls) = 0 /\ Opening(me, row)) \/ Following(me, row)
    <2>1. CASE row.status = "claimed" /\ calls = <<>> /\ Opening(me, row)
        BY <1>0, <2>1 DEF KindAllowed, FirstCall, Attempted, Opening, ResendsUncertain
    <2>2. CASE /\ row.contAt = 1 /\ Following(me, row)
               /\ Replied(calls) /\ Len(calls) = 1 /\ LastOf(calls).kind = "mapping"
        <3>0. Len(calls) = 1 /\ DOMAIN calls = 1..1 /\ calls # <<>>
            <4>1. Len(calls) = 1 /\ calls \in Seq(AttemptRow)
                BY <1>0, <2>2
            <4>2. DOMAIN calls = 1..Len(calls)
                BY <4>1
            <4>3. calls # <<>>
                BY <4>1, SomeCalls
            <4> QED
                BY <4>1, <4>2, <4>3
        <3>1. /\ Attempted(j) /\ Latest(j) = calls[1] /\ DOMAIN calls = {1}
              /\ calls[1].status = "returned" /\ calls[1].disposition = "transmitted"
              /\ calls[1].kind = "mapping"
            BY <2>2, <3>0 DEF Attempted, Latest, Replied, LastOf
        <3>2. ~Uncertain(Latest(j))
            BY <3>1 DEF Uncertain
        <3>3. Continues(j, me.kind)
            BY <1>0, <2>2, <3>1, <3>2 DEF Continues, Following, ContinuationKinds
        <3> QED
            BY <2>2, <3>2, <3>3 DEF KindAllowed, ResendsUncertain
    <2> QED
        BY <1>1, <2>1, <2>2 DEF AtReserve
<1>4. CASE /\ ReserveAttempt(w, j, me.kind)
           /\ worker' = [worker EXCEPT ![w].pc = "reserved", ![w].attempt = Ordinal(j)]
           /\ Service
    <2> PICK new, n : new = Reserved(j, me.kind) /\ n = Len(calls)
        OBVIOUS
    <2>1. worker'[w] = [me EXCEPT !.pc = "reserved", !.attempt = n + 1]
        BY <1>0, <1>4 DEF Ordinal
    <2>2. attempts'[j] = Append(calls, new)
        BY <1>0, <1>3, <1>4 DEF ReserveAttempt, Consumed
    <2>3. job'[j] = [row EXCEPT !.status = "reserved"]
        BY <1>0, <1>4 DEF ReserveAttempt
    <2>4. new.kind = me.kind /\ new.validated = NoResult
        BY DEF Reserved
    <2>5. Len(attempts'[j]) = n + 1 /\ LastOf(attempts'[j]) = new
        BY <1>0, <2>2 DEF LastOf
    <2>6. /\ worker'[w].pc = "reserved" /\ worker'[w].job = j /\ worker'[w].kind = me.kind
          /\ worker'[w].attempt = n + 1 /\ worker'[w].cached = me.cached
        BY <1>0, <2>1 DEF WorkerRow
    <2>7. /\ job'[j].status = "reserved" /\ job'[j].token = row.token
          /\ job'[j].resolution = row.resolution /\ job'[j].cont = row.cont
          /\ job'[j].key = row.key
        BY <1>0, <2>3 DEF JobRow
    <2>8. Called(worker'[w], job'[j], attempts'[j])
        <3>1. /\ Opening(me, row) => Opening(worker'[w], job'[j])
              /\ Following(me, row) => Following(worker'[w], job'[j])
            BY <1>0, <2>6, <2>7 DEF Opening, Following
        <3> QED
            BY <1>0, <1>3, <2>4, <2>5, <2>6, <3>1 DEF Called
    <2>9. AtCall(worker'[w], job'[j], attempts'[j], Memory(j))
        BY <1>0, <1>1, <2>6, <2>7, <2>8 DEF AtCall, AtReserve
    <2>10. published' = published /\ cache' = cache /\ pool' = pool /\ abort' = abort
        BY <1>4 DEF ReserveAttempt, Service
    <2> QED
        BY <1>1, <2>6, <2>7, <2>9, <2>10, GetsTo DEF Stage, Bound, Free, Memory
<1>5. CASE Finish(w, "structural") /\ OnlyWorker
    BY <1>0, <1>1, <1>5, StructuralAdvances DEF OnlyWorker, AtReserve
<1> QED
    BY <1>2, <1>3, <1>4, <1>5 DEF Reserve

\* Between two transactions only a fault or a cancellation turns the worker aside.
LEMMA PrepareAdvances ==
    ASSUME NEW w \in Tokens, Ready(w), faults' = 0, Prepare(w) \/ Marked(w)
    PROVE  Advances(w)
<1> PICK j, me, row, calls : j = JobAt(w) /\ me = worker[w] /\ row = job[j]
                                /\ calls = attempts[j]
    OBVIOUS
<1>0. /\ me \in WorkerRow /\ me.job = j /\ me.pc \in {"reserved", "marked"}
      /\ worker \in [Tokens -> WorkerRow]
    BY ReadyRows DEF Prepare, Marked, AtPoint, JobAt
<1>1. AtCall(me, row, calls, Memory(j)) /\ Bound(w, me.pc, row, published[j])
    BY <1>0, ReadyRows, StageAt
<1>2. /\ worker' = [worker EXCEPT ![w].pc = IF me.pc = "reserved" THEN "mark" ELSE "submit"]
      /\ UNCHANGED <<repoVars, pool, abort>>
    BY DEF Prepare, Marked, AtPoint, Ready, OnlyWorker
<1>3. worker'[w] = [me EXCEPT !.pc = IF me.pc = "reserved" THEN "mark" ELSE "submit"]
    BY <1>0, <1>2
<1>4. /\ worker'[w].pc = IF me.pc = "reserved" THEN "mark" ELSE "submit"
      /\ worker'[w].job = j /\ worker'[w].kind = me.kind
      /\ worker'[w].attempt = me.attempt /\ worker'[w].cached = me.cached
    BY <1>0, <1>3 DEF WorkerRow
<1>5. AtCall(worker'[w], row, calls, Memory(j))
    <2>1. Called(worker'[w], row, calls)
        BY <1>0, <1>1, <1>4 DEF AtCall, Called, Opening, Following
    <2> QED
        BY <1>0, <1>1, <1>4, <2>1 DEF AtCall
<1> QED
    BY <1>0, <1>1, <1>2, <1>4, <1>5, RowsStand DEF Stage, Bound, Free

\* mark_transmitting finds the reservation the worker has just made.
LEMMA MarkAdvances ==
    ASSUME NEW w \in Tokens, Ready(w), Mark(w) PROVE Advances(w)
<1> PICK j, me, row, calls : j = JobAt(w) /\ me = worker[w] /\ row = job[j]
                                /\ calls = attempts[j]
    OBVIOUS
<1>0. /\ me \in WorkerRow /\ me.job = j /\ me.pc = "mark" /\ j \in Jobs
      /\ worker \in [Tokens -> WorkerRow] /\ row \in JobRow /\ job \in [Jobs -> JobRow]
      /\ calls \in Seq(AttemptRow) /\ attempts \in [Jobs -> Seq(AttemptRow)]
      /\ ~Cancelled(j) /\ ~row.expired /\ Len(calls) \in Nat
    BY ReadyRows DEF Mark, AtPoint, JobAt
<1>1. AtCall(me, row, calls, Memory(j)) /\ Bound(w, "mark", row, published[j])
    BY <1>0, ReadyRows, StageAt
<1>2. MayMark(w, j)
    <2>1. LatestIs(j, "reserved")
        BY <1>0, <1>1 DEF Ready, FateInv, AttemptMatchesJob, AtCall
    <2> QED
        BY <1>0, <1>1, <2>1 DEF MayMark, HoldsClaim, Bound, AtCall
<1>3. MarkTransmitting(w, j) /\ Goto(w, "marked") /\ Service
    BY <1>2 DEF Mark
<1> PICK n : n = Len(calls)
    OBVIOUS
<1>4. worker'[w] = [me EXCEPT !.pc = "marked"]
    BY <1>0, <1>3 DEF Goto
<1>5. /\ worker'[w].pc = "marked" /\ worker'[w].job = j /\ worker'[w].kind = me.kind
      /\ worker'[w].attempt = me.attempt /\ worker'[w].cached = me.cached
    BY <1>0, <1>4 DEF WorkerRow
<1>6. job'[j] = [row EXCEPT !.status = "submitting"]
    BY <1>0, <1>3 DEF MarkTransmitting
<1>7. /\ job'[j].status = "submitting" /\ job'[j].token = row.token
      /\ job'[j].resolution = row.resolution /\ job'[j].cont = row.cont
      /\ job'[j].key = row.key
    BY <1>0, <1>6 DEF JobRow
<1> PICK new : new = [calls[n] EXCEPT !.status = "transmitting", !.disposition = "indeterminate"]
    OBVIOUS
<1>8. attempts'[j] = [calls EXCEPT ![n] = new]
    BY <1>0, <1>3 DEF MarkTransmitting, WithLatest, Latest
<1>9. n > 0 /\ calls[n] \in AttemptRow
    BY <1>0, <1>1 DEF AtCall, Called, WorkerRow
<1>10. Len(attempts'[j]) = n /\ LastOf(attempts'[j]) = new
    <2>1. new \in AttemptRow
        <3>1. /\ {"returned", "transmitting"} \subseteq AttemptStatus
              /\ {"transmitted", "indeterminate"} \subseteq Disposition
            BY DEF AttemptStatus, Disposition
        <3> QED
            BY <1>9, <3>1 DEF AttemptRow
    <2>2. Len([calls EXCEPT ![n] = new]) = n /\ LastOf([calls EXCEPT ![n] = new]) = new
        <3>1. calls \in Seq(AttemptRow) /\ n = Len(calls) /\ n > 0
            BY <1>0, <1>9
        <3> QED
            BY <2>1, <3>1, LastRewritten
    <2> QED
        BY <1>8, <2>2
<1>11. new.kind = LastOf(calls).kind /\ new.validated = LastOf(calls).validated
    BY <1>9 DEF AttemptRow, LastOf
<1>12. AtCall(worker'[w], job'[j], attempts'[j], Memory(j))
    <2>1. Called(worker'[w], job'[j], attempts'[j])
        <3>1. /\ Opening(me, row) => Opening(worker'[w], job'[j])
              /\ Following(me, row) => Following(worker'[w], job'[j])
            BY <1>0, <1>5, <1>7 DEF Opening, Following
        <3> QED
            <4>1. Called(me, row, calls) /\ Len(calls) = n
                BY <1>0, <1>1 DEF AtCall
            <4> QED
                BY <1>5, <1>10, <1>11, <3>1, <4>1 DEF Called
    <2> QED
        BY <1>0, <1>1, <1>5, <1>7, <2>1 DEF AtCall
<1>13. published' = published /\ cache' = cache /\ pool' = pool /\ abort' = abort
    BY <1>3 DEF MarkTransmitting, Service
<1> QED
    BY <1>1, <1>5, <1>7, <1>12, <1>13, GetsTo DEF Stage, Bound, Free, Memory

\* Whatever the provider answers, without a fault the call was transmitted.
LEMMA SubmitAdvances ==
    ASSUME NEW w \in Tokens, Ready(w), faults' = 0, Submit(w) PROVE Advances(w)
<1> PICK j, me, row, calls : j = JobAt(w) /\ me = worker[w] /\ row = job[j]
                                /\ calls = attempts[j]
    OBVIOUS
<1>0. /\ me \in WorkerRow /\ me.job = j /\ me.pc = "submit"
      /\ worker \in [Tokens -> WorkerRow]
    BY ReadyRows DEF Submit, AtPoint, JobAt
<1>1. AtCall(me, row, calls, Memory(j)) /\ Bound(w, me.pc, row, published[j])
    BY <1>0, ReadyRows, StageAt
<1>2. PICK reply \in SentReply :
         worker' = [worker EXCEPT ![w].pc = "complete", ![w].reply = reply]
    <2>1. PICK reply \in Reply \ {"none"} :
             /\ worker' = [worker EXCEPT ![w].pc = "complete", ![w].reply = reply]
             /\ \/ reply \in SentReply
                \/ faults' = faults + 1
                \/ reply = "withdrawn" /\ run[WorkerRun[w]].cancel
        BY DEF Submit
    <2>2. faults' # faults + 1 /\ ~run[WorkerRun[w]].cancel
        BY DEF Ready
    <2> QED
        BY <2>1, <2>2
<1>3. worker'[w] = [me EXCEPT !.pc = "complete", !.reply = reply]
    BY <1>0, <1>2
<1>4. /\ worker'[w].pc = "complete" /\ worker'[w].reply = reply
      /\ worker'[w].job = j /\ worker'[w].kind = me.kind
      /\ worker'[w].attempt = me.attempt /\ worker'[w].cached = me.cached
    BY <1>0, <1>3 DEF WorkerRow
<1>5. AtCall(worker'[w], row, calls, Memory(j))
    <2>1. Called(worker'[w], row, calls)
        BY <1>0, <1>1, <1>4 DEF AtCall, Called, Opening, Following
    <2> QED
        BY <1>0, <1>1, <1>2, <1>4, <2>1 DEF AtCall
<1> QED
    BY <1>0, <1>1, <1>4, <1>5, RowsStand DEF Stage, Bound, Free, Submit

\* complete_attempt finds the attempt transmitting, and tells how to go on.
LEMMA CompleteAdvances ==
    ASSUME NEW w \in Tokens, Ready(w), Complete(w) PROVE Advances(w)
<1> PICK j, me, row, calls : j = JobAt(w) /\ me = worker[w] /\ row = job[j]
                                /\ calls = attempts[j]
    OBVIOUS
<1>0. /\ me \in WorkerRow /\ me.job = j /\ me.pc = "complete" /\ j \in Jobs
      /\ worker \in [Tokens -> WorkerRow] /\ row \in JobRow /\ job \in [Jobs -> JobRow]
      /\ calls \in Seq(AttemptRow) /\ attempts \in [Jobs -> Seq(AttemptRow)]
      /\ ~Cancelled(j) /\ ~row.expired /\ Len(calls) \in Nat
    BY ReadyRows DEF Complete, AtPoint, JobAt
<1>1. AtCall(me, row, calls, Memory(j)) /\ Bound(w, "complete", row, published[j])
    BY <1>0, ReadyRows, StageAt
<1>2. me.reply \in SentReply /\ DispositionOf(me.reply) = "transmitted"
    BY <1>0, <1>1 DEF AtCall, DispositionOf
<1>3. Completable(w, j, "transmitted")
    <2>1. LatestIs(j, "transmitting")
        BY <1>0, <1>1 DEF Ready, FateInv, AttemptMatchesJob, AtCall
    <2> QED
        BY <1>0, <1>1, <2>1 DEF Completable, HoldsClaim, Bound, AtCall
<1>4. PICK made \in {0, 1}, u \in Units :
         /\ CompleteAttempt(w, j, "transmitted", TRUE, made, u,
                            "transmitted" = "definitely_not_transmitted")
         /\ AfterCall(w) /\ Service
    BY <1>2, <1>3 DEF Complete
<1> PICK n : n = Len(calls)
    OBVIOUS
<1>5. job'[j] = [row EXCEPT !.status = "returned"]
    BY <1>0, <1>4 DEF CompleteAttempt
<1>6. /\ job'[j].status = "returned" /\ job'[j].token = row.token
      /\ job'[j].resolution = row.resolution /\ job'[j].cont = row.cont
      /\ job'[j].key = row.key
    BY <1>0, <1>5 DEF JobRow
<1> PICK new : new = [calls[n] EXCEPT !.status = "returned", !.disposition = "transmitted",
                                      !.calls = made, !.units = u]
    OBVIOUS
<1>7. attempts'[j] = [calls EXCEPT ![n] = new]
    <2>1. SettledStatus("transmitted", TRUE) = "returned"
        BY DEF SettledStatus
    <2> QED
        BY <1>0, <1>4, <2>1 DEF CompleteAttempt, Settled, WithLatest, Latest
<1>8. n > 0 /\ calls[n] \in AttemptRow
    BY <1>0, <1>1 DEF AtCall, Called, WorkerRow
<1>9. Len(attempts'[j]) = n /\ LastOf(attempts'[j]) = new
    <2>1. new \in AttemptRow
        <3>1. /\ {"returned", "transmitting"} \subseteq AttemptStatus
              /\ {"transmitted", "indeterminate"} \subseteq Disposition
            BY DEF AttemptStatus, Disposition
        <3> QED
            BY <1>8, RepositoryAssumption, <3>1 DEF AttemptRow
    <2>2. Len([calls EXCEPT ![n] = new]) = n /\ LastOf([calls EXCEPT ![n] = new]) = new
        <3>1. calls \in Seq(AttemptRow) /\ n = Len(calls) /\ n > 0
            BY <1>0, <1>8
        <3> QED
            BY <2>1, <3>1, LastRewritten
    <2> QED
        BY <1>7, <2>2
<1>10. /\ new.kind = LastOf(calls).kind /\ new.validated = LastOf(calls).validated
       /\ new.status = "returned" /\ new.disposition = "transmitted"
    BY <1>8 DEF AttemptRow, LastOf
<1>11. Replied(attempts'[j])
    BY <1>8, <1>9, <1>10 DEF Replied
<1>12. published' = published /\ cache' = cache /\ pool' = pool /\ abort' = abort
    BY <1>4 DEF CompleteAttempt, Service
<1>13. Called(me, job'[j], attempts'[j])
    <2>1. /\ Opening(me, row) => Opening(me, job'[j])
          /\ Following(me, row) => Following(me, job'[j])
        BY <1>6 DEF Opening, Following
    <2> QED
        BY <1>0, <1>1, <1>9, <1>10, <2>1 DEF AtCall, Called
<1>14. CASE me.reply \in Results
    <2> PICK k : k = KeyFor(me.kind, j)
        OBVIOUS
    <2>1. worker' = [worker EXCEPT ![w].pc = "record", ![w].key = k]
        <3>1. AfterCall(w) =>
                worker' = [worker EXCEPT ![w].pc = "record", ![w].key = k]
            <4>1. ~(me.reply = "refusal") /\ ~(me.reply \in {"invalid", "rejected", "uncertain", "unsent", "withdrawn"})
                BY <1>14, WorkflowAssumption
            <4> QED
                BY <1>0, <1>14, <4>1 DEF AfterCall, KeyFor
        <3> QED
            BY <1>4, <1>14, <3>1
    <2>2. worker'[w] = [me EXCEPT !.pc = "record", !.key = k]
        BY <1>0, <2>1
    <2>3. /\ worker'[w].pc = "record" /\ worker'[w].key = k
          /\ worker'[w].job = j /\ worker'[w].kind = me.kind
          /\ worker'[w].attempt = me.attempt /\ worker'[w].cached = me.cached
        BY <1>0, <2>2 DEF WorkerRow
    <2>4. AtRecord(worker'[w], job'[j], attempts'[j], Memory(j))
        <3>1. Called(worker'[w], job'[j], attempts'[j])
            BY <1>0, <1>13, <2>3 DEF Called, Opening, Following
        <3> QED
            BY <1>0, <1>1, <1>6, <1>11, <2>3, <3>1 DEF AtRecord, AtCall
    <2> QED
        BY <1>1, <1>6, <1>12, <2>3, <2>4, GetsTo DEF Stage, Bound, Free, Memory
<1>15. CASE me.reply = "refusal" /\ me.kind = "mapping"
    <2>1. Goto(w, "refuse")
        BY <1>4, <1>15, WorkflowAssumption DEF AfterCall
    <2>2. worker'[w] = [me EXCEPT !.pc = "refuse"]
        BY <1>0, <2>1 DEF Goto
    <2>3. /\ worker'[w].pc = "refuse" /\ worker'[w].job = j /\ worker'[w].kind = me.kind
          /\ worker'[w].attempt = me.attempt /\ worker'[w].cached = me.cached
        BY <1>0, <2>2 DEF WorkerRow
    <2>4. AtCall(worker'[w], job'[j], attempts'[j], Memory(j))
        <3>1. Called(worker'[w], job'[j], attempts'[j])
            BY <1>0, <1>13, <2>3 DEF Called, Opening, Following
        <3> QED
            BY <1>0, <1>1, <1>6, <1>11, <1>15, <2>3, <3>1 DEF AtCall
    <2> QED
        BY <1>1, <1>6, <1>12, <2>3, <2>4, GetsTo DEF Stage, Bound, Free, Memory
<1>16. CASE me.reply \in {"invalid", "rejected"} \/ (me.reply = "refusal" /\ me.kind # "mapping")
    <2>1. Finish(w, "structural")
        BY <1>4, <1>16, WorkflowAssumption DEF AfterCall
    <2>2. worker'[w] = [me EXCEPT !.pc = "finish", !.end = "structural"]
        BY <1>0, <2>1 DEF Finish
    <2>3. worker'[w].pc = "finish" /\ worker'[w].job = j /\ AtFinish(worker'[w], job'[j])
        BY <1>0, <1>6, <2>2 DEF AtFinish, WorkerRow
    <2> QED
        BY <1>1, <1>6, <1>12, <2>3, GetsTo DEF Stage, Bound, Free
<1> QED
    BY <1>2, <1>14, <1>15, <1>16 DEF SentReply, ResultReply

\* A content refusal of the only call, a mapping, may ask for a fallback.
LEMMA RefuseAdvances ==
    ASSUME NEW w \in Tokens, Ready(w), Refuse(w) PROVE Advances(w)
<1> PICK j, me, row, calls : j = JobAt(w) /\ me = worker[w] /\ row = job[j]
                                /\ calls = attempts[j]
    OBVIOUS
<1>0. /\ me \in WorkerRow /\ me.job = j /\ me.pc = "refuse" /\ j \in Jobs
      /\ worker \in [Tokens -> WorkerRow] /\ row \in JobRow /\ job \in [Jobs -> JobRow]
      /\ ~Cancelled(j) /\ calls \in Seq(AttemptRow)
    BY ReadyRows DEF Refuse, AtPoint, JobAt
<1>1. AtCall(me, row, calls, Memory(j)) /\ Bound(w, "refuse", row, published[j])
    BY <1>0, ReadyRows, StageAt
<1>2. /\ me.kind = "mapping" /\ Replied(calls) /\ row.status = "returned"
      /\ Opening(me, row) /\ Len(calls) = 1 /\ LastOf(calls).kind = "mapping"
      /\ j \notin Derived
    BY <1>0, <1>1 DEF AtCall, Called, Following, ContinuationKinds, Opening
<1>3. MayContinue(j, "refusal_fallback")
    <2>1. calls # <<>>
        <3>1. calls \in Seq(AttemptRow) /\ Len(calls) > 0
            BY <1>0, <1>2
        <3> QED
            BY <3>1, SomeCalls
    <2> QED
        BY <1>0, <1>2, <2>1
           DEF MayContinue, Attempted, Latest, LastOf, Opening, ContinuationKinds
<1>4. /\ RecordContinuation(j, "refusal_fallback") /\ Service
      /\ worker' = IF Fallback
                   THEN [worker EXCEPT ![w].pc = "reserve", ![w].kind = "refusal_fallback"]
                   ELSE [worker EXCEPT ![w].pc = "finish", ![w].end = "structural"]
    BY <1>3 DEF Refuse
<1>5. job'[j] = [row EXCEPT !.cont = "refusal_fallback", !.contAt = Len(calls)]
    BY <1>0, <1>4 DEF RecordContinuation
<1>6. /\ job'[j].status = "returned" /\ job'[j].token = row.token
      /\ job'[j].resolution = row.resolution /\ job'[j].cont = "refusal_fallback"
      /\ job'[j].contAt = 1 /\ job'[j].key = NoKey
    BY <1>0, <1>2, <1>5 DEF JobRow, Opening
<1>7. /\ attempts' = attempts /\ published' = published /\ cache' = cache
      /\ pool' = pool /\ abort' = abort
    BY <1>4 DEF RecordContinuation, Service
<1>8. CASE Fallback
    <2>1. worker'[w] = [me EXCEPT !.pc = "reserve", !.kind = "refusal_fallback"]
        BY <1>0, <1>4, <1>8
    <2>2. /\ worker'[w].pc = "reserve" /\ worker'[w].job = j /\ worker'[w].cached = me.cached
          /\ worker'[w].kind = "refusal_fallback"
        BY <1>0, <2>1 DEF WorkerRow
    <2>3. Following(worker'[w], job'[j])
        BY <1>2, <1>6, <1>8, <2>2 DEF Following, ContinuationKinds
    <2>4. AtReserve(worker'[w], job'[j], calls, Memory(j))
        BY <1>0, <1>1, <1>2, <1>6, <2>2, <2>3 DEF AtReserve, AtCall
    <2> QED
        BY <1>1, <1>6, <1>7, <2>2, <2>4, GetsTo DEF Stage, Bound, Free, Memory
<1>9. CASE ~Fallback
    <2>1. worker'[w] = [me EXCEPT !.pc = "finish", !.end = "structural"]
        BY <1>0, <1>4, <1>9
    <2>2. worker'[w].pc = "finish" /\ worker'[w].job = j /\ AtFinish(worker'[w], job'[j])
        BY <1>0, <1>6, <2>1 DEF AtFinish, WorkerRow
    <2> QED
        BY <1>1, <1>6, <1>7, <2>2, GetsTo DEF Stage, Bound, Free
<1> QED
    BY <1>8, <1>9

\* A validated result goes on to the cache, or is given up when it is flagged.
LEMMA ValidatedAdvances ==
    ASSUME NEW w \in Tokens, Ready(w), AfterValidation(w), Service,
           worker[w].pc \in {"record", "continue"},
           NEW j, j = JobAt(w), published' = published, cache' = cache,
           job'[j].status = "validated", job'[j].result = worker[w].reply,
           job'[j].key = worker[w].key, job'[j].token = job[j].token,
           job'[j].resolution = job[j].resolution,
           worker[w].key \in Own(j), cache[worker[w].key] \in {NoResult, worker[w].reply}
    PROVE  Advances(w)
<1> PICK me : me = worker[w]
    OBVIOUS
<1>0. /\ me \in WorkerRow /\ me.job = j /\ worker \in [Tokens -> WorkerRow]
      /\ Bound(w, me.pc, job[j], published[j])
    BY ReadyRows DEF JobAt
<1>1. pool' = pool /\ abort' = abort
    BY DEF Service
<1>2. CASE Finish(w, "structural")
    <2>1. worker'[w] = [me EXCEPT !.pc = "finish", !.end = "structural"]
        BY <1>0, <1>2 DEF Finish
    <2>2. worker'[w].pc = "finish" /\ worker'[w].job = j /\ AtFinish(worker'[w], job'[j])
        BY <1>0, <2>1 DEF AtFinish, WorkerRow
    <2> QED
        BY <1>0, <1>1, <2>2, GetsTo DEF Stage, Bound, Free
<1>3. CASE Goto(w, "store")
    <2>1. worker'[w] = [me EXCEPT !.pc = "store"]
        BY <1>0, <1>3 DEF Goto
    <2>2. /\ worker'[w].pc = "store" /\ worker'[w].job = j /\ worker'[w].reply = me.reply
          /\ worker'[w].key = me.key
        BY <1>0, <2>1 DEF WorkerRow
    <2>3. Memory(j)[me.key] = cache[me.key]
        BY DEF Memory
    <2>4. AtStore(worker'[w], job'[j], Memory(j))
        BY <2>2, <2>3 DEF AtStore
    <2> QED
        BY <1>0, <1>1, <2>2, <2>4, GetsTo DEF Stage, Bound, Free, Memory
<1> QED
    BY <1>2, <1>3 DEF AfterValidation

\* The identity of a fresh result is one for which nothing was cached.
LEMMA FreshKeyEmpty ==
    ASSUME NEW kind, NEW j, NEW memory, NothingCached(j, memory),
           kind = "refusal_fallback" => Fallback /\ j \notin Derived
    PROVE  memory[KeyFor(kind, j)] = NoResult
BY DEF KeyFor, NothingCached

\* record_validated finds a row without a key or with this one, and the attempt returned.
LEMMA RecordAdvances ==
    ASSUME NEW w \in Tokens, Ready(w), Record(w) PROVE Advances(w)
<1> PICK j, me, row, calls, n : j = JobAt(w) /\ me = worker[w] /\ row = job[j]
                                  /\ calls = attempts[j] /\ n = Len(calls)
    OBVIOUS
<1>0. /\ me \in WorkerRow /\ me.job = j /\ me.pc = "record" /\ j \in Jobs
      /\ worker \in [Tokens -> WorkerRow] /\ row \in JobRow /\ job \in [Jobs -> JobRow]
      /\ ~Cancelled(j) /\ calls \in Seq(AttemptRow) /\ attempts \in [Jobs -> Seq(AttemptRow)]
    BY ReadyRows DEF Record, AtPoint, JobAt
<1>1. AtRecord(me, row, calls, Memory(j)) /\ Bound(w, "record", row, published[j])
    BY <1>0, ReadyRows, StageAt
<1>2. me.reply \in Results /\ me.key \in Own(j) /\ Owns(w, j)
    BY <1>0, <1>1 DEF Ready, ServiceTypeOK, WorkersOK, Prepared, KeysOwn, Bound, Owns
<1>3. Memory(j)[me.key] = cache[me.key]
    BY <1>2 DEF Memory
<1> PICK o : o = IF me.cached THEN 0 ELSE me.attempt
    OBVIOUS
<1>4. CASE me.cached
    <2>1. row.status = "claimed" /\ row.key = NoKey /\ cache[me.key] = me.reply
        BY <1>1, <1>3, <1>4 DEF AtRecord
    <2>2. MayRecord(j, o, me.reply, me.key)
        BY <1>0, <1>4, <2>1 DEF MayRecord
    <2>3. RecordValidated(j, o, me.reply, me.key) /\ AfterValidation(w) /\ Service
        BY <1>2, <1>4, <2>2 DEF Record, NeedsContinuation
    <2>4. /\ job'[j] = [row EXCEPT !.status = "validated", !.result = me.reply, !.key = me.key]
          /\ published' = published /\ cache' = cache
        BY <1>0, <2>1, <2>3 DEF RecordValidated
    <2>5. /\ job'[j].status = "validated" /\ job'[j].result = me.reply
          /\ job'[j].key = me.key /\ job'[j].token = row.token
          /\ job'[j].resolution = row.resolution
        BY <1>0, <2>4 DEF JobRow
    <2> QED
        BY <1>0, <1>2, <2>1, <2>3, <2>4, <2>5, ValidatedAdvances
<1>5. CASE ~me.cached
    <2>1. /\ row.status = "returned" /\ NothingCached(j, Memory(j))
          /\ Called(me, row, calls) /\ Replied(calls) /\ me.key = KeyFor(me.kind, j)
        BY <1>0, <1>1, <1>5 DEF AtRecord
    <2>2. /\ o = n /\ n > 0 /\ n \in Nat /\ LastOf(calls).validated = NoResult
          /\ LastOf(calls).status = "returned" /\ LastOf(calls).kind = me.kind
          /\ calls[n] \in AttemptRow
        BY <1>0, <1>5, <2>1 DEF Called, Replied, WorkerRow
    <2>3. MayRecord(j, o, me.reply, me.key)
        <3>1. calls # <<>>
            BY <1>0, <2>2, SomeCalls
        <3>2. LatestIs(j, "returned") /\ Latest(j).validated = NoResult
            BY <2>2, <3>1 DEF LatestIs, Attempted, Latest, LastOf
        <3>3. row.key \in {NoKey, me.key}
            BY <1>0, <2>1 DEF Called, Opening, Following
        <3> QED
            BY <1>0, <2>1, <2>2, <3>2, <3>3 DEF MayRecord
    <2>4. /\ RecordValidated(j, o, me.reply, me.key) /\ Service
          /\ IF NeedsContinuation(w) THEN Goto(w, "continue") ELSE AfterValidation(w)
        BY <1>2, <1>5, <2>3 DEF Record
    <2>5. /\ job'[j] = [row EXCEPT !.status = "validated", !.result = me.reply, !.key = me.key]
          /\ published' = published /\ cache' = cache
        BY <1>0, <2>1, <2>4 DEF RecordValidated
    <2>6. /\ job'[j].status = "validated" /\ job'[j].result = me.reply
          /\ job'[j].key = me.key /\ job'[j].token = row.token
          /\ job'[j].resolution = row.resolution /\ job'[j].cont = row.cont
        BY <1>0, <2>5 DEF JobRow
    <2>7. cache[me.key] = NoResult
        <3>1. me.kind = "refusal_fallback" => Fallback /\ j \notin Derived
            BY <1>0, <2>1 DEF Called, Opening, Following, PrimaryKinds
        <3> QED
            BY <1>3, <2>1, <3>1, FreshKeyEmpty
    <2>8. CASE ~NeedsContinuation(w)
        BY <1>0, <1>2, <2>4, <2>5, <2>6, <2>7, <2>8, ValidatedAdvances
    <2>9. CASE NeedsContinuation(w)
        <3>1. worker'[w] = [me EXCEPT !.pc = "continue"]
            BY <1>0, <2>4, <2>9 DEF Goto
        <3>2. /\ worker'[w].pc = "continue" /\ worker'[w].job = j /\ worker'[w].reply = me.reply
              /\ worker'[w].key = me.key /\ worker'[w].kind = me.kind
              /\ worker'[w].cached = me.cached
            BY <1>0, <3>1 DEF WorkerRow
        <3> PICK new : new = [calls[n] EXCEPT !.validated = me.reply]
            OBVIOUS
        <3>3. attempts'[j] = [calls EXCEPT ![n] = new]
            BY <1>0, <2>2, <2>4 DEF RecordValidated, WithLatest, Latest
        <3>4. Len(attempts'[j]) = n /\ LastOf(attempts'[j]) = new
            <4>1. new \in AttemptRow
                BY <1>2, <2>2 DEF AttemptRow
            <4>2. calls \in Seq(AttemptRow) /\ n = Len(calls) /\ n > 0
                BY <1>0, <2>2
            <4>3. Len([calls EXCEPT ![n] = new]) = n /\ LastOf([calls EXCEPT ![n] = new]) = new
                BY <4>1, <4>2, LastRewritten
            <4> QED
                BY <3>3, <4>3
        <3>5. /\ new.kind = LastOf(calls).kind /\ new.status = LastOf(calls).status
              /\ new.disposition = LastOf(calls).disposition
            BY <2>2 DEF AttemptRow, LastOf
        <3>6. Replied(attempts'[j])
            BY <2>1, <2>2, <3>4, <3>5 DEF Replied
        <3>7. \/ me.kind \in ContinuationKinds /\ row.cont = me.kind
              \/ /\ me.kind = "mapping" /\ j \notin Derived /\ row.cont = "mapping" /\ n = 1
            <4>1. me.kind \in ContinuationKinds \/ me.kind = "mapping"
                BY <2>9 DEF NeedsContinuation
            <4>2. (Opening(me, row) /\ n = 1) \/ Following(me, row)
                BY <2>1 DEF Called
            <4> QED
                BY <1>0, <4>1, <4>2 DEF Opening, Following, ContinuationKinds, PrimaryKinds
        <3>8. AtContinue(worker'[w], job'[j], attempts'[j], Memory(j))
            <4>1. /\ worker'[w].pc = "continue" /\ ~worker'[w].cached
                  /\ Memory(j)[worker'[w].key] = NoResult /\ NothingCached(worker'[w].job, Memory(j))
                BY <1>3, <1>5, <2>1, <2>7, <3>2
            <4>2. /\ job'[j].status = "validated" /\ job'[j].result = worker'[w].reply
                  /\ job'[j].key = worker'[w].key
                  /\ worker'[w].key = KeyFor(worker'[w].kind, worker'[w].job)
                BY <2>1, <2>6, <3>2
            <4>3. \/ worker'[w].kind \in ContinuationKinds /\ job'[j].cont = worker'[w].kind
                  \/ /\ worker'[w].kind = "mapping" /\ worker'[w].job \notin Derived
                     /\ job'[j].cont = "mapping"
                     /\ Len(attempts'[j]) = 1 /\ LastOf(attempts'[j]).kind = "mapping"
                BY <2>2, <2>6, <3>2, <3>4, <3>5, <3>7
            <4> QED
                BY <3>6, <4>1, <4>2, <4>3 DEF AtContinue
        <3>9. pool' = pool /\ abort' = abort
            BY <2>4 DEF Service
        <3>10. Stage(worker'[w], job'[j], attempts'[j], [k \in Own(j) |-> cache'[k]])
            BY <2>5, <3>8 DEF Stage, Memory
        <3>11. Bound(w, worker'[w].pc, job'[j], published'[j])
            BY <1>1, <2>5, <2>6, <3>2 DEF Bound
        <3> QED
            BY <3>2, <3>9, <3>10, <3>11, GetsTo DEF Free
    <2> QED
        BY <2>8, <2>9
<1> QED
    BY <1>4, <1>5

\* A flagged first mapping may ask for its review, a review or fallback may end.
LEMMA ContinueAdvances ==
    ASSUME NEW w \in Tokens, Ready(w), Continue(w) PROVE Advances(w)
<1> PICK j, me, row, calls : j = JobAt(w) /\ me = worker[w] /\ row = job[j]
                                /\ calls = attempts[j]
    OBVIOUS
<1>0. /\ me \in WorkerRow /\ me.job = j /\ me.pc = "continue" /\ j \in Jobs
      /\ worker \in [Tokens -> WorkerRow] /\ row \in JobRow /\ job \in [Jobs -> JobRow]
      /\ ~Cancelled(j) /\ calls \in Seq(AttemptRow)
    BY ReadyRows DEF Continue, AtPoint, JobAt
<1>1. AtContinue(me, row, calls, Memory(j)) /\ Bound(w, "continue", row, published[j])
    BY <1>0, ReadyRows, StageAt
<1>2. /\ row.status = "validated" /\ row.result = me.reply /\ row.key = me.key
      /\ me.key = KeyFor(me.kind, j) /\ Replied(calls) /\ ~me.cached
      /\ NothingCached(j, Memory(j)) /\ Memory(j)[me.key] = NoResult
      /\ \/ me.kind \in ContinuationKinds /\ row.cont = me.kind
         \/ /\ me.kind = "mapping" /\ j \notin Derived /\ row.cont = "mapping"
            /\ Len(calls) = 1 /\ LastOf(calls).kind = "mapping"
    BY <1>0, <1>1 DEF AtContinue
<1>3. me.key \in Own(j)
    BY <1>2 DEF KeyFor, Own
<1> PICK next : next = NextContinuation(w)
    OBVIOUS
<1>4. MayContinue(j, next)
    <2>1. calls # <<>>
        BY <1>0, <1>2, SomeCalls DEF Replied
    <2> QED
        BY <1>0, <1>2, <2>1
           DEF MayContinue, Attempted, Latest, LastOf, ContinuationKinds, NextContinuation
<1>5. /\ RecordContinuation(j, next) /\ Service
      /\ IF me.kind \in ContinuationKinds THEN AfterValidation(w)
         ELSE worker' = [worker EXCEPT ![w].pc = "reserve", ![w].kind = "replacement_review"]
    BY <1>4 DEF Continue
<1>6. job'[j] = [row EXCEPT !.cont = next, !.contAt = Len(calls)]
    BY <1>0, <1>5 DEF RecordContinuation
<1>7. /\ job'[j].status = "validated" /\ job'[j].token = row.token
      /\ job'[j].resolution = row.resolution /\ job'[j].cont = next
      /\ job'[j].contAt = Len(calls) /\ job'[j].key = me.key /\ job'[j].result = me.reply
    BY <1>0, <1>2, <1>6 DEF JobRow
<1>8. /\ attempts' = attempts /\ published' = published /\ cache' = cache
      /\ pool' = pool /\ abort' = abort
    BY <1>5 DEF RecordContinuation, Service
<1>9. CASE me.kind \in ContinuationKinds
    <2>1. cache[me.key] = NoResult
        BY <1>2, <1>3 DEF Memory
    <2> QED
        BY <1>0, <1>3, <1>5, <1>7, <1>8, <1>9, <2>1, ValidatedAdvances
<1>10. CASE me.kind \notin ContinuationKinds
    <2>0. me.kind = "mapping" /\ next = "replacement_review"
        BY <1>2, <1>10 DEF NextContinuation
    <2>1. worker'[w] = [me EXCEPT !.pc = "reserve", !.kind = "replacement_review"]
        BY <1>0, <1>5, <1>10
    <2>2. /\ worker'[w].pc = "reserve" /\ worker'[w].job = j /\ worker'[w].cached = me.cached
          /\ worker'[w].kind = "replacement_review"
        BY <1>0, <2>1 DEF WorkerRow
    <2>3. Following(worker'[w], job'[j])
        BY <1>2, <1>7, <2>0, <2>2 DEF Following, ContinuationKinds, KeyFor
    <2>4. AtReserve(worker'[w], job'[j], calls, Memory(j))
        BY <1>2, <1>7, <1>10, <2>0, <2>2, <2>3 DEF AtReserve, ContinuationKinds
    <2> QED
        BY <1>1, <1>7, <1>8, <2>2, <2>4, GetsTo DEF Stage, Bound, Free, Memory
<1> QED
    BY <1>9, <1>10

\* store_cache meets no entry that differs: nothing was cached, or this very result.
LEMMA StoreAdvances ==
    ASSUME NEW w \in Tokens, Ready(w), Store(w) PROVE Advances(w)
<1> PICK j, me, row : j = JobAt(w) /\ me = worker[w] /\ row = job[j]
    OBVIOUS
<1>0. /\ me \in WorkerRow /\ me.job = j /\ me.pc = "store" /\ j \in Jobs
      /\ worker \in [Tokens -> WorkerRow] /\ row \in JobRow /\ job \in [Jobs -> JobRow]
      /\ ~Cancelled(j)
    BY ReadyRows DEF Store, AtPoint, JobAt
<1>1. AtStore(me, row, Memory(j)) /\ Bound(w, "store", row, published[j])
    BY <1>0, ReadyRows, StageAt
<1>2. cache[me.key] \in {NoResult, me.reply}
    <2>1. me.key \in Own(j)
        BY <1>0 DEF Ready, KeysOwn
    <2> QED
        BY <1>1, <2>1 DEF AtStore, Memory
<1>3. MayStore(j) /\ row.status = "validated" /\ row.result = me.reply /\ row.key = me.key
    BY <1>0, <1>1, <1>2 DEF AtStore, MayStore, CacheAccepts
<1>4. StoreCache(j) /\ Finish(w, "accepted") /\ Service
    BY <1>3 DEF Store
<1>5. job'[j] = [row EXCEPT !.status = "cache_stored"]
    BY <1>0, <1>4 DEF StoreCache
<1>6. /\ job'[j].status = "cache_stored" /\ job'[j].token = row.token
      /\ job'[j].resolution = row.resolution
    BY <1>0, <1>5 DEF JobRow
<1>7. worker'[w] = [me EXCEPT !.pc = "finish", !.end = "accepted"]
    BY <1>0, <1>4 DEF Finish
<1>8. worker'[w].pc = "finish" /\ worker'[w].job = j /\ AtFinish(worker'[w], job'[j])
    BY <1>0, <1>6, <1>7 DEF AtFinish, WorkerRow
<1>9. published' = published /\ pool' = pool /\ abort' = abort
    BY <1>4 DEF StoreCache, Service
<1> QED
    BY <1>1, <1>6, <1>8, <1>9, GetsTo DEF Stage, Bound, Free

\* finalize_job finds the status that the resolution asks for.
LEMMA FinishAdvances ==
    ASSUME NEW w \in Tokens, Ready(w), FinishJob(w) PROVE Advances(w)
<1> PICK j, me, row, res : j = JobAt(w) /\ me = worker[w] /\ row = job[j] /\ res = me.end
    OBVIOUS
<1>0. /\ me \in WorkerRow /\ me.job = j /\ me.pc = "finish" /\ j \in Jobs
      /\ worker \in [Tokens -> WorkerRow] /\ row \in JobRow /\ job \in [Jobs -> JobRow]
      /\ ~Cancelled(j)
    BY ReadyRows DEF FinishJob, AtPoint, JobAt
<1>1. AtFinish(me, row) /\ Bound(w, "finish", row, published[j])
    BY <1>0, ReadyRows, StageAt
<1>2. /\ res \in {"accepted", "structural"} /\ row.resolution = "none"
      /\ res = "accepted" => row.status = "cache_stored"
      /\ res = "structural" => row.status \in {"claimed", "returned", "validated"}
    BY <1>1 DEF AtFinish, Bound
<1>3. MayFinalize(j, res) /\ ~AlreadyFinal(j, res)
    BY <1>0, <1>2 DEF MayFinalize, AlreadyFinal
<1>4. FinalizeJob(j, res) /\ Goto(w, "publish") /\ Service
    BY <1>2, <1>3 DEF FinishJob, AfterFinish
<1>5. job'[j] = [Unleased(row) EXCEPT !.status = "finalized", !.resolution = res]
    <2>1. FinalizedStatus(res) = "finalized"
        BY <1>2 DEF FinalizedStatus
    <2> QED
        BY <1>0, <1>4, <2>1 DEF FinalizeJob
<1>6. /\ job'[j].status = "finalized" /\ job'[j].token = NoToken
      /\ job'[j].resolution = res
    BY <1>0, <1>5 DEF JobRow, Unleased
<1>7. worker'[w] = [me EXCEPT !.pc = "publish"]
    BY <1>0, <1>4 DEF Goto
<1>8. worker'[w].pc = "publish" /\ worker'[w].job = j /\ AtEnd(worker'[w], job'[j])
    BY <1>0, <1>2, <1>6, <1>7 DEF AtEnd, WorkerRow
<1>9. published' = published /\ pool' = pool /\ abort' = abort
    BY <1>4 DEF FinalizeJob, Service
<1> QED
    BY <1>1, <1>6, <1>8, <1>9, GetsTo DEF Stage, Bound, Free

\* publish_job finds a job nothing was published for, and publishes what was cached.
LEMMA PublishAdvances ==
    ASSUME NEW w \in Tokens, Ready(w), Publish(w) PROVE Advances(w)
<1> PICK j, me, row : j = JobAt(w) /\ me = worker[w] /\ row = job[j]
    OBVIOUS
<1>0. /\ me \in WorkerRow /\ me.job = j /\ me.pc = "publish" /\ j \in Jobs
      /\ worker \in [Tokens -> WorkerRow] /\ row \in JobRow /\ job \in [Jobs -> JobRow]
      /\ ~Cancelled(j)
    BY ReadyRows DEF Publish, AtPoint, JobAt
<1>1. AtEnd(me, row) /\ Bound(w, "publish", row, published[j])
    BY <1>0, ReadyRows, StageAt
<1>2. /\ row.status = "finalized" /\ row.resolution \in {"accepted", "structural"}
      /\ row.token = NoToken /\ published[j] = NoResult
    BY <1>0, <1>1 DEF AtEnd, Bound
<1>3. row.resolution = "accepted" => row.result = cache[row.key]
    BY <1>0 DEF Ready, CacheInv, CacheSafe
<1>4. MayPublish(j, PublishedForm(j))
    BY <1>0, <1>2, <1>3 DEF MayPublish, PublishedForm
<1>5. PublishJob(j, PublishedForm(j)) /\ Goto(w, "release") /\ Service
    BY <1>4 DEF Publish
<1>6. job'[j] = [row EXCEPT !.status = "published"]
    BY <1>0, <1>5 DEF PublishJob
<1>7. job'[j].status = "published" /\ job'[j].token = NoToken
    BY <1>0, <1>2, <1>6 DEF JobRow
<1>8. worker'[w] = [me EXCEPT !.pc = "release"]
    BY <1>0, <1>5 DEF Goto
<1>9. worker'[w].pc = "release" /\ worker'[w].job = j /\ AtEnd(worker'[w], job'[j])
    BY <1>0, <1>7, <1>8 DEF AtEnd, WorkerRow
<1>10. pool' = pool /\ abort' = abort
    BY <1>5 DEF Service
<1> QED
    BY <1>7, <1>9, <1>10, GetsTo DEF Stage, Bound, Free

\* release_claim finds the published job without a lease, and lets the worker poll again.
LEMMA ReleaseAdvances ==
    ASSUME NEW w \in Tokens, Ready(w), Release(w) PROVE Advances(w)
<1> PICK j, me, row : j = JobAt(w) /\ me = worker[w] /\ row = job[j]
    OBVIOUS
<1>0. /\ me \in WorkerRow /\ me.job = j /\ me.pc = "release" /\ j \in Jobs
      /\ worker \in [Tokens -> WorkerRow]
    BY ReadyRows DEF Release, AtPoint, JobAt
<1>1. AtEnd(me, row) /\ Bound(w, "release", row, published[j])
    BY <1>0, ReadyRows, StageAt
<1>2. row.status = "published" /\ row.token = NoToken /\ NoToken \notin Tokens
    BY <1>0, <1>1, RepositoryAssumption DEF AtEnd, Bound
<1>3. MayRelease(w, j) /\ ~ReleaseClaim(w, j)
    BY <1>2 DEF MayRelease, ReleaseClaim, HoldsClaim
<1>4. /\ worker' = [worker EXCEPT ![w] = IF @.quit THEN Idle ELSE [Idle EXCEPT !.pc = "poll"]]
      /\ OnlyWorker
    BY <1>3 DEF Release
<1>5. worker'[w] = Idle \/ worker'[w] = [Idle EXCEPT !.pc = "poll"]
    BY <1>0, <1>4
<1>6. worker'[w].pc \in {"off", "poll"}
    BY <1>5 DEF Idle
<1> QED
    BY <1>2, <1>4, <1>6 DEF Advances, OnlyWorker, repoVars

\* Deriving the status of runs leaves their approval alone.
LEMMA RefreshKeepsApproval ==
    ASSUME RepoTypeOK, NEW q \in Runs, NEW r \in Runs, NEW rows, NEW touched
    PROVE  /\ Refreshed(r, rows)[q].approved = run[q].approved
           /\ RunsAfter(touched, rows)[q].approved = run[q].approved
BY DEF Refreshed, RunsAfter, RepoTypeOK, RunRow

\* An approval is never taken back.
LEMMA ApprovalStays ==
    ASSUME RepoTypeOK, [RepoNext]_repoVars, NEW q \in Runs
    PROVE  run[q].approved => run'[q].approved
<1>1. RunOf \in [Jobs -> Runs] /\ run \in [Runs -> RunRow]
    BY RepositoryAssumption DEF RepoTypeOK
<1>2. ASSUME NEW r \in Runs, RunStep(r)
      PROVE  run[q].approved => run'[q].approved
    <2>1. CASE StoreRunApproval(r)
        BY <1>1, <2>1 DEF StoreRunApproval, RunRow
    <2>2. CASE RecoverRun(r)
        BY <2>2, RefreshKeepsApproval DEF RecoverRun
    <2>3. CASE ActivateResumableJobs(r)
        BY <2>3, RefreshKeepsApproval DEF ActivateResumableJobs
    <2>4. CASE CancelRun(r)
        <3>1. PICK st : run' = [run EXCEPT ![r].cancel = CancelFlag(r), ![r].status = st]
            BY <2>4 DEF CancelRun
        <3>2. run' = [run EXCEPT ![r] = [run[r] EXCEPT !.cancel = CancelFlag(r), !.status = st]]
            BY <1>1, <3>1
        <3>3. CASE q = r
            BY <1>1, <2>4, <3>2, <3>3 DEF RunRow
        <3>4. CASE q # r
            BY <1>1, <3>2, <3>4
        <3> QED
            BY <3>3, <3>4
    <2> QED
        BY <1>2, <2>1, <2>2, <2>3, <2>4 DEF RunStep
<1>3. ASSUME NEW j \in Jobs, JobStep(j)
      PROVE  run[q].approved => run'[q].approved
    <2>1. CASE StoreRetryApproval(j)
        <3>1. run' = [run EXCEPT ![RunOf[j]] = [run[RunOf[j]] EXCEPT !.status = "running"]]
            BY <1>1, <2>1 DEF StoreRetryApproval
        <3> QED
            BY <1>1, <3>1 DEF RunRow
    <2>2. CASE ~StoreRetryApproval(j)
        <3>1. \/ run' = run
              \/ \E rows : run' = Refreshed(RunOf[j], rows)
            BY <1>3, <2>2 DEF JobStep, RegisterJob, ExpireLease, StoreCache, DeferResumableJob,
                  FinalizeJob, RecordContinuation, PublishJob, RecordValidated
        <3> QED
            BY <1>1, <3>1, RefreshKeepsApproval
    <2> QED
        BY <2>1, <2>2
<1>4. ASSUME NEW w \in Tokens, NEW j \in Jobs, LeaseStep(w, j)
      PROVE  run[q].approved => run'[q].approved
    <2>1. \/ run' = run
          \/ \E rows : run' = Refreshed(RunOf[j], rows)
        <3>1. ASSUME NEW d, NEW response, NEW calls, NEW u, NEW defer,
                     CompleteAttempt(w, j, d, response, calls, u, defer)
              PROVE  \/ run' = run
                     \/ \E rows : run' = Refreshed(RunOf[j], rows)
            BY <3>1 DEF CompleteAttempt
        <3>2. ASSUME NEW d, NEW calls, NEW u, FinalizeFailure(w, j, d, calls, u)
              PROVE  \E rows : run' = Refreshed(RunOf[j], rows)
            BY <3>2 DEF FinalizeFailure
        <3>3. ASSUME NEW result, NEW u, FinalizeSuccess(w, j, result, u)
              PROVE  \E rows : run' = Refreshed(RunOf[j], rows)
            BY <3>3 DEF FinalizeSuccess
        <3> QED
            BY <1>4, <3>1, <3>2, <3>3
               DEF LeaseStep, ReclaimJob, ReleaseClaim, MarkTransmitting, ReserveAttempt
    <2> QED
        BY <1>1, <2>1, RefreshKeepsApproval
<1>5. ASSUME NEW r \in Runs, NEW looked \in BOOLEAN, ClaimStep(r, looked)
      PROVE  run[q].approved => run'[q].approved
    <2> DEFINE runs == RunsBeforeClaim(looked)
    <2>1. runs \in [Runs -> RunRow] /\ runs[q].approved = run[q].approved
        BY BeforeClaimTyped, RefreshKeepsApproval DEF RunsBeforeClaim
    <2> HIDE DEF runs
    <2>2. \/ run' = runs
          \/ run' = [runs EXCEPT ![r].status = "running"]
        BY <1>5, Zenon DEF ClaimStep, ClaimNothing, ClaimNextJob, runs
    <2>3. [runs[r] EXCEPT !.status = "running"].approved = runs[r].approved
        BY <2>1 DEF RunRow
    <2> QED
        BY <2>1, <2>2, <2>3
<1>6. CASE RecoverExpiredLeases
    BY <1>6, RefreshKeepsApproval DEF RecoverExpiredLeases
<1>7. CASE UNCHANGED repoVars
    BY <1>7 DEF repoVars
<1> QED
    BY <1>2, <1>3, <1>4, <1>5, <1>6, <1>7 DEF RepoNext
-----------------------------------------------------------------------------
(* Slots: the other workers cannot fill them all.                               *)

\* Each job in a slot has a worker of its own, and one worker has none.
LEMMA SlotIsFree ==
    ASSUME EnoughSlots, RepoTypeOK, ClaimsHeld, faults = 0, NEW w \in Tokens,
           JobAt(w) \notin InSlot(job)
    PROVE  Cardinality(InSlot(job)) < SlotLimit
<1> PICK S, T : S = InSlot(job) /\ T = Tokens \ {w}
    OBVIOUS
<1>1. /\ S \subseteq Jobs
      /\ \A k \in S : job[k].token \in T /\ JobAt(job[k].token) = k
    BY DEF InSlot, ClaimsHeld, Undisturbed, ClaimHeld
<1>2. IsFiniteSet(T) /\ Cardinality(T) = Cardinality(Tokens) - 1
    BY FS_RemoveElement DEF EnoughSlots
<1>3. Cardinality(Tokens) \in Nat
    BY FS_CardinalityType DEF EnoughSlots
<1> PICK f : f = [k \in S |-> job[k].token]
    OBVIOUS
<1>4. f \in Injection(S, T)
    BY <1>1 DEF Injection, IsInjective
<1>5. Cardinality(S) <= Cardinality(T) /\ IsFiniteSet(S)
    BY <1>2, <1>4, FS_Injection
<1>6. Cardinality(S) \in Nat /\ SlotLimit \in Nat
    BY <1>5, FS_CardinalityType, RepositoryAssumption
<1> QED
    BY <1>2, <1>3, <1>5, <1>6 DEF EnoughSlots

\* The preview told of the entry that a job would be answered with.
Announced(j) ==
    j \notin Derived /\ cache[LookupKey(j)] # NoResult
        => <<j, LookupKey(j)>> \in hits[RunOf[j]]

\* A worker that is ready goes on.
LEMMA WorkerAdvances ==
    ASSUME EnoughSlots, ClaimsHeld, NEW w \in Tokens, Ready(w), WorkerStep(w), faults' = 0,
           worker[w].pc \in {"held", "lookup"} => Announced(JobAt(w))
    PROVE  Advances(w)
<1>1. ~Poll(w) /\ ~Claim(w)
    BY DEF Ready, Poll, Claim, AtPoint, Free
<1>2. CASE Reserve(w)
    <2>1. job[JobAt(w)].status # "claimed" => Cardinality(InSlot(job)) < SlotLimit
        <3> SUFFICES ASSUME job[JobAt(w)].status # "claimed"
                     PROVE  Cardinality(InSlot(job)) < SlotLimit
            OBVIOUS
        <3>1. AtReserve(worker[w], job[JobAt(w)], attempts[JobAt(w)], Memory(JobAt(w)))
            BY <1>2, ReadyRows, StageAt DEF Reserve, AtPoint
        <3>2. JobAt(w) \notin InSlot(job)
            BY <3>1 DEF AtReserve, InSlot, SlotStatus
        <3> QED
            BY <3>2, SlotIsFree DEF Ready, CacheInv
    <2> QED
        BY <1>2, <2>1, ReserveAdvances
<1>3. CASE Lookup(w)
    <2>1. worker[w].pc = "lookup"
        BY <1>3 DEF Lookup, AtPoint
    <2> QED
        BY <1>3, <2>1, LookupAdvances DEF Announced
<1> QED
    BY <1>1, <1>2, <1>3, HeldAdvances, PrepareAdvances, MarkAdvances, SubmitAdvances,
       CompleteAdvances, RefuseAdvances, RecordAdvances, ContinueAdvances, StoreAdvances,
       FinishAdvances, PublishAdvances, ReleaseAdvances DEF WorkerStep

-----------------------------------------------------------------------------
(* A run that nothing disturbs.                                                *)

\* Nothing was done for the job yet.
Untouched(j) ==
    /\ job[j].status \in {"absent", "pending"} /\ job[j].resolution = "none"
    /\ job[j].token = NoToken /\ job[j].cont = "mapping" /\ job[j].key = NoKey
    /\ attempts[j] = <<>> /\ published[j] = NoResult /\ Announced(j)

InHand(w) == worker[w].pc \notin Free

JobCalm(j) ==
    \/ Untouched(j) \/ job[j].status = "published"
    \/ \E w \in Tokens : InHand(w) /\ JobAt(w) = j
WorkerCalm(w) ==
    InHand(w) => /\ OnTheWay(w)
                 /\ worker[w].pc \in {"held", "lookup"} => Announced(JobAt(w))
Apart(r) ==
    \A v, w \in WorkersOf(r) : v # w /\ InHand(v) /\ InHand(w) => JobAt(v) # JobAt(w)
ExecutionCalm(r) ==
    /\ pool[r] # "failing" /\ ~abort[r]
    /\ recovery[r].phase # "idle" => pool[r] = "idle" /\ run[r].approved
    /\ \A j \in Jobs : recovery[r].chore[j] \in {"none", "defer"}

CalmRun(r) ==
    /\ ExecutionCalm(r) /\ Apart(r)
    /\ \A j \in JobsOf(r) : JobCalm(j)
    /\ \A w \in WorkersOf(r) : WorkerCalm(w)

\* A recovery has chores with the jobs of its run only.
ChoresOwn == \A r \in Runs, j \in Jobs : recovery[r].chore[j] # "none" => RunOf[j] = r

\* A job that is left alone stays as it is for its worker, and for who comes next.
LEMMA AnnouncedStands ==
    ASSUME NEW j \in Jobs, SameJob(j), hits' = hits, Announced(j) PROVE Announced(j)'
<1>1. cache'[CacheKey[j]] = cache[CacheKey[j]] /\ cache'[LocalKey[j]] = cache[LocalKey[j]]
    BY DEF SameJob, Own
<1>2. LookupKey(j)' = LookupKey(j) /\ LookupKey(j) \in {CacheKey[j], LocalKey[j]}
    BY <1>1 DEF LookupKey
<1>3. cache'[LookupKey(j)] = cache[LookupKey(j)]
    BY <1>1, <1>2
<1> QED
    BY <1>2, <1>3 DEF Announced

\* An untouched one stays untouched,
LEMMA UntouchedStands ==
    ASSUME NEW j \in Jobs, SameJob(j), hits' = hits, Untouched(j) PROVE Untouched(j)'
BY AnnouncedStands DEF Untouched, SameJob

\* and the worker at it stays on its way.
LEMMA WayStands ==
    ASSUME NEW w, NEW j, JobAt(w) = j, SameJob(j), worker'[w] = worker[w], OnTheWay(w)
    PROVE  OnTheWay(w)'
<1>1. JobAt(w)' = j
    BY DEF JobAt
<1>2. Memory(j)' = Memory(j)
    BY DEF SameJob, Memory
<1>3. job'[j] = job[j] /\ attempts'[j] = attempts[j] /\ published'[j] = published[j]
    BY DEF SameJob
<1> QED
    BY <1>1, <1>2, <1>3 DEF OnTheWay

\* So a worker stays calm that is left alone together with its job ...
LEMMA WorkerStays ==
    ASSUME NEW w \in Tokens, worker'[w] = worker[w], WorkerCalm(w), hits' = hits,
           InHand(w) => JobAt(w) \in Jobs /\ SameJob(JobAt(w))
    PROVE  WorkerCalm(w)'
<1> SUFFICES ASSUME InHand(w)
             PROVE  /\ OnTheWay(w)'
                    /\ worker[w].pc \in {"held", "lookup"} => Announced(JobAt(w))'
    BY DEF WorkerCalm, InHand
<1> PICK j : j = JobAt(w)
    OBVIOUS
<1>1. j \in Jobs /\ SameJob(j) /\ OnTheWay(w) /\ JobAt(w)' = j
    BY DEF WorkerCalm, JobAt
<1>2. OnTheWay(w)'
    BY <1>1, WayStands
<1>3. Announced(j) => Announced(j)'
    BY <1>1, AnnouncedStands
<1>4. Announced(JobAt(w))' <=> Announced(j)'
    BY <1>1 DEF Announced
<1> QED
    BY <1>2, <1>3, <1>4 DEF WorkerCalm

\* ... and a job that is left alone together with the workers at it.
LEMMA JobStays ==
    ASSUME NEW j \in Jobs, SameJob(j), hits' = hits, JobCalm(j),
           \A w \in Tokens : InHand(w) /\ JobAt(w) = j => worker'[w] = worker[w]
    PROVE  JobCalm(j)'
<1>1. CASE Untouched(j)
    BY <1>1, UntouchedStands DEF JobCalm
<1>2. CASE job[j].status = "published"
    BY <1>2 DEF SameJob, JobCalm
<1>3. CASE \E w \in Tokens : InHand(w) /\ JobAt(w) = j
    BY <1>3 DEF JobCalm, InHand, JobAt
<1> QED
    BY <1>1, <1>2, <1>3 DEF JobCalm

\* A worker has jobs of its run only.
LEMMA HandsAreOfRun ==
    ASSUME ServiceTypeOK, NEW w \in Tokens, InHand(w)
    PROVE  JobAt(w) \in Jobs /\ RunOf[JobAt(w)] = WorkerRun[w]
BY DEF ServiceTypeOK, WorkersOK, Prepared, InHand, JobAt, JobsOf

\* A run whose jobs and workers are left alone stays calm if its execution does.
LEMMA RunStays ==
    ASSUME ServiceTypeOK, NEW r \in Runs, CalmRun(r), ExecutionCalm(r)', hits' = hits,
           \A k \in JobsOf(r) : SameJob(k),
           \A w \in WorkersOf(r) : worker'[w] = worker[w] \/ (~InHand(w) /\ ~InHand(w)')
    PROVE  CalmRun(r)'
<1>1. Apart(r)'
    BY DEF CalmRun, Apart, InHand, JobAt, WorkersOf
<1>2. ASSUME NEW j \in JobsOf(r) PROVE JobCalm(j)'
    <2>1. \A w \in Tokens : InHand(w) /\ JobAt(w) = j => worker'[w] = worker[w]
        BY HandsAreOfRun DEF WorkersOf, JobsOf
    <2> QED
        BY <2>1, JobStays DEF CalmRun, JobsOf
<1>3. ASSUME NEW w \in WorkersOf(r) PROVE WorkerCalm(w)'
    <2>1. CASE InHand(w)
        BY <2>1, HandsAreOfRun, WorkerStays DEF CalmRun, WorkersOf, JobsOf
    <2>2. CASE ~InHand(w)
        BY <2>2 DEF WorkerCalm, InHand
    <2> QED
        BY <2>1, <2>2
<1> QED
    BY <1>1, <1>2, <1>3 DEF CalmRun, JobsOf, WorkersOf

\* What a job in the hands of a worker may look like.
LEMMA WayRow ==
    ASSUME NEW w \in Tokens, OnTheWay(w), NEW j, j = JobAt(w)
    PROVE  /\ job[j].status \notin {"absent", "pending", "indeterminate", "cancelled"}
           /\ job[j].status \in {"returned", "validated"} => job[j].token = w
           /\ job[j].status = "finalized" => job[j].resolution # "resumable"
<1> PICK me, row : me = worker[w] /\ row = job[j]
    OBVIOUS
<1>1. Stage(me, row, attempts[j], Memory(j)) /\ Bound(w, me.pc, row, published[j])
    BY DEF OnTheWay
<1>2. row.status \notin {"absent", "pending", "indeterminate", "cancelled"}
    BY <1>1 DEF Stage, AtStart, AtReserve, AtCall, AtRecord, AtContinue, AtStore, AtFinish, AtEnd
<1>3. row.status = "finalized" => row.resolution # "resumable"
    BY <1>1 DEF Stage, AtStart, AtReserve, AtCall, AtRecord, AtContinue, AtStore, AtFinish, AtEnd
<1>4. row.status \in {"returned", "validated"} => me.pc \notin {"publish", "release"}
    BY <1>1 DEF Stage, AtStart, AtReserve, AtCall, AtRecord, AtContinue, AtStore, AtFinish, AtEnd
<1> QED
    BY <1>1, <1>2, <1>3, <1>4 DEF Bound

\* Where no worker is at it a job is untouched or published.
LEMMA AtRest ==
    ASSUME ServiceTypeOK, NEW r \in Runs, CalmRun(r), NEW j \in JobsOf(r),
           \A w \in WorkersOf(r) : worker[w].pc = "off"
    PROVE  Untouched(j) \/ job[j].status = "published"
BY HandsAreOfRun DEF CalmRun, JobCalm, WorkersOf, InHand, Free, JobsOf

\* A step with a job in hand touches that job alone.
LEMMA WorkingElsewhere ==
    ASSUME ServiceTypeOK, CacheInv, KeysOwn, PrivateKeys, NEW w \in Tokens, InHand(w),
           WorkerStep(w)
    PROVE  Elsewhere(JobAt(w))
<1> PICK j : j = JobAt(w)
    OBVIOUS
<1>0. RepoTypeOK /\ j \in Jobs /\ (UNCHANGED repoVars => Elsewhere(j))
    BY HandsAreOfRun DEF CacheInv, Elsewhere, SameJob, repoVars
<1>1. CASE Poll(w) \/ Claim(w)
    BY <1>1 DEF Poll, Claim, AtPoint, InHand, Free
<1>2. CASE Held(w) \/ Lookup(w) \/ Prepare(w) \/ Marked(w) \/ Submit(w)
    BY <1>0, <1>2 DEF Held, Lookup, Prepare, Marked, Submit, OnlyWorker, Refused, repoVars
<1>3. CASE Release(w) \/ Reserve(w) \/ Mark(w) \/ Complete(w)
    <2>1. \/ UNCHANGED repoVars
          \/ ReleaseClaim(w, j) \/ \E d : Completes(w, j, d)
          \/ MarkTransmitting(w, j) \/ \E kind : ReserveAttempt(w, j, kind)
        BY <1>3 DEF Release, Reserve, Mark, Complete, OnlyWorker, Refused, Completes, repoVars
    <2> QED
        BY <1>0, <2>1, HolderElsewhere
<1>4. CASE \/ Refuse(w) \/ Record(w) \/ Continue(w) \/ Store(w) \/ FinishJob(w) \/ Publish(w)
    BY <1>0, <1>4, JobCalls, JobCallElsewhere DEF JobCall
<1> QED
    BY <1>1, <1>2, <1>3, <1>4 DEF WorkerStep

\* A worker that looks a job up now has held it before.
LEMMA StillToLookUp ==
    ASSUME ServiceTypeOK, NEW w \in Tokens, InHand(w), WorkerStep(w),
           worker'[w].pc \in {"held", "lookup"}
    PROVE  Held(w) /\ UNCHANGED repoVars /\ hits' = hits
<1> PICK row : row = worker[w]
    OBVIOUS
<1>0. /\ worker \in [Tokens -> WorkerRow] /\ row \in WorkerRow
      /\ \A res : Finish(w, res) => worker'[w].pc = "finish"
      /\ \A pc : Goto(w, pc) => worker'[w].pc = pc
      /\ Refused(w) => worker'[w].pc = "release"
    BY DEF ServiceTypeOK, WorkersOK, Finish, Goto, Refused, Raise, WorkerRow
<1>1. ~Poll(w) /\ ~Claim(w)
    BY DEF Poll, Claim, AtPoint, InHand, Free
<1>2. CASE Release(w)
    BY <1>0, <1>2 DEF Release, Idle
<1>3. CASE Lookup(w)
    BY <1>0, <1>3 DEF Lookup, UseCached, WorkerRow
<1>4. CASE Reserve(w) \/ Prepare(w) \/ Mark(w) \/ Marked(w) \/ Submit(w) \/ Refuse(w)
    BY <1>0, <1>4 DEF Reserve, Prepare, Mark, Marked, Submit, Refuse, WorkerRow
<1>5. CASE Complete(w)
    <2>1. row.reply \in Reply \ {"none"}
        BY <1>0, <1>5 DEF Complete, AtPoint, ServiceTypeOK, WorkersOK, Prepared, WorkerRow
    <2>2. AfterCall(w) => \/ \E k : worker' = [worker EXCEPT ![w].pc = "record", ![w].key = k]
                          \/ Goto(w, "refuse") \/ \E res : Finish(w, res)
        BY <2>1 DEF AfterCall, Reply, SentReply, UnsentReply, ResultReply
    <2>3. ASSUME NEW k, worker' = [worker EXCEPT ![w].pc = "record", ![w].key = k]
          PROVE  worker'[w].pc = "record"
        BY <1>0, <2>3 DEF WorkerRow
    <2> QED
        BY <1>0, <1>5, <2>2, <2>3 DEF Complete
<1>6. CASE Record(w) \/ Continue(w)
    BY <1>0, <1>6 DEF Record, Continue, AfterValidation, WorkerRow
<1>7. CASE Store(w) \/ FinishJob(w) \/ Publish(w)
    BY <1>0, <1>7 DEF Store, FinishJob, Publish, AfterFinish
<1>8. CASE Held(w)
    BY <1>8 DEF Held, OnlyWorker, repoVars
<1> QED
    BY <1>1, <1>2, <1>3, <1>4, <1>5, <1>6, <1>7, <1>8 DEF WorkerStep

\* The steps of the workers of a calm run: with a job in hand ...
LEMMA WorkingStaysCalm ==
    ASSUME EnoughSlots, PrivateKeys, WorkflowInv, ClaimsHeld, KeysOwn,
           faults = 0, faults' = 0, NEW w \in Tokens, WorkerStep(w), InHand(w),
           NEW r \in Runs, r = WorkerRun[w], ~run[r].cancel, CalmRun(r),
           run[r].approved => run'[r].approved
    PROVE  CalmRun(r)'
<1> PICK j : j = JobAt(w)
    OBVIOUS
<1>0. /\ ServiceTypeOK /\ FateInv /\ CacheInv /\ RepoTypeOK
      /\ j \in Jobs /\ RunOf[j] = r /\ w \in WorkersOf(r)
    BY HandsAreOfRun DEF WorkflowInv, CacheInv, WorkersOf
<1>1. /\ Stands(w) /\ hits' = hits /\ recovery' = recovery /\ Elsewhere(j)
    BY <1>0, WorkerMoves, WorkingElsewhere
       DEF WorkerStep, Poll, Claim, Held, Release, Lookup, Reserve, Prepare, Mark, Marked,
           Submit, Complete, Refuse, Record, Continue, Store, FinishJob, Publish, OnlyWorker,
           Service, Refused
<1>2. Ready(w)
    BY <1>0 DEF Ready, NoneExpired, ClaimsHeld, Undisturbed, CalmRun, ExecutionCalm, WorkerCalm,
       InHand
<1>3. Advances(w)
    BY <1>0, <1>2, WorkerAdvances DEF CalmRun, WorkerCalm
<1>4. ExecutionCalm(r)'
    BY <1>1, <1>3 DEF CalmRun, ExecutionCalm, Advances
<1>5. /\ InHand(w)' => JobAt(w)' = j
      /\ InHand(w)' \/ job'[j].status = "published"
    BY <1>3 DEF Advances, InHand, Free
<1>6. \A v \in Tokens : v # w => worker'[v] = worker[v] /\ JobAt(v)' = JobAt(v)
                                 /\ (InHand(v)' <=> InHand(v))
    BY <1>1 DEF Stands, JobAt, InHand
<1>7. \A v \in WorkersOf(r) : v # w /\ InHand(v) => JobAt(v) # j
    BY <1>0 DEF CalmRun, Apart
<1>8. Apart(r)'
    BY <1>5, <1>6, <1>7 DEF CalmRun, Apart, WorkersOf
<1>9. ASSUME NEW k \in JobsOf(r) PROVE JobCalm(k)'
    <2>1. CASE k = j
        BY <1>5, <2>1 DEF JobCalm
    <2>2. CASE k # j
        <3>1. \A v \in Tokens : InHand(v) /\ JobAt(v) = k => worker'[v] = worker[v]
            BY <1>6, <2>2
        <3>2. SameJob(k) /\ k \in Jobs /\ JobCalm(k)
            BY <1>1, <2>2 DEF Elsewhere, JobsOf, CalmRun
        <3> QED
            BY <1>1, <3>1, <3>2, JobStays
    <2> QED
        BY <2>1, <2>2
<1>10. ASSUME NEW v \in WorkersOf(r) PROVE WorkerCalm(v)'
    <2>1. CASE v # w
        <3>1. v \in Tokens /\ WorkerCalm(v) /\ worker'[v] = worker[v]
            BY <1>6, <2>1 DEF CalmRun, WorkersOf
        <3>2. InHand(v) => JobAt(v) \in Jobs /\ SameJob(JobAt(v))
            BY <1>0, <1>1, <1>7, <2>1, <3>1, HandsAreOfRun DEF Elsewhere
        <3> QED
            BY <1>1, <3>1, <3>2, WorkerStays
    <2>2. CASE v = w
        <3> SUFFICES ASSUME InHand(w)'
                     PROVE  /\ OnTheWay(w)'
                            /\ worker'[w].pc \in {"held", "lookup"} => Announced(JobAt(w))'
            BY <2>2 DEF WorkerCalm
        <3>1. OnTheWay(w)'
            BY <1>3 DEF Advances, InHand, Free
        <3>2. ASSUME worker'[w].pc \in {"held", "lookup"} PROVE Announced(JobAt(w))'
            <4>1. Held(w) /\ SameJob(j) /\ hits' = hits
                BY <1>0, <3>2, StillToLookUp DEF repoVars, SameJob
            <4>2. Announced(j)
                BY <1>0, <4>1 DEF CalmRun, WorkerCalm, Held, AtPoint
            <4>3. Announced(j)'
                BY <1>0, <4>1, <4>2, AnnouncedStands
            <4> QED
                BY <1>5, <4>3 DEF Announced
        <3> QED
            BY <3>1, <3>2
    <2> QED
        BY <2>1, <2>2
<1> QED
    BY <1>4, <1>8, <1>9, <1>10 DEF CalmRun, JobsOf, WorkersOf

\* ... and the claim of one, which nobody works on: so nothing was done for it.
LEMMA ClaimingStaysCalm ==
    ASSUME WorkflowInv, ClaimsHeld, faults = 0, NEW w \in Tokens, Claim(w),
           NEW r \in Runs, r = WorkerRun[w], ~run[r].cancel, CalmRun(r),
           run[r].approved => run'[r].approved
    PROVE  CalmRun(r)'
<1>0. /\ ServiceTypeOK /\ RepoTypeOK /\ NoneExpired
      /\ worker \in [Tokens -> WorkerRow] /\ worker[w].pc = "claim" /\ ~InHand(w)
      /\ job \in [Jobs -> JobRow] /\ w \in WorkersOf(r)
    BY DEF WorkflowInv, CacheInv, ServiceTypeOK, WorkersOK, NoneExpired, ClaimsHeld, Undisturbed,
       Claim, AtPoint, InHand, Free, RepoTypeOK, WorkersOf
<1>1. hits' = hits /\ recovery' = recovery /\ pool' = pool /\ abort' = abort
    BY DEF Claim, Service
<1>2. ExecutionCalm(r)'
    BY <1>1 DEF CalmRun, ExecutionCalm
<1>3. CASE ClaimNothing(r, FALSE) /\ worker' = [worker EXCEPT ![w] = Idle]
    <2>1. \A k \in Jobs : SameJob(k)
        BY <1>0, <1>3, ClaimNothingSame
    <2>2. \A v \in WorkersOf(r) : worker'[v] = worker[v] \/ (~InHand(v) /\ ~InHand(v)')
        BY <1>0, <1>3 DEF WorkersOf, InHand, Idle, Free
    <2> QED
        BY <1>0, <1>1, <1>2, <2>1, <2>2, RunStays DEF JobsOf
<1>4. ASSUME NEW j \in Jobs, ClaimNextJob(w, r, FALSE, j),
             worker' = [worker EXCEPT ![w] = [Idle EXCEPT !.pc = "held", !.job = j,
                                                          !.kind = ResumeKind(j)]]
      PROVE  CalmRun(r)'
    <2>1. /\ Elsewhere(j) /\ cache' = cache /\ published' = published /\ attempts' = attempts
          /\ RunOf[j] = r
          /\ \/ /\ job[j].status \in {"returned", "validated"}
                /\ job[j].token = NoToken
                /\ job' = [job EXCEPT ![j] = Leased(job[j], w)]
             \/ /\ job[j].status = "pending"
                /\ job' = [job EXCEPT ![j] = [Leased(job[j], w) EXCEPT !.status = "claimed"]]
        <3>1. ClaimsAlone(w, r, j)
            BY <1>0, <1>4, ClaimElsewhere
        <3> QED
            BY <3>1 DEF ClaimsAlone
    <2>2. ASSUME NEW v \in Tokens, InHand(v) PROVE JobAt(v) # j
        <3> SUFFICES ASSUME JobAt(v) = j PROVE FALSE
            OBVIOUS
        <3>1. v \in WorkersOf(r)
            BY <1>0, <2>1, <2>2, HandsAreOfRun DEF WorkersOf
        <3>2. OnTheWay(v)
            BY <2>2, <3>1 DEF CalmRun, WorkerCalm
        <3>3. NoToken # v
            BY RepositoryAssumption
        <3> QED
            BY <2>1, <3>2, <3>3, WayRow
    <2>3. Untouched(j)
        BY <2>1, <2>2 DEF CalmRun, JobCalm, JobsOf
    <2>4. job'[j] = [Leased(job[j], w) EXCEPT !.status = "claimed"]
        BY <1>0, <2>1, <2>3 DEF Untouched
    <2>5. /\ job'[j].status = "claimed" /\ job'[j].token = w /\ job'[j].cont = "mapping"
          /\ job'[j].key = NoKey /\ job'[j].resolution = "none"
        BY <1>0, <2>3, <2>4 DEF Leased, JobRow, Untouched
    <2>6. worker'[w] = [Idle EXCEPT !.pc = "held", !.job = j, !.kind = ResumeKind(j)]
        BY <1>0, <1>4
    <2>7. /\ worker'[w].pc = "held" /\ worker'[w].job = j /\ ~worker'[w].cached
          /\ worker'[w].kind = ResumeKind(j)
        BY <2>6 DEF Idle
    <2>8. /\ ResumeKind(j) \in PrimaryKinds
          /\ ResumeKind(j) = "mapping" <=> j \notin Derived
        <3>1. job[j].cont \notin ContinuationKinds
            BY <2>3 DEF Untouched, ContinuationKinds
        <3>2. j \in Derived => DerivedKind[j] \in {"section_synthesis", "rollup_synthesis"}
            BY WorkflowAssumption
        <3> QED
            BY <3>1, <3>2 DEF ResumeKind, PrimaryKinds
    <2>9. OnTheWay(w)'
        <3>1. JobAt(w)' = j
            BY <2>7 DEF JobAt
        <3>2. AtStart(worker'[w], job'[j], attempts'[j])
            BY <2>1, <2>3, <2>5, <2>7, <2>8 DEF AtStart, Opening, Untouched
        <3>3. Bound(w, worker'[w].pc, job'[j], published'[j])
            BY <2>1, <2>3, <2>5, <2>7 DEF Bound, Untouched
        <3> QED
            BY <3>1, <3>2, <3>3 DEF OnTheWay, Stage
    <2>10. Announced(j)' /\ JobAt(w)' = j /\ InHand(w)'
        BY <1>1, <2>1, <2>3, <2>7 DEF Announced, Untouched, JobAt, InHand, Free, LookupKey
    <2>11. \A v \in Tokens : v # w => /\ worker'[v] = worker[v] /\ JobAt(v)' = JobAt(v)
                                      /\ (InHand(v)' <=> InHand(v))
        BY <1>0, <1>4 DEF JobAt, InHand
    <2>12. Apart(r)'
        BY <2>2, <2>10, <2>11 DEF CalmRun, Apart, WorkersOf
    <2>13. ASSUME NEW k \in JobsOf(r) PROVE JobCalm(k)'
        <3>1. CASE k = j
            BY <2>10, <3>1 DEF JobCalm
        <3>2. CASE k # j
            <4>1. \A v \in Tokens : InHand(v) /\ JobAt(v) = k => worker'[v] = worker[v]
                BY <1>0, <2>11
            <4>2. SameJob(k) /\ k \in Jobs /\ JobCalm(k)
                BY <2>1, <3>2 DEF Elsewhere, JobsOf, CalmRun
            <4> QED
                BY <1>1, <4>1, <4>2, JobStays
        <3> QED
            BY <3>1, <3>2
    <2>14. ASSUME NEW v \in WorkersOf(r) PROVE WorkerCalm(v)'
        <3>1. CASE v # w
            <4>1. v \in Tokens /\ WorkerCalm(v) /\ worker'[v] = worker[v]
                BY <2>11, <3>1 DEF CalmRun, WorkersOf
            <4>2. InHand(v) => JobAt(v) \in Jobs /\ SameJob(JobAt(v))
                BY <1>0, <2>1, <2>2, <4>1, HandsAreOfRun DEF Elsewhere
            <4> QED
                BY <1>1, <4>1, <4>2, WorkerStays
        <3>2. CASE v = w
            <4>1. Announced(JobAt(w))'
                BY <2>10 DEF Announced
            <4> QED
                BY <2>9, <3>2, <4>1 DEF WorkerCalm
        <3> QED
            BY <3>1, <3>2
    <2> QED
        BY <1>2, <2>12, <2>13, <2>14 DEF CalmRun, JobsOf, WorkersOf
<1> QED
    BY <1>3, <1>4 DEF Claim

\* Of another run it is left alone.
LEMMA WorkerLeavesAlone ==
    ASSUME WorkflowInv, ClaimsHeld, KeysOwn, PrivateKeys, faults = 0,
           NEW w \in Tokens, WorkerStep(w), NEW k \in Jobs, RunOf[k] # WorkerRun[w]
    PROVE  SameJob(k)
<1>0. ServiceTypeOK /\ CacheInv /\ RepoTypeOK /\ NoneExpired /\ WorkerRun[w] \in Runs
    BY WorkflowAssumption DEF WorkflowInv, CacheInv, NoneExpired, ClaimsHeld, Undisturbed
<1>1. CASE InHand(w)
    BY <1>0, <1>1, WorkingElsewhere, HandsAreOfRun DEF Elsewhere
<1>2. CASE ~InHand(w)
    <2>1. Poll(w) \/ Claim(w)
        BY <1>2 DEF InHand, Free, WorkerStep, Held, Release, Lookup, Reserve, Prepare, Mark,
           Marked, Submit, Complete, Refuse, Record, Continue, Store, FinishJob, Publish, AtPoint
    <2>2. CASE Poll(w)
        BY <2>2 DEF Poll, OnlyWorker, repoVars, SameJob
    <2>3. CASE Claim(w)
        BY <1>0, <2>3, ClaimNothingSame, ClaimElsewhere
           DEF Claim, Elsewhere, ClaimsAlone
    <2> QED
        BY <2>1, <2>2, <2>3
<1> QED
    BY <1>1, <1>2

-----------------------------------------------------------------------------
(* Every step leaves the runs calm that nobody cancels.                        *)

\* A run that a step leaves alone stays calm ...
LEMMA LeftAloneStaysCalm ==
    ASSUME ServiceTypeOK, NEW q \in Runs, CalmRun(q), hits' = hits,
           pool'[q] = pool[q], abort'[q] = abort[q], recovery'[q] = recovery[q],
           run[q].approved => run'[q].approved,
           \A k \in JobsOf(q) : SameJob(k),
           \A w \in WorkersOf(q) : worker'[w] = worker[w]
    PROVE  CalmRun(q)'
<1>1. ExecutionCalm(q)'
    BY DEF CalmRun, ExecutionCalm
<1> QED
    BY <1>1, RunStays

\* ... and so does one without workers, of which a step touches no published job.
LEMMA RestingStaysCalm ==
    ASSUME ServiceTypeOK, NEW r \in Runs, CalmRun(r), ExecutionCalm(r)',
           \A w \in WorkersOf(r) : worker[w].pc = "off" /\ worker'[w].pc \in Free,
           \A k \in JobsOf(r) :
              /\ Untouched(k) => Untouched(k)'
              /\ job[k].status = "published" => job'[k].status = "published"
    PROVE  CalmRun(r)'
<1>1. \A k \in JobsOf(r) : JobCalm(k)'
    BY AtRest DEF JobCalm
<1>2. \A w \in WorkersOf(r) : ~InHand(w)'
    BY DEF InHand
<1>3. Apart(r)' /\ \A w \in WorkersOf(r) : WorkerCalm(w)'
    BY <1>2 DEF Apart, WorkerCalm, WorkersOf
<1> QED
    BY <1>1, <1>3 DEF CalmRun, JobsOf, WorkersOf

\* A worker of a calm run that is asked to go on claims.
LEMMA PollStaysCalm ==
    ASSUME ServiceTypeOK, NEW w \in Tokens, Poll(w), NEW r \in Runs, r = WorkerRun[w],
           ~run[r].cancel, CalmRun(r)
    PROVE  CalmRun(r)'
<1>1. /\ worker \in [Tokens -> WorkerRow] /\ worker[w].pc = "poll"
      /\ worker' = [worker EXCEPT ![w].pc = "claim"]
      /\ hits' = hits /\ pool' = pool /\ abort' = abort /\ recovery' = recovery
      /\ UNCHANGED repoVars
    BY DEF ServiceTypeOK, WorkersOK, Poll, AtPoint, Goto, OnlyWorker, CalmRun, ExecutionCalm
<1>2. ExecutionCalm(r)'
    BY <1>1 DEF CalmRun, ExecutionCalm, repoVars
<1>3. \A k \in JobsOf(r) : SameJob(k)
    BY <1>1 DEF SameJob, repoVars
<1>4. \A v \in WorkersOf(r) : worker'[v] = worker[v] \/ (~InHand(v) /\ ~InHand(v)')
    BY <1>1 DEF InHand, Free, WorkersOf, WorkerRow
<1> QED
    BY <1>1, <1>2, <1>3, <1>4, RunStays

\* Whatever a worker does, the calm runs stay so.
LEMMA WorkerStepStaysCalm ==
    ASSUME EnoughSlots, PrivateKeys, WorkflowInv, ClaimsHeld, KeysOwn, [RepoNext]_repoVars,
           faults = 0, faults' = 0, NEW w \in Tokens, WorkerStep(w),
           NEW q \in Runs, ~run[q].cancel, CalmRun(q)
    PROVE  CalmRun(q)'
<1>0. /\ ServiceTypeOK /\ RepoTypeOK /\ WorkerRun[w] \in Runs
      /\ run[q].approved => run'[q].approved
    BY ApprovalStays, WorkflowAssumption DEF WorkflowInv, CacheInv
<1>1. CASE q = WorkerRun[w]
    <2>1. CASE InHand(w)
        BY <1>0, <1>1, <2>1, WorkingStaysCalm
    <2>2. CASE ~InHand(w)
        <3>1. Poll(w) \/ Claim(w)
            BY <2>2 DEF InHand, Free, WorkerStep, Held, Release, Lookup, Reserve, Prepare, Mark,
               Marked, Submit, Complete, Refuse, Record, Continue, Store, FinishJob, Publish,
               AtPoint
        <3> QED
            BY <1>0, <1>1, <3>1, PollStaysCalm, ClaimingStaysCalm
    <2> QED
        BY <2>1, <2>2
<1>2. CASE q # WorkerRun[w]
    <2>1. /\ Stands(w) /\ (pool' = pool \/ Failing(w)) /\ pool \in [Runs -> Pool]
          /\ abort \in [Runs -> BOOLEAN]
        BY <1>0, WorkerMoves DEF ServiceTypeOK, PoolsOK
    <2>2. /\ hits' = hits /\ recovery' = recovery
          /\ abort' = abort \/ abort' = [abort EXCEPT ![WorkerRun[w]] = TRUE]
        BY DEF WorkerStep, Poll, Claim, Held, Release, Lookup, Reserve, Prepare, Mark, Marked,
           Submit, Complete, Refuse, Record, Continue, Store, FinishJob, Publish, OnlyWorker,
           Service, Refused, Raise
    <2>3. pool'[q] = pool[q] /\ abort'[q] = abort[q]
        BY <1>2, <2>1, <2>2 DEF Failing
    <2>4. \A k \in JobsOf(q) : SameJob(k)
        BY <1>2, WorkerLeavesAlone DEF JobsOf
    <2>5. \A v \in WorkersOf(q) : worker'[v] = worker[v]
        BY <1>2, <2>1 DEF Stands, WorkersOf
    <2> QED
        BY <1>0, <2>2, <2>3, <2>4, <2>5, LeftAloneStaysCalm
<1> QED
    BY <1>1, <1>2

\* So whatever an execution does.
LEMMA PoolStepStaysCalm ==
    ASSUME ServiceTypeOK, RepoTypeOK, NoneExpired, BusyInv, KeysOwn, PrivateKeys,
           [RepoNext]_repoVars, NEW r \in Runs, PoolStep(r), NEW q \in Runs, CalmRun(q)
    PROVE  CalmRun(q)'
<1>0. /\ pool \in [Runs -> Pool] /\ abort \in [Runs -> BOOLEAN]
      /\ worker \in [Tokens -> WorkerRow]
      /\ run[q].approved => run'[q].approved
      /\ hits' = hits /\ recovery' = recovery
    BY ApprovalStays DEF ServiceTypeOK, PoolsOK, WorkersOK, PoolStep, Validate, Begin, Drain,
       NextPhase, RegisterSections, OnlyPool
<1>1. /\ pool[r] \notin {"idle"}
      /\ \A x \in Runs \ {r} : pool'[x] = pool[x] /\ abort'[x] = abort[x]
      /\ pool[r] # "failing" => pool'[r] # "failing"
      /\ ~abort[r] => ~abort'[r]
    BY <1>0 DEF PoolStep, Validate, Begin, Drain, NextPhase, RegisterSections, OnlyPool, PoolTo
<1>2. \A w \in WorkersOf(r) : worker[w].pc = "off" /\ worker'[w].pc \in Free
    <2>1. \A w \in WorkersOf(r) : worker[w].pc = "off"
        BY DEF PoolStep, Validate, Begin, Drain, NextPhase, RegisterSections, BusyInv, WorkersOf
    <2>2. \/ worker' = worker
          \/ \A w \in WorkersOf(r) : worker'[w] = [Idle EXCEPT !.pc = "poll"]
        BY DEF PoolStep, Validate, Begin, Drain, NextPhase, RegisterSections, OnlyPool,
           WorkersOf
    <2> QED
        BY <2>1, <2>2 DEF Free, Idle
<1>3. \A w \in Tokens : WorkerRun[w] # r => worker'[w] = worker[w]
    BY DEF PoolStep, Validate, Begin, Drain, NextPhase, RegisterSections, OnlyPool, WorkersOf
<1>4. \/ UNCHANGED repoVars \/ ActivateResumableJobs(r)
      \/ \E j \in JobsOf(r) : RegisterJob(j)
    BY DEF PoolStep, Validate, Begin, Drain, NextPhase, RegisterSections, OnlyPool, Absent,
       RollupsOf, SectionsOf, First
<1>5. CASE q # r
    <2>1. \A k \in JobsOf(q) : SameJob(k)
        <3>1. CASE UNCHANGED repoVars
            BY <3>1 DEF repoVars, SameJob
        <3>2. CASE ActivateResumableJobs(r)
            BY <1>5, <3>2, RunStepElsewhere DEF RunStep, JobsOf
        <3>3. ASSUME NEW j \in JobsOf(r), RegisterJob(j)
              PROVE  \A k \in JobsOf(q) : SameJob(k)
            <4>1. j \in Jobs /\ RunOf[j] = r /\ JobCall(j)
                BY <3>3 DEF JobsOf, JobCall, LaterCall
            <4> QED
                BY <1>5, <4>1, JobCallElsewhere DEF Elsewhere, JobsOf
        <3> QED
            BY <1>4, <3>1, <3>2, <3>3
    <2>2. \A w \in WorkersOf(q) : worker'[w] = worker[w]
        BY <1>3, <1>5 DEF WorkersOf
    <2> QED
        BY <1>0, <1>1, <1>5, <2>1, <2>2, LeftAloneStaysCalm
<1>6. CASE q = r
    <2>1. ExecutionCalm(r)'
        BY <1>0, <1>1, <1>6 DEF CalmRun, ExecutionCalm
    <2>2. ASSUME NEW k \in JobsOf(r)
          PROVE  /\ Untouched(k) => Untouched(k)'
                 /\ job[k].status = "published" => job'[k].status = "published"
        <3>0. k \in Jobs /\ RunOf[k] = r /\ job \in [Jobs -> JobRow]
            BY DEF JobsOf, RepoTypeOK
        <3>1. SameJob(k) => /\ Untouched(k) => Untouched(k)'
                            /\ job[k].status = "published" => job'[k].status = "published"
            BY <1>0, <3>0, UntouchedStands DEF SameJob
        <3>2. CASE UNCHANGED repoVars
            BY <3>1, <3>2 DEF repoVars, SameJob
        <3>3. CASE ActivateResumableJobs(r)
            <4>1. Untouched(k) \/ job[k].status = "published" => SameJob(k)
                BY <3>0, <3>3 DEF ActivateResumableJobs, SameJob, Untouched
            <4> QED
                BY <3>1, <4>1
        <3>4. ASSUME NEW j \in JobsOf(r), RegisterJob(j)
              PROVE  /\ Untouched(k) => Untouched(k)'
                     /\ job[k].status = "published" => job'[k].status = "published"
            <4>0. /\ j \in Jobs /\ attempts' = attempts /\ cache' = cache
                  /\ published' = published /\ job[j].status = "absent"
                  /\ job' = [job EXCEPT ![j] = FreshJob("pending")]
                BY <3>4 DEF JobsOf, RegisterJob
            <4>1. CASE k # j
                BY <3>0, <3>1, <4>0, <4>1 DEF SameJob
            <4>2. CASE k = j
                <5>1. job'[k] = FreshJob("pending") /\ job[k].status = "absent"
                    BY <3>0, <4>0, <4>2
                <5>2. Announced(k) => Announced(k)'
                    BY <1>0, <4>0 DEF Announced, LookupKey
                <5> QED
                    BY <4>0, <5>1, <5>2 DEF Untouched, FreshJob
            <4> QED
                BY <4>1, <4>2
        <3> QED
            BY <1>4, <3>2, <3>3, <3>4
    <2> QED
        BY <1>2, <1>6, <2>1, <2>2, RestingStaysCalm
<1> QED
    BY <1>5, <1>6

\* A recovery of a calm run has nothing to recover: it ran beside no execution, and the
\* jobs that are not published are untouched.
LEMMA RecoveryRests ==
    ASSUME ServiceTypeOK, RepoTypeOK, NoneExpired, BusyInv, ChoresOwn, NEW r \in Runs,
           RecoveryStep(r), CalmRun(r)
    PROVE  /\ \A w \in WorkersOf(r) : worker[w].pc = "off"
           /\ \A k \in JobsOf(r) : SameJob(k)
           /\ \A j \in Jobs : recovery'[r].chore[j] \in {"none", "defer"}
<1>0. /\ pool[r] = "idle" /\ recovery \in [Runs -> RecoveryRow]
      /\ recovery[r].chore \in [Jobs -> Chore]
      /\ \A j \in Jobs : recovery[r].chore[j] \in {"none", "defer"}
    BY DEF CalmRun, ExecutionCalm, RecoveryStep, RecoverLeases, ListJobs, Loop, EndResume,
       ServiceTypeOK, PoolsOK, RecoveryRow
<1>1. \A w \in WorkersOf(r) : worker[w].pc = "off"
    BY <1>0 DEF BusyInv, WorkersOf
<1>2. \A k \in JobsOf(r) : Untouched(k) \/ job[k].status = "published"
    BY <1>1, AtRest
<1>3. \A j \in Jobs : NoChores[j] = "none"
    BY DEF NoChores
<1>4. \A phase, chore : RecoveryTo(r, phase, chore) => recovery'[r].chore = chore
    BY <1>0 DEF RecoveryTo
<1>5. CASE RecoverLeases(r)
    <2>1. \A k \in JobsOf(r) : k \notin DueInRun(r) /\ k \notin Lost(r)
        BY <1>2, NothingDue DEF DueInRun, Lost, Untouched, SlotStatus
    <2>2. \A k \in JobsOf(r) : SameJob(k)
        BY <1>5, <2>1 DEF RecoverLeases, RecoverRun, JobsAfter, AttemptsAfter, SameJob, JobsOf
    <2>3. \A j \in Jobs : recovery'[r].chore[j] \in {"none", "defer"}
        BY <1>3, <1>4, <1>5 DEF RecoverLeases
    <2> QED
        BY <1>1, <2>2, <2>3
<1>6. CASE ListJobs(r)
    <2>1. \A k \in JobsOf(r) : ChoreFor(job[k]) \in {"none", "defer"}
        BY <1>2 DEF ChoreFor, Untouched
    <2>2. \A j \in Jobs : recovery'[r].chore[j] \in {"none", "defer"}
        BY <1>4, <1>6, <2>1 DEF ListJobs, JobsOf
    <2> QED
        BY <1>1, <1>6, <2>2 DEF ListJobs, repoVars, SameJob
<1>7. CASE Loop(r)
    <2>1. ASSUME NEW j \in Jobs, First(Chores(r), j), DoChore(r, j)
          PROVE  /\ UNCHANGED repoVars
                 /\ \A k \in Jobs : recovery'[r].chore[k] \in {"none", "defer"}
        <3>1. recovery[r].chore[j] = "defer" /\ j \in JobsOf(r)
            BY <1>0, <2>1 DEF First, Chores, ChoresOwn, JobsOf
        <3>2. ~DeferResumableJob(j)
            BY <1>2, <3>1 DEF DeferResumableJob, MayDefer, Untouched, Attempted
        <3>3. /\ UNCHANGED repoVars
              /\ \/ RecoveryTo(r, "loop", [recovery[r].chore EXCEPT ![j] = "none"])
                 \/ RecoveryTo(r, "failed", NoChores)
            BY <2>1, <3>1, <3>2 DEF DoChore
        <3>4. \A k \in Jobs :
                 [recovery[r].chore EXCEPT ![j] = "none"][k] \in {"none", "defer"}
            BY <1>0
        <3> QED
            BY <1>3, <1>4, <3>3, <3>4
    <2>2. CASE RecoveryTo(r, "done", NoChores) /\ UNCHANGED repoVars
        BY <1>1, <1>3, <1>4, <2>2 DEF repoVars, SameJob
    <2> QED
        BY <1>1, <1>7, <2>1, <2>2 DEF Loop, repoVars, SameJob
<1>8. CASE EndResume(r)
    <2>1. recovery'[r].chore = NoChores
        BY <1>0, <1>8 DEF EndResume, Resting
    <2> QED
        BY <1>1, <1>3, <1>8, <2>1 DEF EndResume, repoVars, SameJob
<1> QED
    BY <1>5, <1>6, <1>7, <1>8 DEF RecoveryStep

\* So whatever a recovery does, the calm runs stay so.
LEMMA RecoveryStepStaysCalm ==
    ASSUME ServiceTypeOK, CacheInv, NoneExpired, BusyInv, KeysOwn, ChoresOwn, PrivateKeys,
           [RepoNext]_repoVars, NEW r \in Runs, RecoveryStep(r), NEW q \in Runs, CalmRun(q)
    PROVE  CalmRun(q)'
<1>0. /\ RepoTypeOK /\ pool \in [Runs -> Pool] /\ recovery \in [Runs -> RecoveryRow]
      /\ run[q].approved => run'[q].approved
      /\ hits' = hits /\ worker' = worker /\ abort' = abort
    BY ApprovalStays DEF CacheInv, ServiceTypeOK, PoolsOK, RecoveryRow, RecoveryStep,
       RecoverLeases, ListJobs, Loop, EndResume, OnlyRecovery
<1>1. /\ \A x \in Runs \ {r} : pool'[x] = pool[x] /\ recovery'[x] = recovery[x]
      /\ pool' = pool \/ (pool'[r] = "starting" /\ recovery'[r] = Resting)
    <2>1. \A x \in Runs \ {r} : recovery'[x] = recovery[x]
        <3>1. \A phase, chore : RecoveryTo(r, phase, chore) =>
                 \A x \in Runs \ {r} : recovery'[x] = recovery[x]
            BY <1>0 DEF RecoveryTo
        <3>2. ASSUME NEW j \in Jobs, First(Chores(r), j), DoChore(r, j)
              PROVE  \E phase, chore : RecoveryTo(r, phase, chore)
            <4>1. recovery[r].chore[j] \in {"defer", "store", "finalize", "publish"}
                BY <3>2 DEF ServiceTypeOK, PoolsOK, First, Chores, Chore
            <4> QED
                BY <3>2, <4>1 DEF DoChore
        <3>3. CASE EndResume(r)
            BY <1>0, <3>3 DEF EndResume
        <3>4. CASE ~EndResume(r)
            <4>1. \E phase, chore : RecoveryTo(r, phase, chore)
                BY <3>2, <3>4 DEF RecoveryStep, RecoverLeases, ListJobs, Loop
            <4> QED
                BY <3>1, <4>1
        <3> QED
            BY <3>3, <3>4
    <2>2. \/ pool' = pool
          \/ /\ pool' = [pool EXCEPT ![r] = "starting"]
             /\ recovery' = [recovery EXCEPT ![r] = Resting]
        BY DEF RecoveryStep, RecoverLeases, ListJobs, Loop, EndResume, OnlyRecovery
    <2> QED
        BY <1>0, <2>1, <2>2
<1>2. CASE q # r
    <2>1. \A k \in JobsOf(q) : SameJob(k)
        <3>1. ASSUME NEW j \in Jobs, First(Chores(r), j), DoChore(r, j)
              PROVE  \A k \in JobsOf(q) : SameJob(k)
            <4>0. /\ recovery[r].chore[j] \in {"defer", "store", "finalize", "publish"}
                  /\ RunOf[j] = r
                BY <3>1 DEF ServiceTypeOK, PoolsOK, First, Chores, Chore, ChoresOwn
            <4>1. \/ UNCHANGED repoVars \/ DeferResumableJob(j) \/ StoreCache(j)
                  \/ FinalizeJob(j, "accepted") \/ PublishJob(j, PublishedForm(j))
                BY <3>1, <4>0 DEF DoChore
            <4>2. UNCHANGED repoVars \/ JobCall(j)
                BY <4>1, PublishesForm DEF JobCall, LaterCall, Resolution
            <4>3. UNCHANGED repoVars => \A k \in Jobs : SameJob(k)
                BY DEF repoVars, SameJob
            <4> QED
                BY <1>0, <1>2, <4>0, <4>2, <4>3, JobCallElsewhere DEF Elsewhere, JobsOf
        <3>2. \/ UNCHANGED repoVars \/ RecoverRun(r)
              \/ \E j \in Jobs : First(Chores(r), j) /\ DoChore(r, j)
            BY DEF RecoveryStep, RecoverLeases, ListJobs, Loop, EndResume
        <3>3. CASE UNCHANGED repoVars
            BY <3>3 DEF repoVars, SameJob
        <3>4. CASE RecoverRun(r)
            BY <1>0, <1>2, <3>4, RunStepElsewhere DEF RunStep, JobsOf
        <3> QED
            BY <3>1, <3>2, <3>3, <3>4
    <2> QED
        BY <1>0, <1>1, <1>2, <2>1, LeftAloneStaysCalm
<1>3. CASE q = r
    <2>1. /\ \A k \in JobsOf(r) : SameJob(k)
          /\ \A j \in Jobs : recovery'[r].chore[j] \in {"none", "defer"}
        BY <1>0, <1>3, RecoveryRests
    <2>2. pool[r] = "idle" /\ run[r].approved
        BY <1>3 DEF CalmRun, ExecutionCalm, RecoveryStep, RecoverLeases, ListJobs, Loop,
           EndResume
    <2>3. Resting.phase = "idle"
        BY DEF Resting
    <2>4. ExecutionCalm(r)'
        BY <1>0, <1>1, <1>3, <2>1, <2>2, <2>3 DEF CalmRun, ExecutionCalm
    <2> QED
        BY <1>0, <1>3, <2>1, <2>4, RunStays
<1> QED
    BY <1>2, <1>3

\* A recovery takes on chores with jobs of its run only.
LEMMA NextChores ==
    ASSUME ServiceTypeOK, ChoresOwn, [Next]_vars
    PROVE  ChoresOwn'
<1>0. recovery \in [Runs -> RecoveryRow]
    BY DEF ServiceTypeOK, PoolsOK, RecoveryRow
<1>1. \A j \in Jobs : NoChores[j] = "none"
    BY DEF NoChores
<1>2. ASSUME NEW r \in Runs, NEW phase, NEW chore, RecoveryTo(r, phase, chore),
             \A j \in Jobs : chore[j] # "none" => RunOf[j] = r
      PROVE  ChoresOwn'
    <2>1. recovery'[r].chore = chore /\ \A x \in Runs \ {r} : recovery'[x] = recovery[x]
        BY <1>0, <1>2 DEF RecoveryTo
    <2> QED
        BY <1>2, <2>1 DEF ChoresOwn
<1>3. CASE recovery' = recovery
    BY <1>3 DEF ChoresOwn
<1>4. ASSUME NEW r \in Runs, RecoveryStep(r) PROVE ChoresOwn'
    <2>1. CASE RecoverLeases(r)
        BY <1>1, <1>2, <2>1 DEF RecoverLeases
    <2>2. CASE ListJobs(r)
        <3> PICK chore : chore = [j \in Jobs |-> IF RunOf[j] = r THEN ChoreFor(job[j])
                                                              ELSE "none"]
            OBVIOUS
        <3>1. \A j \in Jobs : chore[j] # "none" => RunOf[j] = r
            OBVIOUS
        <3> QED
            BY <1>2, <2>2, <3>1 DEF ListJobs
    <2>3. ASSUME NEW j \in Jobs, First(Chores(r), j), DoChore(r, j) PROVE ChoresOwn'
        <3>0. /\ recovery[r].chore[j] \in {"defer", "store", "finalize", "publish"}
              /\ RunOf[j] = r /\ recovery[r].chore \in [Jobs -> Chore]
            BY <2>3 DEF ServiceTypeOK, PoolsOK, First, Chores, Chore, ChoresOwn
        <3>1. \/ RecoveryTo(r, "failed", NoChores)
              \/ \E next : RecoveryTo(r, "loop", [recovery[r].chore EXCEPT ![j] = next])
            BY <2>3, <3>0 DEF DoChore
        <3>2. ASSUME NEW next,
                     RecoveryTo(r, "loop", [recovery[r].chore EXCEPT ![j] = next])
              PROVE  ChoresOwn'
            <4>1. \A k \in Jobs :
                     [recovery[r].chore EXCEPT ![j] = next][k] # "none" => RunOf[k] = r
                BY <3>0 DEF ChoresOwn
            <4> QED
                BY <1>2, <3>2, <4>1
        <3> QED
            BY <1>1, <1>2, <3>1, <3>2
    <2>4. CASE Loop(r)
        BY <1>1, <1>2, <2>3, <2>4 DEF Loop
    <2>5. CASE EndResume(r)
        <3>1. RecoveryTo(r, "idle", NoChores)
            BY <2>5 DEF EndResume, Resting, RecoveryTo
        <3> QED
            BY <1>1, <1>2, <3>1
    <2> QED
        BY <1>4, <2>1, <2>2, <2>4, <2>5 DEF RecoveryStep
<1>5. CASE Crash
    <2>1. \A r \in Runs : recovery'[r].chore = NoChores
        BY <1>5 DEF Crash, Resting
    <2> QED
        BY <1>1, <2>1 DEF ChoresOwn
<1>6. ASSUME NEW r \in Runs, Resume(r) PROVE ChoresOwn'
    BY <1>1, <1>2, <1>6 DEF Resume
<1>7. ASSUME NEW w \in Tokens, WorkerStep(w) PROVE recovery' = recovery
    BY <1>7 DEF WorkerStep, Poll, Claim, Held, Release, Lookup, Reserve, Prepare, Mark, Marked,
       Submit, Complete, Refuse, Record, Continue, Store, FinishJob, Publish, OnlyWorker,
       Service, Refused
<1>8. ASSUME NEW r \in Runs, PoolStep(r) \/ Start(r) \/ Cancel(r) PROVE recovery' = recovery
    BY <1>8 DEF PoolStep, Validate, Begin, Drain, NextPhase, RegisterSections, OnlyPool, Start,
       Cancel, serviceVars
<1>9. ASSUME NEW j \in Jobs, ApproveRetry(j) \/ Expire(j) PROVE recovery' = recovery
    BY <1>9 DEF ApproveRetry, Expire, serviceVars
<1>10. CASE UNCHANGED vars
    BY <1>10 DEF vars, serviceVars, ChoresOwn
<1> QED
    BY <1>3, <1>4, <1>5, <1>6, <1>7, <1>8, <1>9, <1>10 DEF Next, Command, Fault

\* The user disturbs a run only by cancelling it: that is always possible while a job of
\* it is pending or claimed, as its status is kept fresh.
LEMMA CommandStaysCalm ==
    ASSUME ServiceTypeOK, RepoTypeOK, NoneExpired, KeysOwn, PrivateKeys, RunStatusFresh,
           [RepoNext]_repoVars, faults = 0, faults' = 0, Command,
           NEW q \in Runs, ~run'[q].cancel, CalmRun(q)
    PROVE  CalmRun(q)'
<1>0. /\ pool \in [Runs -> Pool] /\ recovery \in [Runs -> RecoveryRow]
      /\ run \in [Runs -> RunRow] /\ job \in [Jobs -> JobRow]
      /\ run[q].approved => run'[q].approved
      /\ hits' = hits /\ worker' = worker /\ abort' = abort
    BY ApprovalStays DEF ServiceTypeOK, PoolsOK, RecoveryRow, RepoTypeOK, Command, Start,
       Resume, Cancel, ApproveRetry, serviceVars
<1>1. UNCHANGED <<job, attempts, cache, published>> => \A k \in JobsOf(q) : SameJob(k)
    BY DEF SameJob
<1>2. ASSUME NEW r \in Runs, Start(r) PROVE CalmRun(q)'
    <2>1. \A k \in JobsOf(q) : SameJob(k)
        BY <1>1, <1>2 DEF Start, StoreRunApproval
    <2>2. ExecutionCalm(q)'
        BY <1>0, <1>2 DEF CalmRun, ExecutionCalm, Start, StoreRunApproval, PoolTo
    <2> QED
        BY <1>0, <2>1, <2>2, RunStays
<1>3. ASSUME NEW r \in Runs, Resume(r) PROVE CalmRun(q)'
    <2>1. \A k \in JobsOf(q) : SameJob(k)
        BY <1>1, <1>3 DEF Resume, repoVars
    <2>2. pool[r] = "idle" /\ pool' = pool /\ run[r].approved
        BY <1>3 DEF Resume
    <2>3. \A j \in Jobs : NoChores[j] = "none"
        BY DEF NoChores
    <2>4. /\ recovery'[r].chore = NoChores
          /\ \A x \in Runs \ {r} : recovery'[x] = recovery[x]
        BY <1>0, <1>3 DEF Resume, RecoveryTo
    <2>5. ExecutionCalm(q)'
        BY <1>0, <2>2, <2>3, <2>4 DEF CalmRun, ExecutionCalm
    <2> QED
        BY <1>0, <2>1, <2>5, RunStays
<1>4. ASSUME NEW r \in Runs, Cancel(r) PROVE CalmRun(q)'
    <2>1. \A k \in JobsOf(q) : SameJob(k)
        <3>1. CASE q # r
            BY <1>4, <3>1, RunStepElsewhere DEF Cancel, RunStep, JobsOf
        <3>2. CASE q = r
            <4>1. run'[r].cancel = CancelFlag(r)
                BY <1>0, <1>4 DEF Cancel, CancelRun, RunRow
            <4>2. /\ run[r].status \notin {"prepared", "running"} /\ ~run[r].cancel
                  /\ run[r].status = RunStatusFor(r, job, FALSE)
                BY <1>0, <3>2, <4>1 DEF CancelFlag, RunStatusFresh, RunRow
            <4>3. \A k \in JobsOf(r) : job[k].status \notin {"pending", "claimed"}
                BY <4>2 DEF RunStatusFor, Unfinished
            <4> QED
                BY <1>0, <1>4, <3>2, <4>3 DEF Cancel, CancelRun, SameJob, JobsOf
        <3> QED
            BY <3>1, <3>2
    <2> QED
        BY <1>0, <1>4, <2>1, LeftAloneStaysCalm DEF Cancel, serviceVars
<1>5. ASSUME NEW j \in Jobs, ApproveRetry(j) PROVE CalmRun(q)'
    <2>1. RunOf[j] # q
        <3> SUFFICES ASSUME RunOf[j] = q PROVE FALSE
            OBVIOUS
        <3>1. job[j].status = "indeterminate" /\ JobCalm(j)
            BY <1>5 DEF ApproveRetry, StoreRetryApproval, CalmRun, JobsOf
        <3>2. PICK w \in Tokens : InHand(w) /\ JobAt(w) = j
            BY <3>1 DEF JobCalm, Untouched
        <3>3. OnTheWay(w)
            BY <3>2, HandsAreOfRun DEF CalmRun, WorkerCalm, WorkersOf
        <3> QED
            BY <3>1, <3>2, <3>3, WayRow
    <2>2. Elsewhere(j)
        BY <1>5, JobCallElsewhere DEF ApproveRetry, JobCall, LaterCall
    <2>3. \A k \in JobsOf(q) : SameJob(k)
        BY <2>1, <2>2 DEF Elsewhere, JobsOf
    <2> QED
        BY <1>0, <1>5, <2>3, LeftAloneStaysCalm DEF ApproveRetry, serviceVars
<1> QED
    BY <1>2, <1>3, <1>4, <1>5 DEF Command

\* While nothing goes wrong outside the program, every run is calm that nobody cancels.
CalmInv == faults = 0 => \A r \in Runs : ~run[r].cancel => CalmRun(r)

CleanInv == DrainInv /\ KeysOwn /\ ChoresOwn /\ CalmInv

\* Relative to the fresh statuses of the runs, this is an inductive invariant.
LEMMA NextCalm ==
    ASSUME EnoughSlots, PrivateKeys, CleanInv, RunStatusFresh, [Next]_vars
    PROVE  CleanInv'
<1>0. /\ WorkflowInv /\ ServiceTypeOK /\ RepoTypeOK /\ CacheInv /\ ClaimsHeld /\ BusyInv
      /\ KeysOwn /\ ChoresOwn /\ faults \in Nat
    BY DEF CleanInv, DrainInv, WorkflowInv, CacheInv, ServiceTypeOK, PoolsOK
<1>1. DrainInv' /\ KeysOwn' /\ ChoresOwn' /\ [RepoNext]_repoVars
    BY <1>0, NextDrains, NextKeys, NextChores, NextCalls DEF CleanInv
<1>2. ASSUME faults' = 0, NEW q \in Runs, ~run'[q].cancel PROVE CalmRun(q)'
    <2>1. faults = 0
        <3>0. ~(faults' = faults \/ faults' = faults + 1) => ~UNCHANGED vars /\ ~Command /\ ~Fault
            BY DEF vars, serviceVars, Command, Start, Resume, Cancel, ApproveRetry, Fault, Crash,
               Expire
        <3>a. ASSUME NEW r \in Runs, PoolStep(r) \/ RecoveryStep(r) PROVE faults' = faults
            BY <3>a DEF PoolStep, Validate, Begin, Drain, NextPhase, RegisterSections, OnlyPool,
               RecoveryStep, RecoverLeases, ListJobs, Loop, EndResume, OnlyRecovery
        <3>b. ASSUME NEW w \in Tokens, WorkerStep(w)
              PROVE  faults' = faults \/ faults' = faults + 1
            BY <3>b DEF WorkerStep, Poll, Claim, Held, Release, Lookup, Reserve, Prepare, Mark,
               Marked, Submit, Complete, Refuse, Record, Continue, Store, FinishJob, Publish,
               OnlyWorker, Service, Refused
        <3>1. faults' = faults \/ faults' = faults + 1
            BY <3>0, <3>a, <3>b DEF Next
        <3> QED
            BY <1>0, <1>2, <3>1
    <2>2. ~run[q].cancel
        BY <1>0, <1>1, <1>2, CancelStays DEF CancelFlag
    <2>3. CalmRun(q) /\ NoneExpired
        BY <2>1, <2>2 DEF CleanInv, CalmInv, DrainInv, ClaimsHeld, Undisturbed, NoneExpired
    <2>4. CASE UNCHANGED vars
        <3>1. \A k \in JobsOf(q) : SameJob(k)
            BY <2>4 DEF vars, repoVars, SameJob
        <3> QED
            BY <1>0, <2>3, <2>4, <3>1, LeftAloneStaysCalm DEF vars, repoVars, serviceVars
    <2>5. ~Fault
        BY <1>0, <1>2, <2>1 DEF Fault, Crash, Expire
    <2> QED
        BY <1>0, <1>1, <1>2, <2>1, <2>2, <2>3, <2>4, <2>5, WorkerStepStaysCalm,
           PoolStepStaysCalm, RecoveryStepStaysCalm, CommandStaysCalm DEF Next
<1> QED
    BY <1>1, <1>2 DEF CleanInv, CalmInv

\* CleanDrain holds of every execution of the workflow in which no two jobs of the plans
\* share a cache identity and there are at most as many workers as submission slots: an
\* execution that nothing goes wrong around leaves no claim behind, and is refused nothing
\* unless somebody cancels it.
THEOREM DrainIsClean ==
    ASSUME EnoughSlots, PrivateKeys
    PROVE  Workflow => []CleanDrain
<1>1. WorkflowInit => CleanInv
    <2> SUFFICES ASSUME WorkflowInit PROVE CleanInv
        OBVIOUS
    <2>0. ServiceTypeOK /\ Idle.pc = "off" /\ \A w \in Tokens : worker[w] = Idle
        BY InitServiceTyped DEF WorkflowInit, Idle
    <2>1. DrainInv
        <3>1. BusyInv
            BY DEF WorkflowInit, BusyInv, Idle
        <3>2. ClaimsHeld
            BY DEF WorkflowInit, RepoInit, FreshJob, ClaimsHeld, Undisturbed, ClaimHeld,
               SlotStatus
        <3> QED
            BY <3>1, <3>2, InitWorkflow DEF DrainInv
    <2>2. KeysOwn
        BY <2>0 DEF KeysOwn, WorkflowInit, RepoInit, FreshJob
    <2>3. ChoresOwn
        BY DEF ChoresOwn, WorkflowInit, Resting, NoChores
    <2>4. ASSUME NEW r \in Runs PROVE CalmRun(r)
        <3>1. ExecutionCalm(r)
            BY DEF ExecutionCalm, WorkflowInit, Resting, NoChores
        <3>2. \A w \in WorkersOf(r) : ~InHand(w)
            BY <2>0 DEF InHand, Free, WorkersOf
        <3>3. ASSUME NEW j \in JobsOf(r) PROVE Untouched(j)
            <4>1. j \in Jobs /\ RunOf[j] = r
                BY DEF JobsOf
            <4>2. Announced(j)
                BY <4>1 DEF WorkflowInit, Announced
            <4> QED
                BY <4>1, <4>2 DEF Untouched, WorkflowInit, RepoInit, FreshJob
        <3> QED
            BY <3>1, <3>2, <3>3 DEF CalmRun, Apart, JobCalm, WorkerCalm
    <2> QED
        BY <2>1, <2>2, <2>3, <2>4 DEF CleanInv, CalmInv
<1>2. CleanInv /\ RunStatusFresh /\ [Next]_vars => CleanInv'
    BY NextCalm
<1>3. CleanInv => NothingRefused
    BY DEF CleanInv, CalmInv, CalmRun, ExecutionCalm, NothingRefused
<1>4. Workflow => []RunStatusFresh
    BY WorkflowKeepsTables
<1>5. Workflow => []NoClaimLeft
    BY DrainLeavesNoClaim
<1>6. NoClaimLeft /\ NothingRefused <=> CleanDrain
    BY DEF CleanDrain
<1> QED
    BY <1>1, <1>2, <1>3, <1>4, <1>5, <1>6, PTL DEF Workflow

-----------------------------------------------------------------------------
(* Derived jobs are registered after what they summarize.  Nothing but the       *)
(* execution registers a job, it does so once the results the job is built from  *)
(* are published, and a published result stays what it is.                       *)

\* A result is published in the transaction that makes its job published.
PublishedTogether == \A k \in Jobs : published[k] # NoResult => job[k].status = "published"

\* What the registration of a derived job has seen published, job by job.
OrderInv ==
    \A r \in Runs :
        /\ \A s \in SectionsOf(r) : job[s].status # "absent" => MappingsPublished(r)
        /\ \A p \in RollupsOf(r) : job[p].status # "absent" => HaveResults(SectionsOf(r))

\* No row stops being published or comes into being ...
KeepsSettled(a, b) == a.status \in {"published", "absent"} => b.status = a.status
AllKeepSettled == \A k \in Jobs : KeepsSettled(job[k], job'[k])

\* ... and what is published stays.
ResultsStay ==
    \A k \in Jobs : \/ published'[k] = published[k]
                    \/ published[k] = NoResult /\ job'[k].status = "published"

\* A transaction that writes one row, which is neither published nor absent or keeps its
\* status.
LEMMA OneRowFollows ==
    ASSUME NEW j \in Jobs, \A k \in Jobs : k # j => job'[k] = job[k],
           job[j].status \in {"published", "absent"} => job'[j].status = job[j].status
    PROVE  AllKeepSettled
BY DEF AllKeepSettled, KeepsSettled

\* The jobs whose leases are recovered are neither.
LEMMA RecoveredFollow ==
    ASSUME NEW due, \A k \in due : job[k].status \in SlotStatus, NEW k \in Jobs
    PROVE  KeepsSettled(job[k], JobsAfter(due)[k])
BY DEF JobsAfter, KeepsSettled, SlotStatus

\* The transactions on a run.
LEMMA RunStepFollows ==
    ASSUME RepoTypeOK, NEW r \in Runs, RunStep(r)
    PROVE  AllKeepSettled /\ ResultsStay
<1>1. job \in [Jobs -> JobRow] /\ \A k \in Jobs : job[k] \in JobRow
    BY DEF RepoTypeOK
<1>2. ResultsStay
    BY DEF RunStep, StoreRunApproval, CancelRun, RecoverRun, ActivateResumableJobs, ResultsStay
<1>3. CASE StoreRunApproval(r)
    BY <1>2, <1>3 DEF StoreRunApproval, AllKeepSettled, KeepsSettled
<1>4. CASE CancelRun(r)
    <2>1. \A k \in Jobs : job[k].status \notin {"pending", "claimed"} => job'[k] = job[k]
        BY <1>4 DEF CancelRun
    <2> QED
        BY <1>2, <2>1 DEF AllKeepSettled, KeepsSettled
<1>5. CASE RecoverRun(r)
    <2>1. \A k \in DueInRun(r) : job[k].status \in SlotStatus
        BY DEF DueInRun, DueNow
    <2>2. \A k \in Jobs : job[k].status = "returned" \/ job'[k] = JobsAfter(DueInRun(r))[k]
        BY <1>5 DEF RecoverRun, Lost
    <2> QED
        BY <1>2, <2>1, <2>2, RecoveredFollow DEF AllKeepSettled, KeepsSettled
<1>6. CASE ActivateResumableJobs(r)
    <2>1. \A k \in Jobs : job[k].status # "finalized" => job'[k] = job[k]
        BY <1>6 DEF ActivateResumableJobs
    <2> QED
        BY <1>2, <2>1 DEF AllKeepSettled, KeepsSettled
<1> QED
    BY <1>2, <1>3, <1>4, <1>5, <1>6 DEF RunStep

\* The transactions on a registered job.
LEMMA LaterCallFollows ==
    ASSUME RepoTypeOK, NEW j \in Jobs, LaterCall(j)
    PROVE  AllKeepSettled /\ ResultsStay
<1>1. /\ job \in [Jobs -> JobRow] /\ job[j] \in JobRow
      /\ published \in [Jobs -> Results \cup {NoResult, Structural}]
    BY DEF RepoTypeOK
<1>2. CASE StoreRetryApproval(j) \/ StoreCache(j) \/ DeferResumableJob(j)
    <2>1. /\ \A k \in Jobs : k # j => job'[k] = job[k]
          /\ job[j].status \notin {"published", "absent"} /\ published' = published
        BY <1>1, <1>2 DEF StoreRetryApproval, StoreCache, MayStore, DeferResumableJob, MayDefer
    <2> QED
        BY <2>1, OneRowFollows DEF ResultsStay
<1>3. ASSUME NEW res, FinalizeJob(j, res)
      PROVE  AllKeepSettled /\ ResultsStay
    <2>1. /\ \A k \in Jobs : k # j => job'[k] = job[k]
          /\ job[j].status \notin {"published", "absent"} /\ published' = published
        BY <1>1, <1>3 DEF FinalizeJob, MayFinalize
    <2> QED
        BY <2>1, OneRowFollows DEF ResultsStay
<1>4. ASSUME NEW c, RecordContinuation(j, c)
      PROVE  AllKeepSettled /\ ResultsStay
    <2>1. /\ \A k \in Jobs : k # j => job'[k] = job[k]
          /\ job[j].status \notin {"published", "absent"} /\ published' = published
        BY <1>1, <1>4 DEF RecordContinuation, MayContinue
    <2> QED
        BY <2>1, OneRowFollows DEF ResultsStay
<1>5. ASSUME NEW result, PublishJob(j, result)
      PROVE  AllKeepSettled /\ ResultsStay
    <2>1. /\ \A k \in Jobs : k # j => job'[k] = job[k] /\ published'[k] = published[k]
          /\ job[j].status # "absent" /\ job'[j].status = "published"
          /\ published'[j] = published[j] \/ published[j] = NoResult
        BY <1>1, <1>5 DEF PublishJob, MayPublish, JobRow
    <2> QED
        BY <2>1, OneRowFollows DEF ResultsStay
<1>6. ASSUME NEW o, NEW result, NEW key, RecordValidated(j, o, result, key)
      PROVE  AllKeepSettled /\ ResultsStay
    <2>1. /\ \A k \in Jobs : k # j => job'[k] = job[k]
          /\ job[j].status \in {"published", "absent"} => job'[j] = job[j]
          /\ published' = published
        BY <1>1, <1>6 DEF RecordValidated
    <2> QED
        BY <2>1, OneRowFollows DEF ResultsStay
<1> QED
    BY <1>2, <1>3, <1>4, <1>5, <1>6 DEF LaterCall

\* The transactions of whoever holds the lease of a job: they ask for a status it can be
\* held in.
LEMMA HolderFollows ==
    ASSUME RepoTypeOK, NEW w \in Tokens, NEW j \in Jobs, NEW d, NEW kind,
           \/ ReleaseClaim(w, j) \/ ReserveAttempt(w, j, kind) \/ MarkTransmitting(w, j)
           \/ Completes(w, j, d)
    PROVE  AllKeepSettled /\ ResultsStay
<1>1. job \in [Jobs -> JobRow]
    BY DEF RepoTypeOK
<1>2. job[j].status \notin {"published", "absent"} /\ published' = published
    BY DEF ReleaseClaim, ReserveAttempt, CanReserve, MarkTransmitting, MayMark, Completes,
       CompleteAttempt, Completable, HoldsClaim
<1>3. \A k \in Jobs : k # j => job'[k] = job[k]
    BY <1>1 DEF ReleaseClaim, ReserveAttempt, MarkTransmitting, Completes, CompleteAttempt
<1> QED
    BY <1>2, <1>3, OneRowFollows DEF ResultsStay

\* A claim: recovered leases, and one job that waited for a worker.
LEMMA ClaimFollows ==
    ASSUME RepoTypeOK, NEW w \in Tokens, NEW r \in Runs,
           ClaimNothing(r, FALSE) \/ \E j \in Jobs : ClaimNextJob(w, r, FALSE, j)
    PROVE  AllKeepSettled /\ ResultsStay
<1> PICK rows : rows = JobsAfter(DueNow)
    OBVIOUS
<1>1. rows = JobsBeforeClaim(FALSE) /\ rows \in [Jobs -> JobRow]
    BY AfterTyped DEF JobsBeforeClaim
<1>2. \A k \in Jobs : KeepsSettled(job[k], rows[k])
    BY RecoveredFollow DEF DueNow
<1>3. ResultsStay
    BY DEF ClaimNothing, ClaimNextJob, ResultsStay
<1>4. CASE ClaimNothing(r, FALSE)
    BY <1>1, <1>2, <1>3, <1>4 DEF ClaimNothing, AllKeepSettled
<1>5. ASSUME NEW j \in Jobs, ClaimNextJob(w, r, FALSE, j)
      PROVE  AllKeepSettled
    <2>1. \A k \in Jobs : k # j => job'[k] = rows[k]
        BY <1>1, <1>5 DEF ClaimNextJob
    <2>2. rows[j].status \in {"returned", "validated", "pending"}
        BY <1>1, <1>5 DEF ClaimNextJob, First, Continuable, Startable
    <2>3. job[j].status \notin {"published", "absent"}
        BY <1>2, <2>2 DEF KeepsSettled
    <2> QED
        BY <1>2, <2>1, <2>3 DEF AllKeepSettled, KeepsSettled
<1> QED
    BY <1>3, <1>4, <1>5

\* A step that makes no transaction.
LEMMA NothingFollows ==
    ASSUME UNCHANGED repoVars
    PROVE  AllKeepSettled /\ ResultsStay
BY DEF repoVars, AllKeepSettled, KeepsSettled, ResultsStay

\* No worker registers a job.
LEMMA WorkerStepFollows ==
    ASSUME ServiceTypeOK, RepoTypeOK, CacheInv, NEW w \in Tokens, WorkerStep(w)
    PROVE  AllKeepSettled /\ ResultsStay
<1>0. WorkerRun[w] \in Runs /\ (worker[w].pc \notin Free => JobAt(w) \in Jobs)
    BY WorkflowAssumption DEF ServiceTypeOK, WorkersOK, Prepared, JobAt, JobsOf
<1>1. CASE Poll(w) \/ Held(w) \/ Lookup(w) \/ Prepare(w) \/ Marked(w) \/ Submit(w)
    <2>1. UNCHANGED repoVars
        BY <1>1 DEF Poll, Held, Lookup, Prepare, Marked, Submit, OnlyWorker, Refused, repoVars
    <2> QED
        BY <2>1, NothingFollows
<1>2. CASE Claim(w)
    BY <1>0, <1>2, ClaimFollows DEF Claim
<1>3. CASE Release(w) \/ Reserve(w) \/ Mark(w)
    <2>1. JobAt(w) \in Jobs
        BY <1>0, <1>3 DEF Release, Reserve, Mark, AtPoint, Free
    <2>2. \/ UNCHANGED repoVars
          \/ ReleaseClaim(w, JobAt(w)) \/ ReserveAttempt(w, JobAt(w), worker[w].kind)
          \/ MarkTransmitting(w, JobAt(w))
        BY <1>3 DEF Release, Reserve, Mark, OnlyWorker, Refused, repoVars
    <2> QED
        BY <2>1, <2>2, HolderFollows, NothingFollows
<1>4. CASE Complete(w)
    <2>1. JobAt(w) \in Jobs
        BY <1>0, <1>4 DEF Complete, AtPoint, Free
    <2>2. UNCHANGED repoVars \/ Completes(w, JobAt(w), DispositionOf(worker[w].reply))
        BY <1>4 DEF Complete, Completes, Refused, repoVars
    <2> QED
        BY <2>1, <2>2, HolderFollows, NothingFollows
<1>5. CASE \/ Refuse(w) \/ Record(w) \/ Continue(w)
           \/ Store(w) \/ FinishJob(w) \/ Publish(w)
    BY <1>5, JobCalls, LaterCallFollows, NothingFollows
<1> QED
    BY <1>1, <1>2, <1>3, <1>4, <1>5 DEF WorkerStep

\* Nor does a recovery ...
LEMMA RecoveryStepFollows ==
    ASSUME ServiceTypeOK, RepoTypeOK, CacheInv, NEW r \in Runs, RecoveryStep(r)
    PROVE  AllKeepSettled /\ ResultsStay
<1>1. CASE RecoverLeases(r)
    BY <1>1, RunStepFollows DEF RecoverLeases, RunStep
<1>2. CASE Loop(r)
    <2>1. ASSUME NEW j \in Jobs, First(Chores(r), j), DoChore(r, j)
          PROVE  AllKeepSettled /\ ResultsStay
        <3>0. recovery[r].chore[j] \in {"defer", "store", "finalize", "publish"}
            BY <2>1 DEF ServiceTypeOK, PoolsOK, First, Chores, Chore
        <3>1. \/ UNCHANGED repoVars \/ DeferResumableJob(j) \/ StoreCache(j)
              \/ FinalizeJob(j, "accepted") \/ PublishJob(j, PublishedForm(j))
            BY <2>1, <3>0 DEF DoChore
        <3>2. UNCHANGED repoVars \/ LaterCall(j)
            BY <3>1, PublishesForm DEF LaterCall, Resolution
        <3> QED
            BY <3>2, LaterCallFollows, NothingFollows
    <2>2. UNCHANGED repoVars \/ \E j \in Jobs : First(Chores(r), j) /\ DoChore(r, j)
        BY <1>2 DEF Loop
    <2> QED
        BY <2>1, <2>2, NothingFollows
<1>3. CASE ListJobs(r) \/ EndResume(r)
    BY <1>3, NothingFollows DEF ListJobs, EndResume
<1> QED
    BY <1>1, <1>2, <1>3 DEF RecoveryStep

\* ... nor the user, nor time, nor a crash.
LEMMA OutsideStepFollows ==
    ASSUME RepoTypeOK, Command \/ Fault
    PROVE  AllKeepSettled /\ ResultsStay
<1>1. ASSUME NEW r \in Runs, Start(r) \/ Cancel(r)
      PROVE  AllKeepSettled /\ ResultsStay
    BY <1>1, RunStepFollows DEF Start, Cancel, RunStep
<1>2. ASSUME NEW r \in Runs, Resume(r)
      PROVE  AllKeepSettled /\ ResultsStay
    BY <1>2, NothingFollows DEF Resume
<1>3. ASSUME NEW j \in Jobs, ApproveRetry(j)
      PROVE  AllKeepSettled /\ ResultsStay
    BY <1>3, LaterCallFollows DEF ApproveRetry, LaterCall
<1>4. ASSUME NEW j \in Jobs, Expire(j)
      PROVE  AllKeepSettled /\ ResultsStay
    <2>1. job \in [Jobs -> JobRow] /\ job[j] \in JobRow
        BY DEF RepoTypeOK
    <2>2. /\ \A k \in Jobs : k # j => job'[k] = job[k]
          /\ job'[j].status = job[j].status /\ published' = published
        BY <1>4, <2>1 DEF Expire, ExpireLease, JobRow
    <2> QED
        BY <2>2, OneRowFollows DEF ResultsStay
<1>5. CASE Crash
    BY <1>5, NothingFollows DEF Crash
<1> QED
    BY <1>1, <1>2, <1>3, <1>4, <1>5 DEF Command, Fault

\* Where rows and results only follow, whoever was registered has still seen published
\* what it asked for.
LEMMA FollowingKeepsOrder ==
    ASSUME PublishedTogether, OrderInv, AllKeepSettled, ResultsStay
    PROVE  PublishedTogether' /\ OrderInv'
<1>1. \A k \in Jobs : published[k] # NoResult => published'[k] = published[k]
    BY DEF ResultsStay
<1>2. \A k \in Jobs : job'[k].status # "absent" => job[k].status # "absent"
    BY DEF AllKeepSettled, KeepsSettled
<1>3. PublishedTogether'
    BY DEF PublishedTogether, AllKeepSettled, KeepsSettled, ResultsStay
<1>4. ASSUME NEW r \in Runs
      PROVE  /\ MappingsPublished(r) => MappingsPublished(r)'
             /\ HaveResults(SectionsOf(r)) => HaveResults(SectionsOf(r))'
    BY <1>1 DEF MappingsPublished, MappingsOf, HaveResults, SectionsOf, JobsOf
<1>5. OrderInv'
    BY <1>2, <1>4 DEF OrderInv, SectionsOf, RollupsOf, JobsOf
<1> QED
    BY <1>3, <1>5

\* The registration of a section or of a rollup, on what it asks for.
LEMMA RegisteringKeepsOrder ==
    ASSUME RepoTypeOK, PublishedTogether, OrderInv,
           NEW r \in Runs, NEW j \in JobsOf(r), RegisterJob(j),
           \/ j \in SectionsOf(r) /\ MappingsPublished(r)
           \/ j \in RollupsOf(r) /\ HaveResults(SectionsOf(r))
    PROVE  PublishedTogether' /\ OrderInv'
<1>1. j \in Jobs /\ RunOf[j] = r /\ job \in [Jobs -> JobRow]
    BY DEF JobsOf, RepoTypeOK
<1>2. /\ job[j].status = "absent" /\ published' = published
      /\ \A k \in Jobs : k # j => job'[k] = job[k]
    BY <1>1 DEF RegisterJob
<1>3. PublishedTogether'
    BY <1>2 DEF PublishedTogether
<1>4. ASSUME NEW q \in Runs
      PROVE  /\ MappingsPublished(q)' <=> MappingsPublished(q)
             /\ HaveResults(SectionsOf(q))' <=> HaveResults(SectionsOf(q))
    BY <1>2 DEF MappingsPublished, HaveResults, SectionsOf, MappingsOf, JobsOf
<1>5. ASSUME NEW q \in Runs, NEW s \in SectionsOf(q), job'[s].status # "absent"
      PROVE  MappingsPublished(q)'
    <2>1. s \in Jobs /\ RunOf[s] = q /\ DerivedKind[s] = "section_synthesis"
        BY <1>5 DEF SectionsOf, JobsOf
    <2>2. s = j => q = r /\ j \notin RollupsOf(r)
        BY <1>1, <2>1 DEF RollupsOf
    <2> QED
        BY <1>2, <1>4, <1>5, <2>1, <2>2 DEF OrderInv
<1>6. ASSUME NEW q \in Runs, NEW p \in RollupsOf(q), job'[p].status # "absent"
      PROVE  HaveResults(SectionsOf(q))'
    <2>1. p \in Jobs /\ RunOf[p] = q /\ DerivedKind[p] = "rollup_synthesis"
        BY <1>6 DEF RollupsOf, JobsOf
    <2>2. p = j => q = r /\ j \notin SectionsOf(r)
        BY <1>1, <2>1 DEF SectionsOf
    <2> QED
        BY <1>2, <1>4, <1>6, <2>1, <2>2 DEF OrderInv
<1>7. OrderInv'
    BY <1>5, <1>6 DEF OrderInv, SectionsOf, RollupsOf, JobsOf
<1> QED
    BY <1>3, <1>7

\* The execution registers a job only there.
LEMMA PoolStepOrders ==
    ASSUME RepoTypeOK, PublishedTogether, OrderInv, NEW r \in Runs, PoolStep(r)
    PROVE  PublishedTogether' /\ OrderInv'
<1>1. CASE UNCHANGED repoVars \/ RunStep(r)
    BY <1>1, RunStepFollows, NothingFollows, FollowingKeepsOrder
<1>2. CASE NextPhase(r) /\ ~UNCHANGED repoVars
    <2>1. PICK j \in Absent(RollupsOf(r)) : HaveResults(SectionsOf(r)) /\ RegisterJob(j)
        BY <1>2 DEF NextPhase
    <2>2. j \in RollupsOf(r) /\ j \in JobsOf(r)
        BY <2>1 DEF Absent, RollupsOf
    <2> QED
        BY <2>1, <2>2, RegisteringKeepsOrder
<1>3. CASE RegisterSections(r) /\ ~UNCHANGED repoVars
    <2>1. PICK j \in Absent(SectionsOf(r)) : MappingsPublished(r) /\ RegisterJob(j)
        BY <1>3 DEF RegisterSections
    <2>2. j \in SectionsOf(r) /\ j \in JobsOf(r)
        BY <2>1 DEF Absent, SectionsOf
    <2> QED
        BY <2>1, <2>2, RegisteringKeepsOrder
<1>4. CASE Validate(r) \/ Begin(r) \/ Drain(r)
    BY <1>1, <1>4 DEF Validate, Begin, Drain, OnlyPool, RunStep, repoVars
<1> QED
    BY <1>1, <1>2, <1>3, <1>4 DEF PoolStep

\* Relative to what holds of the workflow anyway, the order is an inductive invariant.
OrderedInv == WorkflowInv /\ PublishedTogether /\ OrderInv

\* Every step of the workflow keeps it.
LEMMA NextOrders == OrderedInv /\ [Next]_vars => OrderedInv'
<1> SUFFICES ASSUME OrderedInv, [Next]_vars PROVE OrderedInv'
    OBVIOUS
<1>0. /\ WorkflowInv /\ ServiceTypeOK /\ RepoTypeOK /\ CacheInv
      /\ PublishedTogether /\ OrderInv
    BY DEF OrderedInv, WorkflowInv, FateInv
<1>1. WorkflowInv'
    BY <1>0, NextWorkflow
<1>2. CASE UNCHANGED vars
    BY <1>0, <1>1, <1>2, NothingFollows, FollowingKeepsOrder DEF OrderedInv, vars, repoVars
<1>3. ASSUME NEW w \in Tokens, WorkerStep(w) PROVE OrderedInv'
    BY <1>0, <1>1, <1>3, WorkerStepFollows, FollowingKeepsOrder DEF OrderedInv
<1>4. ASSUME NEW r \in Runs, PoolStep(r) PROVE OrderedInv'
    BY <1>0, <1>1, <1>4, PoolStepOrders DEF OrderedInv
<1>5. ASSUME NEW r \in Runs, RecoveryStep(r) PROVE OrderedInv'
    BY <1>0, <1>1, <1>5, RecoveryStepFollows, FollowingKeepsOrder DEF OrderedInv
<1>6. CASE Command \/ Fault
    BY <1>0, <1>1, <1>6, OutsideStepFollows, FollowingKeepsOrder DEF OrderedInv
<1> QED
    BY <1>2, <1>3, <1>4, <1>5, <1>6 DEF Next

\* DerivedAfterMapping holds of every execution of the workflow, whatever is cached, fails,
\* crashes or is resumed: a section is registered only once every mapping job of its run is
\* published, a rollup only once every section has a provider's result, and they stay so.
THEOREM DerivedWait == Workflow => []DerivedAfterMapping
<1>1. WorkflowInit => OrderedInv
    <2> SUFFICES ASSUME WorkflowInit PROVE OrderedInv
        OBVIOUS
    <2>1. /\ \A k \in Jobs : published[k] = NoResult
          /\ \A k \in Jobs \cap Derived : job[k].status = "absent"
        BY DEF WorkflowInit, RepoInit, FreshJob
    <2>2. PublishedTogether /\ OrderInv
        BY <2>1 DEF PublishedTogether, OrderInv, SectionsOf, RollupsOf, JobsOf
    <2> QED
        BY <2>2, InitWorkflow DEF OrderedInv
<1>2. ASSUME OrderedInv, NEW r \in Runs
      PROVE  /\ Absent(SectionsOf(r)) # SectionsOf(r) =>
                    \A i \in MappingsOf(r) : job[i].status = "published"
             /\ Absent(RollupsOf(r)) # RollupsOf(r) =>
                    HaveResults(SectionsOf(r)) /\ Absent(SectionsOf(r)) = {}
    <2>1. PublishedTogether /\ OrderInv
        BY <1>2 DEF OrderedInv
    <2>2. MappingsPublished(r) => \A i \in MappingsOf(r) : job[i].status = "published"
        BY <2>1 DEF PublishedTogether, MappingsPublished, MappingsOf, JobsOf
    <2>3. HaveResults(SectionsOf(r)) => Absent(SectionsOf(r)) = {}
        BY <2>1 DEF PublishedTogether, HaveResults, Absent, SectionsOf, JobsOf
    <2> QED
        BY <2>1, <2>2, <2>3 DEF OrderInv, Absent
<1>3. OrderedInv => DerivedAfterMapping
    BY <1>2 DEF DerivedAfterMapping
<1> QED
    BY <1>1, <1>3, NextOrders, PTL DEF Workflow
=============================================================================
