----------------------- MODULE GenerationPublication -----------------------
(***************************************************************************)
(* How a run becomes the story map that readers are shown: the workflow    *)
(* commands of web/api.py, execute_product_vertical and                    *)
(* _publish_generation (product_vertical.py), AtomicGenerationPublisher    *)
(* (phase04_publication.py) and the reader's requests (reader.py), above   *)
(* the transactions of GenerationStore.                                    *)
(*                                                                         *)
(* Each process has one executor thread and a queue before it.  A vertical *)
(* reads the pointers several times and writes between the reads: each     *)
(* read and each transaction is a step, so verticals of two processes, and *)
(* crashes, interleave between any two of them.  Running the jobs of a run *)
(* is the subject of StoryMapWorkflow; here it is one step with the        *)
(* outcomes that module allows.                                            *)
(***************************************************************************)
EXTENDS GenerationStore, Sequences

CONSTANTS
    Processes,      \* processes that have the project open
    Synthesis,      \* runs of a cloud policy: they register rollup jobs
    MaxCommands     \* bound: start and resume requests

ASSUME SynthesisAssumption == Synthesis \subseteq Runs
ASSUME CommandsAssumption == MaxCommands \in Nat

VARIABLES
    approved,       \* runs with a stored approval
    mapping,        \* the mapping jobs of each run: open, indeterminate or full
    rollup,         \* the rollup jobs of each run
    queue,          \* runs submitted to the executor of a process
    work,           \* the vertical the executor thread is in
    window,         \* the snapshot a reader window shows
    saves,          \* snapshots of the view saves that the server is in
    commands,       \* bound: requests so far
    history         \* ghost: each published generation and the one it replaced

memory == <<queue, work>>
reader == <<window, saves>>
jobVars == <<approved, mapping, rollup>>
vars == <<storeVars, jobVars, memory, reader, commands, history>>

-----------------------------------------------------------------------------
(* State. *)

Idle == [at |-> "idle", run |-> NoRun, mapping |-> "open", timeline |-> NoTimeline,
         rollups |-> {}, job |-> 0, base |-> NoGeneration, active |-> NoGeneration]
NoSnapshot == [gen |-> NoGeneration, revision |-> 0]
RollupStates == {"none", "open", "accepted", "structural"}

Init ==
    /\ StoreInit
    /\ approved = {}
    /\ mapping = [r \in Runs |-> "open"]
    /\ rollup = [r \in Runs |-> [k \in 1..Rollups |-> "none"]]
    /\ queue = [p \in Processes |-> <<>>]
    /\ work = [p \in Processes |-> Idle]
    /\ window = NoSnapshot
    /\ saves = {}
    /\ commands = 0
    /\ history = <<>>

At(p, step) == work[p].at = step
Goto(p, step) == work' = [work EXCEPT ![p].at = step]
\* The vertical returns or raises: the executor is free either way.
Ends(p) == work' = [work EXCEPT ![p] = Idle]
Run(p) == work[p].run

-----------------------------------------------------------------------------
(* Commands (_story_map_v2_workflow_dispatch). *)

Unfinished(r) == mapping[r] = "open" \/ \E k \in 1..Rollups : rollup[r][k] = "open"
PublishedBy(r) == pointers.complete # NoGeneration /\ pointers.complete.run = r
Busy(p, r) == Run(p) = r \/ \E i \in 1..Len(queue[p]) : queue[p][i] = r

\* _phase04_start_background: one unfinished future for each run of the process.
Submit(p, r) ==
    /\ commands < MaxCommands
    /\ commands' = commands + 1
    /\ queue' = IF Busy(p, r) THEN queue ELSE [queue EXCEPT ![p] = Append(@, r)]

\* start stores the approval, then submits: a crash between the two leaves what a crash
\* just after both leaves, since the queue is not stored.
Start(p, r) ==
    /\ r \notin approved \cup cancelled
    /\ approved' = approved \cup {r}
    /\ Submit(p, r)
    /\ UNCHANGED <<storeVars, mapping, rollup, work, reader, history>>

\* resume: refused to a run that is the current map; Begin looks again.
Resume(p, r) ==
    /\ r \in approved \ cancelled
    /\ ~PublishedBy(r)
    /\ Submit(p, r)
    /\ UNCHANGED <<storeVars, jobVars, work, reader, history>>

\* cancel: without effect on a run whose jobs have all finished.
Cancel(r) ==
    /\ r \notin cancelled
    /\ Unfinished(r)
    /\ CancelRun(r)
    /\ UNCHANGED <<jobVars, memory, reader, commands, history>>

\* approve_indeterminate_retry reopens a job; it reads no pointer.
ApproveRetry(r) ==
    /\ mapping[r] = "indeterminate"
    /\ r \notin cancelled
    /\ mapping' = [mapping EXCEPT ![r] = "open"]
    /\ UNCHANGED <<storeVars, approved, rollup, memory, reader, commands, history>>

-----------------------------------------------------------------------------
(* execute_product_vertical, up to the prose of the map. *)

Begin(p) ==
    /\ At(p, "idle")
    /\ queue[p] # <<>>
    /\ queue' = [queue EXCEPT ![p] = Tail(@)]
    /\ work' = IF PublishedBy(Head(queue[p])) THEN work
               ELSE [work EXCEPT ![p].at = "execute", ![p].run = Head(queue[p])]
    /\ UNCHANGED <<storeVars, jobVars, reader, commands, history>>

\* service.execute runs what is open; a job may also stay resumable.
Execute(p) ==
    LET r == Run(p) IN
    /\ At(p, "execute")
    /\ \E result \in {"open", "indeterminate", "full"} :
        /\ mapping' = [mapping EXCEPT ![r] = IF @ = "open" /\ r \notin cancelled THEN result ELSE @]
        /\ rollup' \in IF r \in cancelled THEN {rollup} ELSE
              {[rollup EXCEPT ![r] = f] : f \in {f \in [1..Rollups -> RollupStates] :
                  \A k \in 1..Rollups : \/ f[k] = rollup[r][k]
                                        \/ rollup[r][k] = "open" /\ f[k] \in {"accepted", "structural"}}}
    /\ IF r \in cancelled \/ mapping'[r] = "open" \/ \E k \in 1..Rollups : rollup'[r][k] = "open"
       THEN Ends(p)                                          \* _execution_blocked
       ELSE work' = [work EXCEPT ![p].mapping = mapping'[r],
                        ![p].at = IF mapping'[r] = "indeterminate" THEN "baseline"
                                  ELSE IF r \in Synthesis THEN "rollup" ELSE "editorial"]
    /\ UNCHANGED <<storeVars, approved, queue, reader, commands, history>>

\* _editorial_timeline: asked again by every vertical, and nothing stores the answer.
Editorial(p) ==
    /\ At(p, "editorial")
    /\ \/ Ends(p)
       \/ \E t \in Timelines :
             work' = [work EXCEPT ![p].timeline = t, ![p].at = "baseline"]
    /\ UNCHANGED <<storeVars, jobVars, queue, reader, commands, history>>

Unregistered(r) == {k \in 1..Rollups : rollup[r][k] = "none"}

\* The next rollup job without a descriptor; the prose of the others is not loaded.
ChooseRollup(p) ==
    /\ At(p, "rollup")
    /\ IF Unregistered(Run(p)) = {} THEN Goto(p, "baseline")
       ELSE \E k \in Unregistered(Run(p)) :
               /\ \A j \in Unregistered(Run(p)) : k <= j
               /\ work' = [work EXCEPT ![p].job = k, ![p].at = "register"]
    /\ UNCHANGED <<storeVars, jobVars, queue, reader, commands, history>>

RegisterRollup(p) ==
    /\ At(p, "register")
    /\ rollup' = [rollup EXCEPT ![Run(p)][work[p].job] = IF @ = "none" THEN "open" ELSE @]
    /\ Goto(p, "synthesis")
    /\ UNCHANGED <<storeVars, approved, mapping, queue, reader, commands, history>>

\* A job without a published result ends the loop; an unfinished one ends the vertical.
SynthesizeRollup(p) ==
    LET r == Run(p)
        k == work[p].job
    IN
    /\ At(p, "synthesis")
    /\ rollup' \in IF r \in cancelled \/ rollup[r][k] # "open" THEN {rollup} ELSE
          {[rollup EXCEPT ![r][k] = s] : s \in {"open", "accepted", "structural"}}
    /\ IF r \in cancelled \/ mapping[r] # "full" \/ \E j \in 1..Rollups : rollup'[r][j] = "open"
       THEN Ends(p)
       ELSE IF rollup'[r][k] = "accepted"
       THEN work' = [work EXCEPT ![p].rollups = @ \cup {k}, ![p].job = 0, ![p].at = "rollup"]
       ELSE work' = [work EXCEPT ![p].job = 0, ![p].at = "baseline"]
    /\ UNCHANGED <<storeVars, approved, mapping, queue, reader, commands, history>>

-----------------------------------------------------------------------------
(* _publish_generation. *)

\* The build's prose holds the timeline but no rollup.
BuildDescriptor(p) == [base |-> work[p].base, mapping |-> work[p].mapping,
                       timeline |-> work[p].timeline, rollups |-> {}]
CompleteDescriptor(p) == [BuildDescriptor(p) EXCEPT !.rollups = work[p].rollups]
BuildOf(p) == Build(Run(p))
CompleteOf(p) == Complete(Run(p), work[p].timeline)

ReadBaseline(p) ==
    /\ At(p, "baseline")
    /\ work' = [work EXCEPT ![p].base = pointers.complete, ![p].at = "build"]
    /\ UNCHANGED <<storeVars, jobVars, queue, reader, commands, history>>

\* One artifact is stored: its descriptor, then its records one by one.
Create(p, step, next, g, d) ==
    /\ At(p, step)
    /\ \/ /\ CreateGeneration(g, d)
          /\ Goto(p, next)
       \/ /\ Immutable(g, d)
          /\ Ends(p)
          /\ UNCHANGED storeVars
    /\ UNCHANGED <<jobVars, queue, reader, commands, history>>
StoreMaterial(p, step, next, g) ==
    /\ At(p, step)
    /\ IF pages[g] < Pages THEN StorePage(g) ELSE UNCHANGED storeVars
    /\ IF pages'[g] = Pages THEN Goto(p, next) ELSE UNCHANGED work
    /\ UNCHANGED <<jobVars, queue, reader, commands, history>>

\* Faulty: the build is activated before its reader material is stored.
CreateBuildEarly(p) == Create(p, "build", "active", BuildOf(p), BuildDescriptor(p))
CreateBuild(p) == Create(p, "build", "buildMaterial", BuildOf(p), BuildDescriptor(p))
StoreBuild(p) == StoreMaterial(p, "buildMaterial", "active", BuildOf(p))

ReadActive(p) ==
    /\ At(p, "active")
    /\ work' = [work EXCEPT ![p].active = pointers.active, ![p].at = "preflight"]
    /\ UNCHANGED <<storeVars, jobVars, queue, reader, commands, history>>

\* activate_progressive before its update: the run, the baseline, the lineage of what
\* was active.  A later cancellation is found by the update itself.
BaselineHolds(p) == work[p].base = pointers.complete
\* Faulty: whatever build is active is replaced.
PreflightAnyLineage(p) ==
    /\ At(p, "preflight")
    /\ IF Run(p) \notin cancelled /\ BaselineHolds(p) THEN Goto(p, "activate") ELSE Ends(p)
    /\ UNCHANGED <<storeVars, jobVars, queue, reader, commands, history>>
Preflight(p) ==
    /\ At(p, "preflight")
    /\ IF /\ Run(p) \notin cancelled
          /\ BaselineHolds(p)
          /\ work[p].active # NoGeneration => Lineage(work[p].active) = Lineage(BuildOf(p))
       THEN Goto(p, "activate") ELSE Ends(p)
    /\ UNCHANGED <<storeVars, jobVars, queue, reader, commands, history>>

Activate(p) ==
    /\ At(p, "activate")
    /\ \/ /\ SetActive(BuildOf(p), work[p].active, work[p].base)
          /\ work' = [work EXCEPT ![p].active = NoGeneration, ![p].at = "complete"]
       \/ /\ ActivationRefused(BuildOf(p), work[p].active, work[p].base)
          /\ Ends(p)
          /\ UNCHANGED storeVars
    /\ UNCHANGED <<jobVars, queue, reader, commands, history>>

CreateComplete(p) ==
    Create(p, "complete", "completeMaterial", CompleteOf(p), CompleteDescriptor(p))
StoreComplete(p) == StoreMaterial(p, "completeMaterial", "ready", CompleteOf(p))

\* publish_complete before its update; a generation that is already current is done.
Ready(p) ==
    /\ At(p, "ready")
    /\ IF /\ ~Current(CompleteOf(p))
          /\ Run(p) \notin cancelled
          /\ BaselineHolds(p)
          /\ pointers.active = BuildOf(p)
          /\ Lineage(BuildOf(p)) = Lineage(CompleteOf(p))
       THEN Goto(p, "publish") ELSE Ends(p)
    /\ UNCHANGED <<storeVars, jobVars, queue, reader, commands, history>>

PublishComplete(p) ==
    /\ At(p, "publish")
    /\ \/ /\ Publish(CompleteOf(p), BuildOf(p), work[p].base)
          /\ history' = Append(history, [map |-> CompleteOf(p), replaces |-> work[p].base])
       \/ /\ PublicationRefused(CompleteOf(p), BuildOf(p), work[p].base) \/ Current(CompleteOf(p))
          /\ UNCHANGED <<storeVars, history>>
    /\ Ends(p)
    /\ UNCHANGED <<jobVars, queue, reader, commands>>

-----------------------------------------------------------------------------
(* Readers, crashes and the specification. *)

\* manifest: the window learns the revision it quotes from then on.
Open ==
    /\ Readable # NoGeneration
    /\ window' = Snapshot
    /\ UNCHANGED <<storeVars, jobVars, memory, saves, commands, history>>

\* A save quotes the shown revision; the server takes its own snapshot, then writes.
RequestSave ==
    /\ window # NoSnapshot
    /\ window.revision = pointers.revision
    /\ saves' = saves \cup {Snapshot}
    /\ UNCHANGED <<storeVars, jobVars, memory, window, commands, history>>
Save(snapshot) ==
    /\ \/ SaveView(snapshot)
       \/ ViewRefused(snapshot) /\ UNCHANGED storeVars
    /\ saves' = saves \ {snapshot}
    /\ UNCHANGED <<jobVars, memory, window, commands, history>>

\* A process is killed between two transactions; its next incarnation has no memory.
Crash(p) ==
    /\ queue' = [queue EXCEPT ![p] = <<>>]
    /\ Ends(p)
    /\ UNCHANGED <<storeVars, jobVars, reader, commands, history>>

Vertical(p) ==
    \/ Begin(p) \/ Execute(p) \/ Editorial(p)
    \/ ChooseRollup(p) \/ RegisterRollup(p) \/ SynthesizeRollup(p)
    \/ ReadBaseline(p) \/ CreateBuild(p) \/ StoreBuild(p)
    \/ ReadActive(p) \/ Preflight(p) \/ Activate(p)
    \/ CreateComplete(p) \/ StoreComplete(p) \/ Ready(p) \/ PublishComplete(p)

Next ==
    \/ \E p \in Processes : Vertical(p) \/ Crash(p)
    \/ \E p \in Processes, r \in Runs : Start(p, r) \/ Resume(p, r)
    \/ \E r \in Runs : Cancel(r) \/ ApproveRetry(r)
    \/ Open
    \/ RequestSave
    \/ \E snapshot \in saves : Save(snapshot)

Spec == Init /\ [][Next]_vars

-----------------------------------------------------------------------------
(* Properties. *)

\* The types of the stored pointers and of the vertical, and the records they point at.
PublicationTypeOK ==
    /\ generations \in [Identities -> Descriptors \cup {NoDescriptor}]
    /\ pages \in [Identities -> 0..Pages]
    /\ pointers.complete \in Identities \cup {NoGeneration}
    /\ pointers.active \in {Build(r) : r \in Runs} \cup {NoGeneration}
    /\ pointers.revision = Len(history)
    /\ \A p \in Processes : At(p, "idle") <=> Run(p) = NoRun

\* Whatever crashed, what readers are given was stored to its last record before a
\* pointer was moved to it (_publish_generation's order of creation and activation).
ReadableIsStored ==
    Readable # NoGeneration => Stored(Readable) /\ pages[Readable] = Pages

\* A window that quotes the current revision shows the generation the server reads from:
\* a request is refused as stale whenever the two could differ (_require_revision).
WindowIsCurrent ==
    window # NoSnapshot /\ window.revision = pointers.revision => window.gen = Readable

\* A late save never replaces a view saved for a newer map (save_current_view_state).
ViewNeverRegresses == [][view'.revision >= view.revision]_vars

\* Publication gives the map one history, although nothing holds the pointers between
\* a vertical's reads and its updates.
History == INSTANCE MapHistory WITH
    Maps <- Identities, NoMap <- NoGeneration,
    revision <- pointers.revision, shown <- Readable, withdrawn <- cancelled
OneHistory == History!Spec

\* "Crash-safe and idempotently resumable": a run alone in the project, resumed after a
\* crash, is never refused by the records its own earlier vertical stored.
ResumeIsNotRefused ==
    \A p \in Processes :
        /\ At(p, "build") => ~Immutable(BuildOf(p), BuildDescriptor(p))
        /\ At(p, "complete") => ~Immutable(CompleteOf(p), CompleteDescriptor(p))
=============================================================================
