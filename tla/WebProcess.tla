----------------------------- MODULE WebProcess -----------------------------
(***************************************************************************)
(* The web process: ProjectApi (web/api.py) and UserStateStore             *)
(* (web/state.py).  Every HTTP request has a thread of its own; lifecycle  *)
(* work (opening, refreshing, narrative runs, story map verticals) is done *)
(* by the one thread of an executor.  Of that work _start admits one piece *)
(* at a time, with one cancel event; verticals are submitted beside it.    *)
(*                                                                         *)
(* A step is what happens under one lock, or between two; requests that    *)
(* hold the lock once are one step.  What narrative runs, organization     *)
(* runs and verticals do is the subject of other modules: here a run only  *)
(* makes calls, and a vertical only occupies the executor.                 *)
(*                                                                         *)
(* Left out: route solving and organization runs, which _start admits in   *)
(* the same way; creation, which ends as opening does; read-only requests; *)
(* other processes on the project.                                         *)
(***************************************************************************)
EXTENDS Integers, Sequences, SequencesExt

CONSTANTS
    Projects,       \* project files
    Authorities,    \* what the stored analysis of a project may say
    Keys,           \* settings
    Values,         \* values of a setting
    Default,        \* DEFAULT_SETTINGS
    Handlers,       \* request threads
    RecentLimit,    \* how many recent projects are kept (12)
    MaxRequests     \* bound: requests that prepare, start, open, refresh or save

None == "none"

ASSUME WebAssumption ==
    /\ None \notin Projects \cup Authorities
    /\ Default \in [Keys -> Values]
    /\ RecentLimit \in Nat \ {0}
    /\ MaxRequests \in Nat

VARIABLES
    project,    \* _project_path
    authority,  \* the authority each project file holds
    prepared,   \* _m13_prepared
    active,     \* _m13_active_provider, named by its run
    event,      \* _cancel_event, named by its task
    raised,     \* tasks whose event was set
    task,       \* _task
    queue,      \* what was submitted to the executor
    thread,     \* the thread of the executor
    handler,    \* requests in progress
    file,       \* web-state.json
    requests,   \* bound: requests so far; a request names its task or run
    opened,     \* history: projects in the order of their opening
    calls       \* history: narrative calls

m13 == <<prepared, active>>
slot == <<event, raised, task>>
executor == <<queue, thread>>
vars == <<project, authority, m13, slot, executor, handler, file, requests, opened, calls>>

-----------------------------------------------------------------------------
NoRun == [run |-> 0, authority |-> None]
NoJob == [id |-> 0, kind |-> "none", project |-> None, authority |-> None]
Resting == [at |-> "idle", job |-> NoJob, result |-> "none"]
Free == [at |-> "free", run |-> NoRun, key |-> None, settings |-> Default]
NoTask == [id |-> 0, state |-> "none"]

Init ==
    /\ project = None
    /\ authority \in [Projects -> Authorities]
    /\ prepared = NoRun
    /\ active = 0
    /\ event = 0
    /\ raised = {}
    /\ task = NoTask
    /\ queue = <<>>
    /\ thread = Resting
    /\ handler = [h \in Handlers |-> Free]
    /\ file = [settings |-> Default, recent |-> <<>>]
    /\ requests = 0
    /\ opened = <<>>
    /\ calls = {}

-----------------------------------------------------------------------------
(* _start and _phase04_start_background. *)

Request == requests < MaxRequests /\ requests' = requests + 1
Submitted == {queue[i] : i \in 1..Len(queue)}
Job(kind, p, a) == [id |-> requests', kind |-> kind, project |-> p, authority |-> a]

\* Faulty: a task that reported its outcome is over.
BusyByState == task.state = "running"

\* The future of the last admitted task is not done.
Busy ==
    \/ \E job \in Submitted : job.kind # "vertical"
    \/ thread.at # "idle" /\ thread.job.kind # "vertical"

\* _start admits a task.
Admit(job) ==
    /\ ~Busy
    /\ event' = job.id
    /\ task' = [id |-> job.id, state |-> "running"]
    /\ queue' = Append(queue, job)
    /\ UNCHANGED <<raised, thread>>

Quiet == UNCHANGED <<project, authority, file, opened, calls>>

RequestOpen(p) ==
    /\ Request
    /\ Admit(Job("open", p, None))
    /\ Quiet /\ UNCHANGED <<m13, handler>>

RequestRefresh ==
    /\ Request
    /\ Admit(Job("refresh", None, None))
    /\ Quiet /\ UNCHANGED <<m13, handler>>

\* A vertical of a run that has none queued or running (one run here).
RequestVertical ==
    /\ Request
    /\ project # None
    /\ \A job \in Submitted \cup {thread.job} : job.kind # "vertical"
    /\ queue' = Append(queue, Job("vertical", project, None))
    /\ Quiet /\ UNCHANGED <<m13, slot, thread, handler>>

\* cancel
Cancel ==
    /\ event # 0 /\ event \notin raised
    /\ raised' = raised \cup {event}
    /\ Quiet /\ UNCHANGED <<m13, event, task, executor, handler, requests>>

-----------------------------------------------------------------------------
(* Narrative preparation and start. *)

Idle(h) == handler[h].at = "free"
Step(h, at) == handler[h].at = at
Leaves(h) == handler' = [handler EXCEPT ![h] = Free]

\* _m13_prepare looks for a running task only once ...
PrepareBegins(h) ==
    /\ Idle(h) /\ ~Busy
    /\ Request
    /\ handler' = [handler EXCEPT ![h].at = "read", ![h].run.run = requests']
    /\ Quiet /\ UNCHANGED <<m13, slot, executor>>

\* ... reads the open project ...
PrepareReads(h) ==
    /\ Step(h, "read")
    /\ IF project = None THEN Leaves(h)
       ELSE handler' = [handler EXCEPT ![h].at = "hold", ![h].run.authority = authority[project]]
    /\ Quiet /\ UNCHANGED <<m13, slot, executor, requests>>

\* ... and leaves what it prepared for a start.
PrepareEnds(h) ==
    /\ Step(h, "hold")
    /\ prepared' = handler[h].run
    /\ Leaves(h)
    /\ Quiet /\ UNCHANGED <<active, slot, executor, requests>>

\* _m13_start takes the preparation, grants consent in the open project ...
StartTakes(h) ==
    /\ Idle(h) /\ prepared # NoRun
    /\ Request
    /\ prepared' = NoRun
    /\ active' = prepared.run
    /\ handler' = [handler EXCEPT ![h].at = "launch", ![h].run = prepared]
    /\ Quiet /\ UNCHANGED <<slot, executor>>

\* ... and starts the task, or restores the preparation if it may not.
StartLaunches(h) ==
    LET run == handler[h].run IN
    /\ Step(h, "launch")
    /\ \/ /\ Admit([id |-> run.run, kind |-> "narrative", project |-> None,
                    authority |-> run.authority])
          /\ UNCHANGED m13
       \/ /\ prepared' = run
          /\ active' = 0
          /\ UNCHANGED <<slot, executor>>
    /\ Leaves(h)
    /\ Quiet /\ UNCHANGED requests

-----------------------------------------------------------------------------
(* _run, in the thread of the executor. *)

At(at) == thread.at = at
Goto(at) == thread' = [thread EXCEPT !.at = at]
Returns(result) == thread' = [thread EXCEPT !.at = "report", !.result = result]

Take ==
    /\ At("idle") /\ queue # <<>>
    /\ thread' = [Resting EXCEPT !.at = Head(queue).kind, !.job = Head(queue)]
    /\ queue' = Tail(queue)
    /\ task' = IF Head(queue).kind = "vertical" THEN task
               ELSE [id |-> Head(queue).id, state |-> "running"]
    /\ Quiet /\ UNCHANGED <<m13, event, raised, handler, requests>>

\* execute_product_vertical
Vertical ==
    /\ At("vertical")
    /\ thread' = Resting
    /\ Quiet /\ UNCHANGED <<m13, slot, queue, handler, requests>>

\* _open and _retain_project_path: the file is read, the process turns to it, ...
Open ==
    /\ At("open")
    /\ \/ Returns("failed")
       \/ thread.job.id \notin raised /\ Goto("switch")
    /\ Quiet /\ UNCHANGED <<m13, slot, queue, handler, requests>>

Switch ==
    /\ At("switch")
    /\ project' = thread.job.project
    /\ prepared' = NoRun /\ active' = 0
    /\ Goto("remember")
    /\ UNCHANGED <<authority, slot, queue, handler, file, requests, opened, calls>>

\* ... and record_project puts it first among the recent ones, of which it keeps so many.
Without(list, p) ==
    LET kept[i \in 0..Len(list)] ==
            IF i = 0 THEN <<>>
            ELSE IF list[i] = p THEN kept[i - 1] ELSE Append(kept[i - 1], list[i])
    IN  kept[Len(list)]

AtMost(n, list) == IF Len(list) <= n THEN list ELSE SubSeq(list, 1, n)

MostRecent(p, recent) == AtMost(RecentLimit, <<p>> \o Without(recent, p))

Remember ==
    /\ At("remember")
    /\ file' = [file EXCEPT !.recent = MostRecent(thread.job.project, @)]
    /\ opened' = Append(opened, thread.job.project)
    /\ Returns("completed")
    /\ UNCHANGED <<project, authority, m13, slot, queue, handler, requests, calls>>

\* _refresh writes a new analysis, perhaps not to its end, ...
Refresh ==
    /\ At("refresh")
    /\ IF project = None THEN Returns("failed") /\ UNCHANGED authority
       ELSE /\ \E a \in Authorities : authority' = [authority EXCEPT ![project] = a]
            /\ Returns("failed") \/ Goto("clear")
    /\ UNCHANGED <<project, m13, slot, queue, handler, file, requests, opened, calls>>

\* ... and forgets what was prepared.
Clear ==
    /\ At("clear")
    /\ prepared' = NoRun /\ active' = 0
    /\ Returns("completed")
    /\ Quiet /\ UNCHANGED <<slot, queue, handler, requests>>

\* Faulty: what the preparation saw is taken for granted.
BoundAtPreparation == TRUE
\* run_prepared_scene_jobs: the open project still holds the prepared authority.
Bound == authority[project] = thread.job.authority

\* _m13_execute opens the project that is open by now.
Execute ==
    /\ At("narrative")
    /\ IF Bound THEN Goto("calls") ELSE Goto("finish")
    /\ Quiet /\ UNCHANGED <<m13, slot, queue, handler, requests>>

Call ==
    /\ At("calls")
    /\ \/ /\ thread.job.id \notin raised
          /\ calls' = calls \cup {[run |-> thread.job.id, read |-> authority[project],
                                   consented |-> thread.job.authority]}
          /\ UNCHANGED thread
       \/ Goto("finish") /\ UNCHANGED calls
    /\ UNCHANGED <<project, authority, m13, slot, queue, handler, file, requests, opened>>

ExecuteEnds ==
    /\ At("finish")
    /\ active' = IF active = thread.job.id THEN 0 ELSE active
    /\ \E result \in {"completed", "failed"} : Returns(result)
    /\ Quiet /\ UNCHANGED <<prepared, slot, queue, handler, requests>>

\* The outcome is told, then the event is dropped, then the future is done.
Report ==
    /\ At("report")
    /\ task' = [id |-> thread.job.id,
                state |-> IF thread.job.id \in raised THEN "cancelled" ELSE thread.result]
    /\ Goto("release")
    /\ Quiet /\ UNCHANGED <<m13, event, raised, queue, handler, requests>>

Release ==
    /\ At("release")
    /\ event' = 0
    /\ Goto("done")
    /\ Quiet /\ UNCHANGED <<m13, raised, task, queue, handler, requests>>

Done ==
    /\ At("done")
    /\ thread' = Resting
    /\ Quiet /\ UNCHANGED <<m13, slot, queue, handler, requests>>

-----------------------------------------------------------------------------
(* UserStateStore.save_settings, and the end of the process. *)

\* The settings are read and changed ...
SaveReads(h, key, value) ==
    /\ Idle(h)
    /\ Request
    /\ handler' = [handler EXCEPT ![h].at = "save", ![h].key = key,
                                  ![h].settings = [file.settings EXCEPT ![key] = value]]
    /\ Quiet /\ UNCHANGED <<m13, slot, executor>>

\* Faulty: the file is replaced by what was read.
WriteBack(settings) == [settings |-> settings, recent |-> <<>>]
\* The file is read again for what else it holds.
WithSettings(settings) == [file EXCEPT !.settings = settings]

\* ... then written under a second lock.
SaveWrites(h) ==
    /\ Step(h, "save")
    /\ file' = WithSettings(handler[h].settings)
    /\ Leaves(h)
    /\ UNCHANGED <<project, authority, m13, slot, executor, requests, opened, calls>>

Crash ==
    /\ project' = None
    /\ prepared' = NoRun /\ active' = 0
    /\ event' = 0 /\ raised' = {} /\ task' = NoTask
    /\ queue' = <<>> /\ thread' = Resting
    /\ handler' = [h \in Handlers |-> Free]
    /\ UNCHANGED <<authority, file, requests, opened, calls>>

-----------------------------------------------------------------------------
ExecutorStep ==
    \/ Take \/ Vertical \/ Open \/ Switch \/ Remember \/ Refresh \/ Clear
    \/ Execute \/ Call \/ ExecuteEnds \/ Report \/ Release \/ Done

HandlerStep(h) ==
    \/ PrepareBegins(h) \/ PrepareReads(h) \/ PrepareEnds(h)
    \/ StartTakes(h) \/ StartLaunches(h)
    \/ \E key \in Keys, value \in Values : SaveReads(h, key, value)
    \/ SaveWrites(h)

Next ==
    \/ ExecutorStep
    \/ \E h \in Handlers : HandlerStep(h)
    \/ \E p \in Projects : RequestOpen(p)
    \/ RequestRefresh \/ RequestVertical
    \/ Cancel
    \/ Crash

Spec == Init /\ [][Next]_vars

-----------------------------------------------------------------------------
(* Properties. *)

\* Tasks that _start admitted and that did not yet drop their event.
Waiting == {job \in Submitted : job.kind # "vertical"}
Working == IF thread.at \in {"idle", "done", "vertical"} THEN {} ELSE {thread.job}

\* The user can always cancel what was started and has not ended: the event that cancel sets is
\* the one the task was given, although finished tasks drop it behind the back of new ones.
TaskHearsCancel == \A job \in Waiting \cup Working : event = job.id

\* A narrative run only makes calls about what the user was shown, although other projects are
\* opened and the project is refreshed between its preparation, its start and its execution.
CallsAreBound == \A call \in calls : call.read = call.consented

\* The projects opened after the last opening of p.
OpenedSince(p) ==
    {opened[i] : i \in {i \in DOMAIN opened : \A j \in i..Len(opened) : opened[j] # p}}

\* The recent projects are the last that were opened, each once, in the order of their last
\* opening; one is only missing if all that are listed were opened after it and the list is full:
\* saving settings at the same time loses none.
RecentAreOpened ==
    LET listed == ToSet(file.recent)
    IN  /\ Len(file.recent) <= RecentLimit
        /\ \A i \in DOMAIN file.recent :
              /\ file.recent[i] \in ToSet(opened)
              /\ OpenedSince(file.recent[i]) = {file.recent[j] : j \in 1..(i - 1)}
        /\ \A p \in ToSet(opened) \ listed :
              Len(file.recent) = RecentLimit /\ listed \subseteq OpenedSince(p)

\* A narrative run can be stopped through its provider, although a second start is refused while
\* it goes on (_m13_start).  Not so in the code.
ProviderIsKnown == At("calls") => active = thread.job.id

\* Saving a setting changes no other one (save_settings).  Not so in the code.
SettingsAreKept ==
    [][\A h \in Handlers : Step(h, "save") =>
          \A key \in Keys \ {handler[h].key} :
              handler' = [handler EXCEPT ![h] = Free] /\ file' # file
                  => file'.settings[key] = file.settings[key]]_vars
=============================================================================
