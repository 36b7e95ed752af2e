-------------------------- MODULE WebProcess_proofs --------------------------
(***************************************************************************)
(* Proofs about WebProcess for every set of projects and request threads.  *)
(*                                                                         *)
(* That a task hears a cancellation rests on there being one admitted task *)
(* at a time: _start refuses while the last future is not done, and the    *)
(* future is done after the event was dropped, not before.  That calls are *)
(* bound rests on one thread doing all lifecycle work: from the check to   *)
(* the last call nothing else opens or refreshes a project.                *)
(***************************************************************************)
EXTENDS WebProcess, SequenceTheorems, WellFoundedInduction, TLAPS

Kinds == {"open", "refresh", "narrative", "vertical"}
Jobs == [id : Nat, kind : Kinds, project : Projects \cup {None},
         authority : Authorities \cup {None}]
Points == {"idle", "vertical", "open", "switch", "remember", "refresh", "clear", "narrative",
           "calls", "finish", "report", "release", "done"}
Runs == [run : Nat, authority : Authorities \cup {None}]
Requests == [at : {"free", "read", "hold", "launch", "save"}, run : Runs,
             key : Keys \cup {None}, settings : [Keys -> Values]]

(* What the argument needs of the types. *)
SharedTypeOK ==
    /\ requests \in Nat
    /\ project \in Projects \cup {None}
    /\ authority \in [Projects -> Authorities]
    /\ prepared \in Runs
    /\ DOMAIN file = {"settings", "recent"} /\ file.settings \in [Keys -> Values]
RequestsTypeOK == handler \in [Handlers -> Requests]
QueueTypeOK == queue \in Seq(Jobs)
ThreadTypeOK ==
    /\ DOMAIN thread = {"at", "job", "result"}
    /\ thread.at \in Points
    /\ thread.at # "idle" => thread.job \in Jobs
Types == SharedTypeOK /\ RequestsTypeOK /\ QueueTypeOK /\ ThreadTypeOK

Admitted(job) == job.kind # "vertical"
InQueue(i) == Admitted(queue[i])

(* An admitted task is alone, in the queue or in the thread, and the event is its own until it
   dropped it. *)
OneInQueue == \A i, j \in 1..Len(queue) : InQueue(i) /\ InQueue(j) => i = j
OneInThread ==
    /\ thread.at = "vertical" => ~Admitted(thread.job)
    /\ thread.at \notin {"idle", "vertical"} =>
          Admitted(thread.job) /\ \A i \in 1..Len(queue) : ~InQueue(i)
EventIsTasks ==
    /\ \A i \in 1..Len(queue) : InQueue(i) => event = queue[i].id
    /\ thread.at \notin {"idle", "done", "vertical"} => event = thread.job.id
OneTask == OneInQueue /\ OneInThread /\ EventIsTasks

(* From the check to the last call the project holds what was consented to. *)
StillBound == thread.at = "calls" => authority[project] = thread.job.authority

-----------------------------------------------------------------------------
(* Types. *)

LEMMA FreeIsRequest == Free \in Requests /\ NoRun \in Runs
  BY WebAssumption DEF Free, NoRun, Requests, Runs

LEMMA InitTypes == Init => Types
  <1> SUFFICES ASSUME Init PROVE Types
    OBVIOUS
  <1>1. SharedTypeOK
    BY FreeIsRequest, WebAssumption DEF Init, SharedTypeOK
  <1>2. RequestsTypeOK
    BY FreeIsRequest DEF Init, RequestsTypeOK
  <1>3. QueueTypeOK
    BY DEF Init, QueueTypeOK
  <1>4. ThreadTypeOK
    BY DEF Init, ThreadTypeOK, Resting, Points
  <1> QED BY <1>1, <1>2, <1>3, <1>4 DEF Types

\* What the thread does with the task it has.
Moves(points) ==
    DOMAIN thread' = {"at", "job", "result"} /\ thread'.at \in points /\ thread'.job = thread.job

LEMMA ThreadMoves ==
    ASSUME Types PROVE
      /\ \A at : Goto(at) => Moves({at})
      /\ \A result : Returns(result) => Moves({"report"})
  BY DEF Types, ThreadTypeOK, Goto, Returns, Moves

LEMMA Steps ==
    ASSUME Types PROVE
      /\ Open => thread.at = "open" /\ Moves({"report", "switch"})
      /\ Switch => thread.at = "switch" /\ Moves({"remember"})
      /\ Remember => thread.at = "remember" /\ Moves({"report"})
      /\ Refresh => thread.at = "refresh" /\ Moves({"report", "clear"})
      /\ Clear => thread.at = "clear" /\ Moves({"report"})
      /\ Execute => thread.at = "narrative" /\ Moves({"calls", "finish"})
      /\ Call => thread.at = "calls" /\ Moves({"calls", "finish"})
      /\ ExecuteEnds => thread.at = "finish" /\ Moves({"report"})
      /\ Report => thread.at = "report" /\ Moves({"release"})
      /\ Release => thread.at = "release" /\ Moves({"done"})
  <1>1. Open => thread.at = "open" /\ Moves({"report", "switch"})
    BY ThreadMoves DEF Open, At, Moves
  <1>2. Switch => thread.at = "switch" /\ Moves({"remember"})
    BY ThreadMoves DEF Switch, At
  <1>3. Remember => thread.at = "remember" /\ Moves({"report"})
    BY ThreadMoves DEF Remember, At
  <1>4. Refresh => thread.at = "refresh" /\ Moves({"report", "clear"})
    BY ThreadMoves DEF Refresh, At, Moves
  <1>5. Clear => thread.at = "clear" /\ Moves({"report"})
    BY ThreadMoves DEF Clear, At
  <1>6. Execute => thread.at = "narrative" /\ Moves({"calls", "finish"})
    BY ThreadMoves DEF Execute, At, Moves
  <1>7. Call => thread.at = "calls" /\ Moves({"calls", "finish"})
    BY ThreadMoves DEF Call, At, Moves, Types, ThreadTypeOK
  <1>8. ExecuteEnds => thread.at = "finish" /\ Moves({"report"})
    BY ThreadMoves DEF ExecuteEnds, At
  <1>9. Report => thread.at = "report" /\ Moves({"release"})
    BY ThreadMoves DEF Report, At
  <1>10. Release => thread.at = "release" /\ Moves({"done"})
    BY ThreadMoves DEF Release, At
  <1> QED BY <1>1, <1>2, <1>3, <1>4, <1>5, <1>6, <1>7, <1>8, <1>9, <1>10

LEMMA ExecutorTypes ==
    ASSUME Types, ExecutorStep PROVE Types'
  <1>1. SharedTypeOK'
    <2>1. CASE Take \/ Vertical \/ Open \/ Execute \/ Report \/ Release \/ Done
      BY <2>1 DEF Types, SharedTypeOK, Take, Vertical, Open, Execute, Report, Release, Done,
          Quiet, m13
    <2>2. CASE Clear \/ Call \/ ExecuteEnds
      BY <2>2, FreeIsRequest DEF Types, SharedTypeOK, Clear, Call, ExecuteEnds, Quiet, m13
    <2>3. CASE Switch
      <3>1. thread.job \in Jobs
        BY <2>3 DEF Types, ThreadTypeOK, Switch, At
      <3>2. project' \in Projects \cup {None}
        BY <2>3, <3>1 DEF Switch, Jobs
      <3> QED BY <2>3, <3>2, FreeIsRequest DEF Types, SharedTypeOK, Switch
    <2>4. CASE Remember
      <3>1. PICK recent : file' = [file EXCEPT !.recent = recent]
        BY <2>4 DEF Remember
      <3>2. DOMAIN file' = DOMAIN file /\ file'.settings = file.settings
        BY <3>1 DEF Types, SharedTypeOK
      <3> QED BY <2>4, <3>2 DEF Types, SharedTypeOK, Remember, m13
    <2>5. CASE Refresh
      BY <2>5 DEF Types, SharedTypeOK, Refresh, m13
    <2> QED BY <2>1, <2>2, <2>3, <2>4, <2>5 DEF ExecutorStep
  <1>2. RequestsTypeOK'
    BY DEF Types, RequestsTypeOK, ExecutorStep, Take, Vertical, Open, Switch, Remember,
        Refresh, Clear, Execute, Call, ExecuteEnds, Report, Release, Done
  <1>3. QueueTypeOK'
    <2>1. CASE Take
      BY <2>1, HeadTailProperties DEF Types, QueueTypeOK, Take
    <2>2. CASE ~Take
      BY <2>2 DEF Types, QueueTypeOK, ExecutorStep, Vertical, Open, Switch, Remember,
          Refresh, Clear, Execute, Call, ExecuteEnds, Report, Release, Done
    <2> QED BY <2>1, <2>2
  <1>4. ThreadTypeOK'
    <2>1. CASE Take
      <3>1. Head(queue) \in Jobs
        BY <2>1, HeadTailProperties DEF Types, QueueTypeOK, Take
      <3>2. PICK job : job = Head(queue)
        OBVIOUS
      <3>3. thread' = [Resting EXCEPT !.at = job.kind, !.job = job]
        BY <2>1, <3>2 DEF Take
      <3>4. thread' = [at |-> job.kind, job |-> job, result |-> "none"]
        BY <3>3 DEF Resting
      <3>5. job.kind \in Points /\ job \in Jobs
        BY <3>1, <3>2 DEF Jobs, Kinds, Points
      <3> QED BY <3>4, <3>5 DEF ThreadTypeOK
    <2>2. CASE Vertical \/ Done
      BY <2>2 DEF Vertical, Done, ThreadTypeOK, Resting, Points
    <2>3. CASE Open \/ Switch \/ Remember \/ Refresh \/ Clear
      BY <2>3, Steps DEF Types, ThreadTypeOK, Moves, Points
    <2>4. CASE Execute \/ Call \/ ExecuteEnds \/ Report \/ Release
      BY <2>4, Steps DEF Types, ThreadTypeOK, Moves, Points
    <2> QED BY <2>1, <2>2, <2>3, <2>4 DEF ExecutorStep
  <1> QED BY <1>1, <1>2, <1>3, <1>4 DEF Types

\* A task that is admitted is well formed.
LEMMA QueueGrows ==
    ASSUME Types, NEW job \in Jobs, queue' = Append(queue, job) PROVE QueueTypeOK'
  BY AppendProperties DEF Types, QueueTypeOK

LEMMA HandlerTypes ==
    ASSUME Types, NEW h \in Handlers, HandlerStep(h) PROVE Types'
  <1>0. handler[h] \in Requests /\ requests \in Nat /\ prepared \in Runs
    BY DEF Types, RequestsTypeOK, SharedTypeOK
  <1>1. CASE PrepareBegins(h) \/ PrepareReads(h) \/ PrepareEnds(h)
    <2>1. RequestsTypeOK'
      <3>1. CASE PrepareBegins(h)
        <4>1. requests' \in Nat
          BY <1>0, <3>1 DEF PrepareBegins, Request
        <4>2. PICK n \in Nat : n = requests'
          BY <4>1
        <4>3. PICK r : r = [handler[h] EXCEPT !.at = "read", !.run.run = n]
          OBVIOUS
        <4>4. r \in Requests
          BY <1>0, <4>3 DEF Requests, Runs
        <4>5. handler' = [handler EXCEPT ![h] = r]
          BY <3>1, <4>2, <4>3 DEF PrepareBegins, Types, RequestsTypeOK
        <4> QED BY <4>4, <4>5 DEF Types, RequestsTypeOK
      <3>2. CASE PrepareReads(h)
        <4>1. CASE handler' = [handler EXCEPT ![h].at = "hold", ![h].run.authority = authority[project]]
                   /\ project # None
          <5>1. PICK a : a = authority[project]
            OBVIOUS
          <5>2. a \in Authorities
            BY <4>1, <5>1 DEF Types, SharedTypeOK
          <5>3. PICK r : r = [handler[h] EXCEPT !.at = "hold", !.run.authority = a]
            OBVIOUS
          <5>4. r \in Requests
            BY <1>0, <5>2, <5>3 DEF Requests, Runs
          <5>5. handler' = [handler EXCEPT ![h] = r]
            BY <4>1, <5>1, <5>3 DEF Types, RequestsTypeOK
          <5> QED BY <5>4, <5>5 DEF Types, RequestsTypeOK
        <4>2. CASE Leaves(h)
          BY <4>2, FreeIsRequest DEF Types, RequestsTypeOK, Leaves
        <4> QED BY <3>2, <4>1, <4>2 DEF PrepareReads
      <3>3. CASE PrepareEnds(h)
        BY <3>3, FreeIsRequest DEF Types, RequestsTypeOK, PrepareEnds, Leaves
      <3> QED BY <1>1, <3>1, <3>2, <3>3
    <2>2. SharedTypeOK'
      BY <1>0, <1>1 DEF Types, SharedTypeOK, Requests, PrepareBegins, PrepareReads, PrepareEnds,
          Request, Quiet, m13
    <2>3. QueueTypeOK' /\ ThreadTypeOK'
      BY <1>1 DEF Types, QueueTypeOK, ThreadTypeOK, PrepareBegins, PrepareReads, PrepareEnds,
          executor
    <2> QED BY <2>1, <2>2, <2>3 DEF Types
  <1>2. CASE StartTakes(h)
    <2>1. RequestsTypeOK'
      BY <1>0, <1>2 DEF Types, RequestsTypeOK, Requests, StartTakes
    <2>2. SharedTypeOK'
      BY <1>0, <1>2, FreeIsRequest DEF Types, SharedTypeOK, StartTakes, Request, Quiet
    <2>3. QueueTypeOK' /\ ThreadTypeOK'
      BY <1>2 DEF Types, QueueTypeOK, ThreadTypeOK, StartTakes, executor
    <2> QED BY <2>1, <2>2, <2>3 DEF Types
  <1>3. CASE StartLaunches(h)
    <2>1. RequestsTypeOK'
      BY <1>3, FreeIsRequest DEF Types, RequestsTypeOK, StartLaunches, Leaves
    <2>2. SharedTypeOK'
      BY <1>0, <1>3 DEF Types, SharedTypeOK, StartLaunches, Requests, Quiet, m13
    <2>3. QueueTypeOK'
      <3>1. PICK job : job = [id |-> handler[h].run.run, kind |-> "narrative", project |-> None,
                              authority |-> handler[h].run.authority]
        OBVIOUS
      <3>2. job \in Jobs
        BY <1>0, <3>1 DEF Jobs, Kinds, Requests, Runs
      <3>3. queue' = Append(queue, job) \/ queue' = queue
        BY <1>3, <3>1 DEF StartLaunches, Admit, executor
      <3> QED BY <3>2, <3>3, QueueGrows DEF Types, QueueTypeOK
    <2>4. ThreadTypeOK'
      BY <1>3 DEF Types, ThreadTypeOK, StartLaunches, Admit, executor
    <2> QED BY <2>1, <2>2, <2>3, <2>4 DEF Types
  <1>4. CASE \E key \in Keys, value \in Values : SaveReads(h, key, value)
    <2> PICK key \in Keys, value \in Values : SaveReads(h, key, value)
      BY <1>4
    <2>1. RequestsTypeOK'
      <3>1. [file.settings EXCEPT ![key] = value] \in [Keys -> Values]
        BY DEF Types, SharedTypeOK
      <3> QED BY <1>0, <3>1 DEF Types, RequestsTypeOK, Requests, SaveReads
    <2>2. SharedTypeOK' /\ QueueTypeOK' /\ ThreadTypeOK'
      BY DEF Types, SharedTypeOK, QueueTypeOK, ThreadTypeOK, SaveReads, Request, Quiet, m13, executor
    <2> QED BY <2>1, <2>2 DEF Types
  <1>5. CASE SaveWrites(h)
    <2>1. RequestsTypeOK'
      BY <1>5, FreeIsRequest DEF Types, RequestsTypeOK, SaveWrites, Leaves
    <2>2. SharedTypeOK'
      BY <1>0, <1>5 DEF Types, SharedTypeOK, SaveWrites, WithSettings, Requests, m13
    <2>3. QueueTypeOK' /\ ThreadTypeOK'
      BY <1>5 DEF Types, QueueTypeOK, ThreadTypeOK, SaveWrites, executor
    <2> QED BY <2>1, <2>2, <2>3 DEF Types
  <1> QED BY <1>1, <1>2, <1>3, <1>4, <1>5 DEF HandlerStep

LEMMA RequestTypes ==
    ASSUME Types, \/ \E p \in Projects : RequestOpen(p)
                  \/ RequestRefresh \/ RequestVertical \/ Cancel \/ Crash
                  \/ UNCHANGED vars
    PROVE  Types'
  <1>0. requests \in Nat /\ project \in Projects \cup {None}
    BY DEF Types, SharedTypeOK
  <1>1. ASSUME NEW job, queue' = Append(queue, job), requests' \in Nat,
               job.id = requests', job.kind \in Kinds, job.project \in Projects \cup {None},
               job = Job(job.kind, job.project, None),
               UNCHANGED <<project, authority, prepared, file, handler, thread>>
        PROVE  Types'
    <2>1. job \in Jobs
      BY <1>1 DEF Job, Jobs
    <2>2. QueueTypeOK'
      BY <1>1, <2>1, QueueGrows
    <2> QED BY <1>1, <2>2 DEF Types, SharedTypeOK, RequestsTypeOK, ThreadTypeOK
  <1>2. ASSUME NEW p \in Projects, RequestOpen(p) PROVE Types'
    <2>1. PICK job : job = Job("open", p, None)
      OBVIOUS
    <2>2. job.id = requests' /\ job.kind = "open" /\ job.project = p
      BY <2>1 DEF Job
    <2>3. queue' = Append(queue, job) /\ requests' \in Nat
      BY <1>0, <1>2, <2>1 DEF RequestOpen, Admit, Request
    <2>4. UNCHANGED <<project, authority, prepared, file, handler, thread>>
      BY <1>2 DEF RequestOpen, Admit, Quiet, m13
    <2>5. job.kind \in Kinds /\ job.project \in Projects \cup {None}
          /\ job = Job(job.kind, job.project, None)
      BY <2>1, <2>2 DEF Kinds
    <2> QED BY <1>1, <2>2, <2>3, <2>4, <2>5
  <1>3. ASSUME RequestRefresh PROVE Types'
    <2>1. PICK job : job = Job("refresh", None, None)
      OBVIOUS
    <2>2. job.id = requests' /\ job.kind = "refresh" /\ job.project = None
      BY <2>1 DEF Job
    <2>3. queue' = Append(queue, job) /\ requests' \in Nat
      BY <1>0, <1>3, <2>1 DEF RequestRefresh, Admit, Request
    <2>4. UNCHANGED <<project, authority, prepared, file, handler, thread>>
      BY <1>3 DEF RequestRefresh, Admit, Quiet, m13
    <2>5. job.kind \in Kinds /\ job.project \in Projects \cup {None}
          /\ job = Job(job.kind, job.project, None)
      BY <2>1, <2>2 DEF Kinds
    <2> QED BY <1>1, <2>2, <2>3, <2>4, <2>5
  <1>4. ASSUME RequestVertical PROVE Types'
    <2>1. PICK job : job = Job("vertical", project, None)
      OBVIOUS
    <2>2. job.id = requests' /\ job.kind = "vertical" /\ job.project = project
      BY <2>1 DEF Job
    <2>3. queue' = Append(queue, job) /\ requests' \in Nat
      BY <1>0, <1>4, <2>1 DEF RequestVertical, Request
    <2>4. UNCHANGED <<project, authority, prepared, file, handler, thread>>
      BY <1>4 DEF RequestVertical, Quiet, m13
    <2>5. job.kind \in Kinds /\ job.project \in Projects \cup {None}
          /\ job = Job(job.kind, job.project, None)
      BY <1>0, <2>1, <2>2 DEF Kinds
    <2> QED BY <1>1, <2>2, <2>3, <2>4, <2>5
  <1>5. CASE Cancel
    BY <1>5 DEF Types, SharedTypeOK, RequestsTypeOK, QueueTypeOK, ThreadTypeOK, Cancel, Quiet,
        m13, executor
  <1>6. CASE Crash
    <2>1. SharedTypeOK'
      BY <1>6, FreeIsRequest DEF Types, SharedTypeOK, Crash
    <2>2. RequestsTypeOK'
      BY <1>6, FreeIsRequest DEF RequestsTypeOK, Crash
    <2>3. QueueTypeOK' /\ ThreadTypeOK'
      BY <1>6 DEF QueueTypeOK, ThreadTypeOK, Crash, Resting, Points
    <2> QED BY <2>1, <2>2, <2>3 DEF Types
  <1>7. CASE UNCHANGED vars
    BY <1>7 DEF Types, SharedTypeOK, RequestsTypeOK, QueueTypeOK, ThreadTypeOK, vars, m13, executor
  <1> QED BY <1>2, <1>3, <1>4, <1>5, <1>6, <1>7

LEMMA TypesKept == ASSUME Types, [Next]_vars PROVE Types'
  BY ExecutorTypes, HandlerTypes, RequestTypes DEF Next

-----------------------------------------------------------------------------
(* One task, and its event. *)

LEMMA NothingMoves ==
    ASSUME OneTask, UNCHANGED <<queue, thread, event>> PROVE OneTask'
  BY DEF OneTask, OneInQueue, OneInThread, EventIsTasks, InQueue

LEMMA AdmitKeeps ==
    ASSUME Types, OneTask, NEW job \in Jobs, Admitted(job), Admit(job) PROVE OneTask'
  <1>1. /\ queue \in Seq(Jobs) /\ Len(queue) \in Nat
        /\ Len(queue') = Len(queue) + 1
        /\ \A i \in 1..Len(queue) : queue'[i] = queue[i]
        /\ queue'[Len(queue) + 1] = job
    BY AppendProperties, LenProperties DEF Types, QueueTypeOK, Admit
  <1>2. \A i \in 1..Len(queue) : ~InQueue(i)
    BY DEF Admit, Busy, Submitted, InQueue, Admitted
  <1>3. thread.at \in {"idle", "vertical"} /\ thread' = thread
    BY DEF Admit, Busy, OneTask, OneInThread, Admitted
  <1>4. \A i \in 1..Len(queue') : InQueue(i)' => i = Len(queue) + 1
    BY <1>1, <1>2 DEF InQueue
  <1>5. OneInQueue'
    BY <1>4 DEF OneInQueue
  <1>6. OneInThread'
    BY <1>3 DEF OneTask, OneInThread
  <1>7. EventIsTasks'
    BY <1>1, <1>3, <1>4 DEF EventIsTasks, Admit
  <1> QED BY <1>5, <1>6, <1>7 DEF OneTask

LEMMA VerticalQueued ==
    ASSUME Types, OneTask, NEW job \in Jobs, ~Admitted(job), queue' = Append(queue, job),
           UNCHANGED <<thread, event>>
    PROVE  OneTask'
  <1>1. /\ queue \in Seq(Jobs) /\ Len(queue) \in Nat
        /\ Len(queue') = Len(queue) + 1
        /\ \A i \in 1..Len(queue) : queue'[i] = queue[i]
        /\ queue'[Len(queue) + 1] = job
    BY AppendProperties, LenProperties DEF Types, QueueTypeOK
  <1>2. \A i \in 1..Len(queue') : InQueue(i)' => i \in 1..Len(queue) /\ InQueue(i)
    BY <1>1 DEF InQueue
  <1>3. OneInQueue'
    BY <1>2 DEF OneTask, OneInQueue
  <1>4. OneInThread'
    BY <1>2 DEF OneTask, OneInThread
  <1>5. EventIsTasks'
    BY <1>1, <1>2 DEF OneTask, EventIsTasks
  <1> QED BY <1>3, <1>4, <1>5 DEF OneTask

LEMMA TakeKeeps ==
    ASSUME Types, OneTask, Take PROVE OneTask'
  <1>1. /\ Len(queue) \in Nat /\ Head(queue) \in Jobs /\ Head(queue) = queue[1]
        /\ 1 \in 1..Len(queue)
        /\ Len(queue') = Len(queue) - 1
        /\ \A i \in 1..Len(queue') : queue'[i] = queue[i + 1]
    BY HeadTailProperties, LenProperties DEF Types, QueueTypeOK, Take
  <1>2. PICK job : job = Head(queue)
    OBVIOUS
  <1>3. thread' = [Resting EXCEPT !.at = job.kind, !.job = job]
    BY <1>2 DEF Take
  <1>4. thread' = [at |-> job.kind, job |-> job, result |-> "none"]
    BY <1>3 DEF Resting
  <1>5. thread'.at = job.kind /\ thread'.job = job /\ job.kind \in Kinds /\ job = queue[1]
    BY <1>1, <1>2, <1>4 DEF Jobs
  <1>6. \A i \in 1..Len(queue') : i + 1 \in 1..Len(queue) /\ i + 1 # 1 /\ queue'[i] = queue[i + 1]
    BY <1>1
  <1>7. \A i \in 1..Len(queue') : InQueue(i)' => InQueue(i + 1)
    BY <1>6 DEF InQueue
  <1>8. OneInQueue'
    <2> SUFFICES ASSUME NEW i \in 1..Len(queue'), NEW j \in 1..Len(queue'),
                        InQueue(i)', InQueue(j)'
                 PROVE  i = j
      BY DEF OneInQueue
    <2>1. i + 1 = j + 1
      BY <1>6, <1>7 DEF OneTask, OneInQueue
    <2> QED BY <1>1, <2>1
  <1>9. OneInThread'
    <2>1. thread'.at = "vertical" => ~Admitted(thread'.job)
      BY <1>5 DEF Admitted
    <2>2. ASSUME thread'.at \notin {"idle", "vertical"}
          PROVE  Admitted(thread'.job) /\ \A i \in 1..Len(queue') : ~InQueue(i)'
      <3>1. Admitted(thread'.job) /\ InQueue(1)
        BY <1>5, <2>2 DEF Admitted, InQueue
      <3>2. ASSUME NEW i \in 1..Len(queue'), InQueue(i)' PROVE FALSE
        <4>1. i + 1 = 1
          BY <1>1, <1>6, <1>7, <3>1, <3>2 DEF OneTask, OneInQueue
        <4> QED BY <1>6, <4>1
      <3> QED BY <3>1, <3>2
    <2> QED BY <2>1, <2>2 DEF OneInThread
  <1>10. EventIsTasks'
    <2>1. event' = event
      BY DEF Take
    <2>2. thread'.at # "vertical" => InQueue(1)
      BY <1>5 DEF Admitted, InQueue
    <2>3. thread'.at \notin {"idle", "done", "vertical"} => event' = thread'.job.id
      BY <1>1, <1>5, <2>1, <2>2 DEF OneTask, EventIsTasks
    <2>4. \A i \in 1..Len(queue') : InQueue(i)' => event' = queue'[i].id
      BY <1>6, <1>7, <2>1 DEF OneTask, EventIsTasks
    <2> QED BY <2>3, <2>4 DEF EventIsTasks
  <1> QED BY <1>8, <1>9, <1>10 DEF OneTask

\* The thread goes on with an admitted task whose event is there.
LEMMA WorkGoesOn ==
    ASSUME OneTask, thread.at \notin {"idle", "done", "vertical"},
           thread'.at \notin {"idle", "vertical"}, thread'.job = thread.job,
           UNCHANGED <<queue, event>>
    PROVE  OneTask'
  <1>1. OneInQueue'
    BY DEF OneTask, OneInQueue, InQueue
  <1>2. OneInThread'
    BY DEF OneTask, OneInThread, InQueue
  <1>3. EventIsTasks'
    BY DEF OneTask, OneInThread, EventIsTasks, InQueue
  <1> QED BY <1>1, <1>2, <1>3 DEF OneTask

LEMMA ExecutorTask ==
    ASSUME Types, OneTask, ExecutorStep PROVE OneTask'
  <1>1. CASE Take
    BY <1>1, TakeKeeps
  <1>2. CASE Vertical \/ Done
    <2>1. thread'.at = "idle" /\ UNCHANGED <<queue, event>>
      BY <1>2 DEF Vertical, Done, Resting, slot
    <2>2. OneInQueue'
      BY <2>1 DEF OneTask, OneInQueue, InQueue
    <2>3. OneInThread' /\ EventIsTasks'
      BY <2>1 DEF OneTask, OneInThread, EventIsTasks, InQueue
    <2> QED BY <2>2, <2>3 DEF OneTask
  <1>3. CASE Open \/ Switch \/ Remember \/ Refresh \/ Clear
    <2>1. UNCHANGED <<queue, event>>
      BY <1>3 DEF Open, Switch, Remember, Refresh, Clear, slot
    <2> QED BY <1>3, <2>1, Steps, WorkGoesOn DEF Moves
  <1>4. CASE Execute \/ Call \/ ExecuteEnds \/ Report
    <2>1. UNCHANGED <<queue, event>>
      BY <1>4 DEF Execute, Call, ExecuteEnds, Report, slot
    <2> QED BY <1>4, <2>1, Steps, WorkGoesOn DEF Moves
  <1>5. CASE Release
    <2>1. thread.at = "release" /\ thread'.at = "done" /\ thread'.job = thread.job /\ queue' = queue
      BY <1>5, Steps DEF Moves, Release
    <2>2. \A i \in 1..Len(queue) : ~InQueue(i)
      BY <2>1 DEF OneTask, OneInThread
    <2>3. OneInQueue'
      BY <2>1 DEF OneTask, OneInQueue, InQueue
    <2>4. OneInThread'
      BY <2>1 DEF OneTask, OneInThread, InQueue
    <2>5. EventIsTasks'
      BY <2>1, <2>2 DEF EventIsTasks, InQueue
    <2> QED BY <2>3, <2>4, <2>5 DEF OneTask
  <1> QED BY <1>1, <1>2, <1>3, <1>4, <1>5 DEF ExecutorStep

LEMMA HandlerTask ==
    ASSUME Types, OneTask, NEW h \in Handlers, HandlerStep(h) PROVE OneTask'
  <1>1. CASE StartLaunches(h)
    <2>1. PICK job : job = [id |-> handler[h].run.run, kind |-> "narrative", project |-> None,
                            authority |-> handler[h].run.authority]
      OBVIOUS
    <2>2. job \in Jobs /\ Admitted(job)
      <3>1. handler[h].run \in Runs
        BY DEF Types, RequestsTypeOK, Requests
      <3> QED BY <2>1, <3>1 DEF Jobs, Kinds, Runs, Admitted
    <2>3. Admit(job) \/ UNCHANGED <<queue, thread, event>>
      BY <1>1, <2>1 DEF StartLaunches, slot, executor
    <2> QED BY <2>2, <2>3, AdmitKeeps, NothingMoves
  <1>2. CASE ~StartLaunches(h)
    <2>1. UNCHANGED <<queue, thread, event>>
      BY <1>2 DEF HandlerStep, PrepareBegins, PrepareReads, PrepareEnds, StartTakes, SaveReads,
          SaveWrites, slot, executor
    <2> QED BY <2>1, NothingMoves
  <1> QED BY <1>1, <1>2

LEMMA RequestTask ==
    ASSUME Types, OneTask, \/ \E p \in Projects : RequestOpen(p)
                           \/ RequestRefresh \/ RequestVertical \/ Cancel \/ Crash
                           \/ UNCHANGED vars
    PROVE  OneTask'
  <1>0. requests \in Nat /\ project \in Projects \cup {None}
    BY DEF Types, SharedTypeOK
  <1>1. ASSUME NEW p \in Projects, RequestOpen(p) PROVE OneTask'
    <2>1. PICK job : job = Job("open", p, None)
      OBVIOUS
    <2>2. requests' \in Nat /\ Admit(job)
      BY <1>0, <1>1, <2>1 DEF RequestOpen, Request
    <2>3. job \in Jobs /\ Admitted(job)
      BY <2>1, <2>2 DEF Job, Jobs, Kinds, Admitted
    <2> QED BY <2>2, <2>3, AdmitKeeps
  <1>2. CASE RequestRefresh
    <2>1. PICK job : job = Job("refresh", None, None)
      OBVIOUS
    <2>2. requests' \in Nat /\ Admit(job)
      BY <1>0, <1>2, <2>1 DEF RequestRefresh, Request
    <2>3. job \in Jobs /\ Admitted(job)
      BY <2>1, <2>2 DEF Job, Jobs, Kinds, Admitted
    <2> QED BY <2>2, <2>3, AdmitKeeps
  <1>3. CASE RequestVertical
    <2>1. PICK job : job = Job("vertical", project, None)
      OBVIOUS
    <2>2. requests' \in Nat /\ queue' = Append(queue, job) /\ UNCHANGED <<thread, event>>
      BY <1>0, <1>3, <2>1 DEF RequestVertical, Request, slot
    <2>3. job \in Jobs /\ ~Admitted(job)
      BY <1>0, <2>1, <2>2 DEF Job, Jobs, Kinds, Admitted
    <2> QED BY <2>2, <2>3, VerticalQueued
  <1>4. CASE Cancel \/ UNCHANGED vars
    BY <1>4, NothingMoves DEF Cancel, vars, slot, executor
  <1>5. CASE Crash
    <2>1. queue' = <<>> /\ thread'.at = "idle"
      BY <1>5 DEF Crash, Resting
    <2> QED BY <2>1 DEF OneTask, OneInQueue, OneInThread, EventIsTasks
  <1> QED BY <1>1, <1>2, <1>3, <1>4, <1>5

LEMMA TaskKept == ASSUME Types, OneTask, [Next]_vars PROVE OneTask'
  BY ExecutorTask, HandlerTask, RequestTask DEF Next

\* The event of a task that waits or works is the one that cancel sets (_start, _run, cancel),
\* however many tasks ended before it.
THEOREM TasksHearCancel == Spec => []TaskHearsCancel
  <1>1. Init => Types /\ OneTask
    BY InitTypes DEF Init, OneTask, OneInQueue, OneInThread, EventIsTasks, Resting
  <1>2. Types /\ OneTask /\ [Next]_vars => (Types /\ OneTask)'
    BY TypesKept, TaskKept
  <1>3. OneTask => TaskHearsCancel
    BY DEF OneTask, EventIsTasks, OneInThread, TaskHearsCancel, Waiting, Working, Submitted,
        InQueue, Admitted
  <1> QED BY <1>1, <1>2, <1>3, PTL DEF Spec

-----------------------------------------------------------------------------
(* Calls about what was consented to. *)

BoundInv == StillBound /\ CallsAreBound

LEMMA BoundStays ==
    ASSUME BoundInv, calls' = calls, thread'.at = "calls" => thread = thread',
           thread'.at = "calls" => UNCHANGED <<project, authority>>
    PROVE  BoundInv'
  BY DEF BoundInv, StillBound, CallsAreBound

LEMMA BoundKept == ASSUME Types, BoundInv, [Next]_vars PROVE BoundInv'
  <1>1. CASE Call
    <2>1. UNCHANGED <<project, authority>> /\ thread'.job = thread.job /\ thread.at = "calls"
      BY <1>1, Steps DEF Call, Moves
    <2>2. StillBound'
      BY <2>1 DEF BoundInv, StillBound
    <2>3. CallsAreBound'
      BY <1>1, <2>1 DEF BoundInv, StillBound, CallsAreBound, Call
    <2> QED BY <2>2, <2>3 DEF BoundInv
  <1>2. CASE Execute
    <2>1. UNCHANGED <<project, authority, calls>> /\ thread'.job = thread.job
      BY <1>2, Steps DEF Execute, Moves, Quiet
    <2>2. CASE Bound
      BY <2>1, <2>2 DEF BoundInv, StillBound, CallsAreBound, Bound
    <2>3. CASE ~Bound
      <3>1. thread'.at = "finish"
        BY <1>2, <2>3 DEF Execute, Goto, Types, ThreadTypeOK
      <3> QED BY <2>1, <3>1 DEF BoundInv, StillBound, CallsAreBound
    <2> QED BY <2>2, <2>3
  <1>3. CASE ExecutorStep /\ ~Call /\ ~Execute
    <2>1. calls' = calls
      BY <1>3 DEF ExecutorStep, Take, Vertical, Open, Switch, Remember, Refresh, Clear,
          ExecuteEnds, Report, Release, Done, Quiet
    <2>2. CASE Take
      <3>1. thread'.at # "calls"
        <4>1. Head(queue) \in Jobs
          BY <2>2, HeadTailProperties DEF Types, QueueTypeOK, Take
        <4>2. PICK job : job = Head(queue)
          OBVIOUS
        <4>3. thread' = [Resting EXCEPT !.at = job.kind, !.job = job]
          BY <2>2, <4>2 DEF Take
        <4>4. thread' = [at |-> job.kind, job |-> job, result |-> "none"]
          BY <4>3 DEF Resting
        <4> QED BY <4>1, <4>2, <4>4 DEF Jobs, Kinds
      <3> QED BY <2>1, <3>1, BoundStays
    <2>3. CASE Vertical \/ Done
      <3>1. thread'.at # "calls"
        BY <2>3 DEF Vertical, Done, Resting
      <3> QED BY <2>1, <3>1, BoundStays
    <2>4. CASE Open \/ Switch \/ Remember \/ Refresh \/ Clear \/ ExecuteEnds \/ Report \/ Release
      <3>1. thread'.at # "calls"
        BY <2>4, Steps DEF Moves
      <3> QED BY <2>1, <3>1, BoundStays
    <2> QED BY <1>3, <2>2, <2>3, <2>4 DEF ExecutorStep
  <1>4. ASSUME NEW h \in Handlers, HandlerStep(h) PROVE BoundInv'
    <2>1. UNCHANGED <<project, authority, thread, calls>>
      BY <1>4 DEF HandlerStep, PrepareBegins, PrepareReads, PrepareEnds, StartTakes,
          StartLaunches, Admit, SaveReads, SaveWrites, Quiet, executor
    <2> QED BY <2>1, BoundStays
  <1>5. CASE \E p \in Projects : RequestOpen(p)
    BY <1>5, BoundStays DEF RequestOpen, Admit, Quiet
  <1>6. CASE RequestRefresh \/ RequestVertical \/ Cancel \/ UNCHANGED vars
    BY <1>6, BoundStays DEF RequestRefresh, RequestVertical, Cancel, Admit, Quiet, vars, executor
  <1>7. CASE Crash
    <2>1. thread'.at # "calls" /\ calls' = calls
      BY <1>7 DEF Crash, Resting
    <2> QED BY <2>1, BoundStays
  <1> QED BY <1>1, <1>2, <1>3, <1>4, <1>5, <1>6, <1>7 DEF Next

\* Narrative calls are about the analysis the user was shown (_m13_prepare, _m13_start,
\* run_prepared_scene_jobs), whatever is opened or refreshed in between.
THEOREM NarrativeCallsAreBound == Spec => []CallsAreBound
  <1>1. Init => Types /\ BoundInv
    BY InitTypes DEF Init, BoundInv, StillBound, CallsAreBound, Resting
  <1>2. Types /\ BoundInv /\ [Next]_vars => (Types /\ BoundInv)'
    BY TypesKept, BoundKept
  <1>3. BoundInv => CallsAreBound
    BY DEF BoundInv
  <1> QED BY <1>1, <1>2, <1>3, PTL DEF Spec

-----------------------------------------------------------------------------
(* Induction.  That every set of natural numbers has a least element follows from the
   well-foundedness of their order, and gives induction in terms of sets. *)

LEMMA LeastNatural ==
    ASSUME NEW T \in SUBSET Nat, T # {}
    PROVE  \E n \in T : \A m \in T : n <= m
  <1> PICK R : R = {ss \in Nat \X Nat : ss[1] < ss[2]}
    OBVIOUS
  <1>1. IsWellFoundedOn(R, Nat)
    BY NatLessThanWellFounded DEF OpToRel
  <1>2. \A m, n \in Nat : m < n => <<m, n>> \in R
    OBVIOUS
  <1>3. PICK n \in T : \A m \in T : <<m, n>> \notin R
    BY <1>1, WFMin
  <1>4. \A m \in T : m \in Nat /\ n \in Nat /\ ~(m < n)
    BY <1>2, <1>3
  <1> QED BY <1>4

\* What holds of 0 and is handed on by each number below n holds up to n.
LEMMA Induction ==
    ASSUME NEW n \in Nat, NEW T, 0 \in T, \A i \in 1..n : i - 1 \in T => i \in T
    PROVE  \A i \in 0..n : i \in T
  <1> SUFFICES ASSUME NEW k \in 0..n, k \notin T PROVE FALSE
    OBVIOUS
  <1> PICK U : U = {i \in 0..n : i \notin T}
    OBVIOUS
  <1>1. U \in SUBSET Nat /\ U # {}
    OBVIOUS
  <1>2. PICK i \in U : \A m \in U : i <= m
    BY <1>1, LeastNatural
  <1>3. i \in 1..n /\ i - 1 \in 0..n /\ ~(i <= i - 1)
    BY <1>2
  <1>4. i - 1 \in T
    BY <1>2, <1>3
  <1> QED BY <1>2, <1>3, <1>4

\* A recursive function over 0..n: `base` at 0, and `step` from each value to the next.
Unfolds(f, n, base, step) == f[0] = base /\ \A i \in 1..n : f[i] = step[<<f[i - 1], i>>]

\* There is one.
LEMMA Recursion ==
    ASSUME NEW n \in Nat, NEW S, NEW base \in S, NEW step \in [S \X (1..n) -> S]
    PROVE  \E f \in [0..n -> S] : Unfolds(f, n, base, step)
  <1> PICK T : T = {m \in 0..n : \E f \in [0..m -> S] : Unfolds(f, m, base, step)}
    OBVIOUS
  <1>1. 0 \in T
    <2> PICK f : f = [i \in 0..0 |-> base]
      OBVIOUS
    <2>1. f \in [0..0 -> S] /\ f[0] = base /\ 0 \in 0..n /\ \A i \in 1..0 : FALSE
      OBVIOUS
    <2> QED BY <2>1 DEF Unfolds
  <1>2. ASSUME NEW i \in 1..n, i - 1 \in T PROVE i \in T
    <2>1. PICK f \in [0..(i - 1) -> S] : Unfolds(f, i - 1, base, step)
      BY <1>2
    <2>2. f[i - 1] \in S /\ <<f[i - 1], i>> \in S \X (1..n)
      OBVIOUS
    <2>3. PICK x \in S : x = step[<<f[i - 1], i>>]
      BY <2>2
    <2>4. PICK g : g = [j \in 0..i |-> IF j = i THEN x ELSE f[j]]
      OBVIOUS
    <2>5. g \in [0..i -> S] /\ g[0] = base /\ g[i] = x /\ g[i - 1] = f[i - 1]
      BY <2>1, <2>4 DEF Unfolds
    <2>6. ASSUME NEW j \in 1..i PROVE g[j] = step[<<g[j - 1], j>>]
      <3>1. CASE j = i
        BY <2>3, <2>5, <3>1
      <3>2. CASE j # i
        <4>1. j \in 1..(i - 1) /\ g[j] = f[j] /\ g[j - 1] = f[j - 1]
          BY <2>4, <3>2
        <4> QED BY <2>1, <4>1 DEF Unfolds
      <3> QED BY <3>1, <3>2
    <2>7. Unfolds(g, i, base, step)
      BY <2>5, <2>6 DEF Unfolds
    <2> QED BY <2>5, <2>7
  <1>3. \A i \in 1..n : i - 1 \in T => i \in T
    BY <1>2
  <1>4. \A i \in 0..n : i \in T
    BY <1>1, <1>3, Induction, Zenon
  <1>5. n \in T
    BY <1>4
  <1> QED BY <1>5

-----------------------------------------------------------------------------
(* The recent projects. *)

\* What the comprehension of record_project keeps of each prefix of the list.
Kept(list, p, f) ==
    f = [i \in 0..Len(list) |->
            IF i = 0 THEN <<>>
            ELSE IF list[i] = p THEN f[i - 1] ELSE Append(f[i - 1], list[i])]

LEMMA WithoutIsKept ==
    ASSUME NEW S, NEW list \in Seq(S), NEW p
    PROVE  \E f \in [0..Len(list) -> Seq(S)] : Kept(list, p, f) /\ Without(list, p) = f[Len(list)]
  <1> PICK n \in Nat : n = Len(list)
    OBVIOUS
  <1>0. PICK step : step = [q \in Seq(S) \X (1..n) |->
                            IF list[q[2]] = p THEN q[1] ELSE Append(q[1], list[q[2]])]
    OBVIOUS
  <1>1. step \in [Seq(S) \X (1..n) -> Seq(S)]
    <2>1. \A q \in Seq(S) \X (1..n) : Append(q[1], list[q[2]]) \in Seq(S) /\ q[1] \in Seq(S)
      OBVIOUS
    <2> QED BY <1>0, <2>1
  <1>2. PICK f \in [0..n -> Seq(S)] : Unfolds(f, n, <<>>, step)
    <2>1. <<>> \in Seq(S)
      OBVIOUS
    <2> QED BY <1>1, <2>1, Recursion
  <1>3. Kept(list, p, f)
    <2>1. \A i \in 1..n : f[i] = IF list[i] = p THEN f[i - 1] ELSE Append(f[i - 1], list[i])
      <3> TAKE i \in 1..n
      <3>0. i - 1 \in 0..n
        OBVIOUS
      <3>1. f[i - 1] \in Seq(S)
        BY <3>0, Zenon
      <3>2. PICK q : q = <<f[i - 1], i>>
        OBVIOUS
      <3>3. q \in Seq(S) \X (1..n) /\ q[1] = f[i - 1] /\ q[2] = i
        BY <3>1, <3>2
      <3>4. f[i] = step[q]
        BY <1>2, <3>2 DEF Unfolds
      <3> QED BY <1>0, <3>3, <3>4
    <2>2. f = [i \in 0..n |-> IF i = 0 THEN <<>>
                             ELSE IF list[i] = p THEN f[i - 1] ELSE Append(f[i - 1], list[i])]
      <3>1. f = [i \in 0..n |-> f[i]]
        OBVIOUS
      <3>2. \A i \in 0..n : f[i] = IF i = 0 THEN <<>>
                             ELSE IF list[i] = p THEN f[i - 1] ELSE Append(f[i - 1], list[i])
        <4>1. \A i \in 0..n : i = 0 \/ i \in 1..n
          OBVIOUS
        <4>2. \A i \in 1..n : i # 0
          OBVIOUS
        <4> QED BY <1>2, <2>1, <4>1, <4>2, Zenon DEF Unfolds
      <3> QED BY <3>1, <3>2, Zenon
    <2> QED BY <2>2 DEF Kept
  <1> DEFINE kept == CHOOSE g : Kept(list, p, g)
  <1>4. Without(list, p) = kept[Len(list)]
    BY DEF Without, Kept
  <1>5. Kept(list, p, kept)
    BY <1>3
  <1> HIDE DEF kept
  <1>6. kept \in [0..n -> Seq(S)]
    <2> PICK T : T = {i \in 0..n : kept[i] \in Seq(S)}
      OBVIOUS
    <2>1. 0 \in T
      BY <1>5 DEF Kept
    <2>2. ASSUME NEW i \in 1..n, i - 1 \in T PROVE i \in T
      <3>1. kept[i - 1] \in Seq(S) /\ list[i] \in S
        BY <2>2
      <3>2. kept[i] = IF list[i] = p THEN kept[i - 1] ELSE Append(kept[i - 1], list[i])
        <4>1. i \in 0..Len(list) /\ i # 0
          OBVIOUS
        <4> QED BY <1>5, <4>1, Zenon DEF Kept
      <3>3. kept[i] \in Seq(S)
        BY <3>1, <3>2
      <3> QED BY <3>3
    <2>3. \A i \in 0..n : i \in T
      BY <2>1, <2>2, Induction
    <2> QED BY <1>5, <2>3 DEF Kept
  <1> QED BY <1>4, <1>5, <1>6

\* A list without p loses nothing if p is not in it, ...
LEMMA WithoutAbsent ==
    ASSUME NEW S, NEW list \in Seq(S), NEW p, \A i \in 1..Len(list) : list[i] # p
    PROVE  /\ Without(list, p) \in Seq(S) /\ Len(Without(list, p)) = Len(list)
           /\ \A j \in 1..Len(list) : Without(list, p)[j] = list[j]
  <1> PICK n \in Nat : n = Len(list)
    OBVIOUS
  <1>1. PICK f \in [0..n -> Seq(S)] : Kept(list, p, f) /\ Without(list, p) = f[n]
    BY WithoutIsKept
  <1> PICK T : T = {i \in 0..n : Len(f[i]) = i /\ \A j \in 1..i : f[i][j] = list[j]}
    OBVIOUS
  <1>2. 0 \in T
    <2>1. f[0] = <<>>
      BY <1>1, 0 \in 0..Len(list), Zenon DEF Kept
    <2> QED BY <2>1
  <1>3. ASSUME NEW i \in 1..n, i - 1 \in T PROVE i \in T
    <2>1. i \in 0..Len(list) /\ i # 0 /\ i - 1 \in 0..n /\ list[i] # p
      OBVIOUS
    <2>2. f[i] = Append(f[i - 1], list[i])
      BY <1>1, <2>1, Zenon DEF Kept
    <2>3. f[i - 1] \in Seq(S) /\ list[i] \in S
      BY <1>1, <2>1
    <2>4. /\ Len(f[i]) = i /\ f[i][i] = list[i]
          /\ \A j \in 1..(i - 1) : f[i][j] = f[i - 1][j]
      BY <1>3, <2>2, <2>3
    <2> QED BY <1>3, <2>4
  <1>4. \A i \in 1..n : i - 1 \in T => i \in T
    BY <1>3
  <1>5. \A i \in 0..n : i \in T
    BY <1>2, <1>4, Induction, Zenon
  <1>6. n \in T
    BY <1>5
  <1> QED BY <1>1, <1>6

\* ... and otherwise closes the gap p leaves.
LEMMA WithoutPresent ==
    ASSUME NEW S, NEW list \in Seq(S), NEW p, NEW k \in 1..Len(list), list[k] = p,
           \A i \in 1..Len(list) : list[i] = p => i = k
    PROVE  /\ Without(list, p) \in Seq(S) /\ Len(Without(list, p)) = Len(list) - 1
           /\ \A j \in 1..(Len(list) - 1) :
                 Without(list, p)[j] = IF j < k THEN list[j] ELSE list[j + 1]
  <1> PICK n \in Nat : n = Len(list)
    OBVIOUS
  <1>1. PICK f \in [0..n -> Seq(S)] : Kept(list, p, f) /\ Without(list, p) = f[n]
    BY WithoutIsKept
  <1> PICK T : T = {i \in 0..n : /\ Len(f[i]) = IF i < k THEN i ELSE i - 1
                                 /\ \A j \in 1..Len(f[i]) :
                                       f[i][j] = IF j < k THEN list[j] ELSE list[j + 1]}
    OBVIOUS
  <1>2. 0 \in T
    <2>1. f[0] = <<>>
      BY <1>1, 0 \in 0..Len(list), Zenon DEF Kept
    <2> QED BY <2>1
  <1>3. ASSUME NEW i \in 1..n, i - 1 \in T PROVE i \in T
    <2>1. i \in 0..Len(list) /\ i # 0 /\ i - 1 \in 0..n /\ (list[i] = p <=> i = k)
      OBVIOUS
    <2>2. f[i] = IF i = k THEN f[i - 1] ELSE Append(f[i - 1], list[i])
      BY <1>1, <2>1, Zenon DEF Kept
    <2>3. f[i - 1] \in Seq(S) /\ list[i] \in S
      BY <2>1
    <2>4. CASE i = k
      BY <1>3, <2>2, <2>3, <2>4
    <2>5. CASE i # k
      <3>1. PICK m \in Nat : m = Len(f[i - 1])
        BY <2>3
      <3>2. /\ Len(f[i]) = m + 1 /\ f[i][m + 1] = list[i]
            /\ \A j \in 1..m : f[i][j] = f[i - 1][j]
        BY <2>2, <2>3, <2>5, <3>1
      <3>3. m = IF i < k THEN i - 1 ELSE i - 2
        BY <1>3, <2>5, <3>1
      <3> QED BY <1>3, <2>5, <3>1, <3>2, <3>3
    <2> QED BY <2>4, <2>5
  <1>4. \A i \in 1..n : i - 1 \in T => i \in T
    BY <1>3
  <1>5. \A i \in 0..n : i \in T
    BY <1>2, <1>4, Induction, Zenon
  <1>6. n \in T
    BY <1>5
  <1> QED BY <1>1, <1>6

Listable == Projects \cup {None}
ListsTypeOK == opened \in Seq(Listable) /\ file.recent \in Seq(Listable)
RecentInv == ListsTypeOK /\ RecentAreOpened

\* An opening is one more that came after those of all other projects.
LEMMA OneMoreSince ==
    ASSUME ListsTypeOK, NEW p \in Listable, opened' = Append(opened, p)
    PROVE  /\ OpenedSince(p)' = {}
           /\ \A q : q # p => OpenedSince(q)' = OpenedSince(q) \cup {p}
           /\ ToSet(opened)' = ToSet(opened) \cup {p}
  <1> PICK n \in Nat : n = Len(opened)
    BY DEF ListsTypeOK
  <1>1. /\ DOMAIN opened = 1..n /\ DOMAIN opened' = 1..(n + 1) /\ Len(opened') = n + 1
        /\ \A i \in 1..n : opened'[i] = opened[i]
        /\ opened'[n + 1] = p
    BY DEF ListsTypeOK
  <1>2. OpenedSince(p)' = {}
    BY <1>1 DEF OpenedSince
  <1>3. ASSUME NEW q, q # p PROVE OpenedSince(q)' = OpenedSince(q) \cup {p}
    <2>1. \A i \in 1..n : (\A j \in i..(n + 1) : opened'[j] # q) <=> (\A j \in i..n : opened[j] # q)
      BY <1>1, <1>3
    <2>2. \A j \in (n + 1)..(n + 1) : opened'[j] # q
      BY <1>1, <1>3
    <2> QED BY <1>1, <2>1, <2>2 DEF OpenedSince
  <1>4. ToSet(opened)' = ToSet(opened) \cup {p}
    BY <1>1 DEF ToSet
  <1> QED BY <1>2, <1>3, <1>4

\* A listed project is listed once, as it was not opened after its last opening.
LEMMA ListedOnce ==
    ASSUME RecentInv, NEW i \in 1..Len(file.recent), NEW j \in 1..Len(file.recent),
           file.recent[i] = file.recent[j]
    PROVE  i = j
  <1>1. \A a, b \in 1..Len(file.recent) : a < b => file.recent[a] # file.recent[b]
    <2> SUFFICES ASSUME NEW a \in 1..Len(file.recent), NEW b \in 1..Len(file.recent), a < b,
                        file.recent[a] = file.recent[b]
                 PROVE  FALSE
      OBVIOUS
    <2>1. a \in 1..(b - 1) /\ b \in DOMAIN file.recent
      BY DEF RecentInv, ListsTypeOK
    <2>2. file.recent[a] \in OpenedSince(file.recent[b])
      BY <2>1 DEF RecentInv, RecentAreOpened
    <2>3. \A q : q \notin OpenedSince(q)
      BY DEF OpenedSince, RecentInv, ListsTypeOK
    <2> QED BY <2>2, <2>3
  <1> QED BY <1>1 DEF RecentInv, ListsTypeOK

\* The entries of a list are distinct, and each comes after those that `since` names.
LatestFirst(r, since) ==
    /\ \A i, j \in 1..Len(r) : r[i] = r[j] => i = j
    /\ \A i \in 1..Len(r) : \A x : x \in since[r[i]] <=> \E j \in 1..(i - 1) : x = r[j]

\* The entries of w are those of r but for p, in the same order.
OthersFollow(w, r, p, since) ==
    /\ w \in Seq(Listable)
    /\ Len(w) = Len(r) \/ Len(w) = Len(r) - 1
    /\ \A x : x \in ToSet(w) <=> x \in ToSet(r) /\ x # p
    /\ \A j \in 1..Len(w) : \A x :
          x # p => (x \in since[w[j]] <=> \E i \in 1..(j - 1) : x = w[i])

\* So it is with what is left of such a list without p.
LEMMA OthersInOrder ==
    ASSUME NEW r \in Seq(Listable), NEW p, NEW w, w = Without(r, p), NEW since,
           LatestFirst(r, since)
    PROVE  OthersFollow(w, r, p, since)
  <1>0. PICK n \in Nat :
            /\ n = Len(r)
            /\ \A i, j \in 1..n : r[i] = r[j] => i = j
            /\ \A i \in 1..n : \A x : x \in since[r[i]] <=> \E j \in 1..(i - 1) : x = r[j]
    BY Len(r) \in Nat DEF LatestFirst
  <1>1. DOMAIN r = 1..n /\ r \in [1..n -> Listable]
    BY <1>0
  <1>2. CASE \A i \in 1..n : r[i] # p
    <2>1. w \in Seq(Listable) /\ Len(w) = n /\ \A j \in 1..n : w[j] = r[j]
      BY <1>0, <1>2, WithoutAbsent
    <2>2. w = r
      BY <1>0, <2>1
    <2>3. \A x : x \in ToSet(r) <=> \E i \in 1..n : x = r[i]
      BY <1>1 DEF ToSet
    <2>4. \A x : x \in ToSet(w) <=> x \in ToSet(r) /\ x # p
      BY <1>2, <2>2, <2>3
    <2>5. ASSUME NEW j \in 1..Len(w), NEW x
          PROVE  x \in since[w[j]] <=> \E i \in 1..(j - 1) : x = w[i]
      <3>1. j \in 1..n
        BY <1>0, <2>2
      <3>2. x \in since[r[j]] <=> \E i \in 1..(j - 1) : x = r[i]
        BY <1>0, <3>1, Zenon
      <3> QED BY <2>2, <3>2, Zenon
    <2>6. w \in Seq(Listable) /\ (Len(w) = Len(r) \/ Len(w) = Len(r) - 1)
      BY <2>2
    <2> QED BY <2>4, <2>5, <2>6 DEF OthersFollow
  <1>3. ASSUME NEW k \in 1..n, r[k] = p
        PROVE  OthersFollow(w, r, p, since)
    <2>1. \A i \in 1..n : r[i] = p => i = k
      BY <1>0, <1>3
    <2>2. /\ w \in Seq(Listable) /\ Len(w) = n - 1
          /\ \A j \in 1..(n - 1) : w[j] = IF j < k THEN r[j] ELSE r[j + 1]
      <3>1. k \in 1..Len(r) /\ \A i \in 1..Len(r) : r[i] = p => i = k
        BY <1>0, <1>3, <2>1
      <3>2. /\ Without(r, p) \in Seq(Listable) /\ Len(Without(r, p)) = Len(r) - 1
            /\ \A j \in 1..(Len(r) - 1) :
                  Without(r, p)[j] = IF j < k THEN r[j] ELSE r[j + 1]
        BY <1>3, <3>1, WithoutPresent
      <3> QED BY <1>0, <3>2
    <2>3. \A x : x \in ToSet(w) <=> x \in ToSet(r) /\ x # p
      <3>1. DOMAIN w = 1..(n - 1)
        BY <2>2
      <3>2. \A x : x \in ToSet(r) <=> \E i \in 1..n : x = r[i]
        BY <1>1 DEF ToSet
      <3>3. \A x : x \in ToSet(w) <=> \E i \in 1..(n - 1) : x = w[i]
        BY <3>1 DEF ToSet
      <3>4. \A i \in 1..(n - 1) : \E m \in 1..n : w[i] = r[m] /\ m # k
        BY <1>0, <2>2
      <3>5. \A m \in 1..n : m # k => \E i \in 1..(n - 1) : r[m] = w[i]
        <4> SUFFICES ASSUME NEW m \in 1..n, m # k PROVE \E i \in 1..(n - 1) : r[m] = w[i]
          OBVIOUS
        <4>1. CASE m < k
          BY <1>0, <2>2, <4>1
        <4>2. CASE m > k
          <5>1. m - 1 \in 1..(n - 1) /\ ~(m - 1 < k) /\ (m - 1) + 1 = m
            BY <4>2
          <5> QED BY <2>2, <5>1
        <4> QED BY <4>1, <4>2
      <3>6. \A m \in 1..n : m # k <=> r[m] # p
        BY <1>3, <2>1
      <3>7. ASSUME NEW i \in 1..(n - 1) PROVE w[i] \in ToSet(r) /\ w[i] # p
        BY <3>2, <3>4, <3>6
      <3>8. ASSUME NEW m \in 1..n, r[m] # p PROVE r[m] \in ToSet(w)
        BY <3>3, <3>5, <3>6, <3>8
      <3> QED BY <3>2, <3>3, <3>7, <3>8
    <2>4. ASSUME NEW j \in 1..(n - 1), NEW x, x # p
          PROVE  x \in since[w[j]] <=> \E i \in 1..(j - 1) : x = w[i]
      <3>1. CASE j < k
        <4>1. j \in 1..n /\ w[j] = r[j] /\ \A i \in 1..(j - 1) : w[i] = r[i]
          BY <1>0, <2>2, <3>1
        <4>2. x \in since[r[j]] <=> \E i \in 1..(j - 1) : x = r[i]
          BY <1>0, <4>1
        <4> QED BY <4>1, <4>2
      <3>2. CASE j >= k
        <4>1. j + 1 \in 1..n /\ w[j] = r[j + 1] /\ (j + 1) - 1 = j
          BY <1>0, <2>2, <3>2
        <4>2. x \in since[r[j + 1]] <=> \E m \in 1..((j + 1) - 1) : x = r[m]
          BY <1>0, <4>1
        <4>3. \A i \in 1..(j - 1) : \E m \in 1..j : w[i] = r[m]
          <5> TAKE i \in 1..(j - 1)
          <5>1. i \in 1..(n - 1) /\ i \in 1..j /\ i + 1 \in 1..j
            OBVIOUS
          <5>2. w[i] = r[i] \/ w[i] = r[i + 1]
            BY <2>2, <5>1
          <5> QED BY <5>1, <5>2
        <4>4. ASSUME NEW m \in 1..j, x = r[m] PROVE \E i \in 1..(j - 1) : x = w[i]
          <5>1. m # k
            BY <1>3, <2>4, <4>4
          <5>2. CASE m < k
            <6>1. m \in 1..(j - 1) /\ m \in 1..(n - 1)
              BY <3>2, <5>2
            <6> QED BY <2>2, <4>4, <5>2, <6>1
          <5>3. CASE m > k
            <6>1. m - 1 \in 1..(j - 1) /\ m - 1 \in 1..(n - 1) /\ ~(m - 1 < k) /\ (m - 1) + 1 = m
              BY <5>3
            <6>2. w[m - 1] = r[m]
              BY <2>2, <6>1
            <6> QED BY <4>4, <6>1, <6>2
          <5> QED BY <5>1, <5>2, <5>3
        <4> QED BY <4>1, <4>2, <4>3, <4>4
      <3> QED BY <3>1, <3>2
    <2> QED BY <1>0, <2>2, <2>3, <2>4 DEF OthersFollow
  <1> QED BY <1>2, <1>3

LEMMA RememberKeeps ==
    ASSUME Types, RecentInv, Remember PROVE RecentInv'
  <1> PICK p, r, w : p = thread.job.project /\ r = file.recent /\ w = Without(r, p)
    OBVIOUS
  <1>0. p \in Listable
    BY DEF Types, ThreadTypeOK, Remember, At, Jobs, Listable
  <1>1. file'.recent = MostRecent(p, r) /\ opened' = Append(opened, p)
    BY DEF Remember, Types, SharedTypeOK
  <1>2. /\ w \in Seq(Listable) /\ (Len(w) = Len(r) \/ Len(w) = Len(r) - 1)
        /\ ToSet(w) = ToSet(r) \ {p}
        /\ \A j \in 1..Len(w) :
              /\ w[j] # p /\ w[j] \in ToSet(opened)
              /\ OpenedSince(w[j]) \cup {p} = {w[i] : i \in 1..(j - 1)} \cup {p}
    <2>1. PICK since : since = [q \in Listable |-> OpenedSince(q)]
      OBVIOUS
    <2>2. /\ r \in Seq(Listable) /\ DOMAIN r = 1..Len(r)
          /\ \A i \in 1..Len(r) : r[i] \in Listable /\ r[i] \in ToSet(opened)
      BY DEF RecentInv, ListsTypeOK, RecentAreOpened
    <2>3. \A i \in 1..Len(r) : \A x : x \in OpenedSince(r[i]) <=> \E j \in 1..(i - 1) : x = r[j]
      <3> TAKE i \in 1..Len(r)
      <3>1. ASSUME NEW m \in DOMAIN file.recent, NEW x
            PROVE  x \in OpenedSince(file.recent[m]) <=> \E j \in 1..(m - 1) : x = file.recent[j]
        <4>1. OpenedSince(file.recent[m]) = {file.recent[j] : j \in 1..(m - 1)}
          BY DEF RecentInv, RecentAreOpened
        <4> QED BY <4>1
      <3>2. r = file.recent /\ i \in DOMAIN file.recent
        BY <2>2
      <3>3. ASSUME NEW x
            PROVE  x \in OpenedSince(file.recent[i]) <=> \E j \in 1..(i - 1) : x = file.recent[j]
        BY <3>1, <3>2
      <3> QED BY <3>2, <3>3
    <2>4. \A i \in 1..Len(r) : since[r[i]] = OpenedSince(r[i])
      BY <2>1, <2>2
    <2>5. \A i, j \in 1..Len(r) : r[i] = r[j] => i = j
      BY ListedOnce
    <2>6. /\ w \in Seq(Listable) /\ (Len(w) = Len(r) \/ Len(w) = Len(r) - 1)
          /\ \A x : x \in ToSet(w) <=> x \in ToSet(r) /\ x # p
          /\ \A j \in 1..Len(w) : \A x :
                x # p => (x \in since[w[j]] <=> \E i \in 1..(j - 1) : x = w[i])
      <3>1. \A i \in 1..Len(r) : \A x : x \in since[r[i]] <=> \E j \in 1..(i - 1) : x = r[j]
        <4> TAKE i \in 1..Len(r)
        <4>1. \A x : x \in OpenedSince(r[i]) <=> \E j \in 1..(i - 1) : x = r[j]
          BY <2>3
        <4>2. since[r[i]] = OpenedSince(r[i])
          BY <2>4
        <4> QED BY <4>1, <4>2
      <3>2. r \in Seq(Listable) /\ w = Without(r, p)
        BY <2>2
      <3>3. LatestFirst(r, since)
        BY <2>5, <3>1 DEF LatestFirst
      <3>4. OthersFollow(w, r, p, since)
        BY <3>2, <3>3, OthersInOrder
      <3> QED BY <3>4 DEF OthersFollow
    <2>7. \A j \in 1..Len(w) : w[j] \in ToSet(w)
      BY <2>6 DEF ToSet
    <2>8. \A j \in 1..Len(w) : w[j] \in ToSet(r) /\ w[j] # p
      BY <2>6, <2>7
    <2>9. \A x \in ToSet(r) : x \in ToSet(opened) /\ x \in Listable
      BY <2>2 DEF ToSet
    <2>10. \A j \in 1..Len(w) : since[w[j]] = OpenedSince(w[j])
      BY <2>1, <2>8, <2>9
    <2>11. ASSUME NEW j \in 1..Len(w)
           PROVE  OpenedSince(w[j]) \cup {p} = {w[i] : i \in 1..(j - 1)} \cup {p}
      <3>1. \A x : x # p => (x \in OpenedSince(w[j]) <=> \E i \in 1..(j - 1) : x = w[i])
        <4>1. \A x : x # p => (x \in since[w[j]] <=> \E i \in 1..(j - 1) : x = w[i])
          BY <2>6
        <4>2. since[w[j]] = OpenedSince(w[j])
          BY <2>10
        <4> QED BY <4>1, <4>2
      <3> QED BY <3>1
    <2> QED BY <2>6, <2>8, <2>9, <2>11
  <1>3. PICK all : all = <<p>> \o w
    OBVIOUS
  <1>4. /\ all \in Seq(Listable) /\ Len(all) = Len(w) + 1 /\ all[1] = p
        /\ \A j \in 1..Len(w) : all[j + 1] = w[j]
    BY <1>0, <1>2, <1>3
  <1>5. PICK s : s = AtMost(RecentLimit, all)
    OBVIOUS
  <1>6. file'.recent = s
    BY <1>1, <1>3, <1>5 DEF MostRecent
  <1>7. /\ s \in Seq(Listable) /\ Len(s) <= RecentLimit /\ Len(s) <= Len(all) /\ Len(s) \in Nat
        /\ Len(s) < Len(all) => Len(s) = RecentLimit
        /\ Len(s) >= 1
        /\ \A i \in 1..Len(s) : s[i] = all[i]
    BY <1>4, <1>5, WebAssumption DEF AtMost
  <1>8. /\ OpenedSince(p)' = {}
        /\ \A q : q # p => OpenedSince(q)' = OpenedSince(q) \cup {p}
        /\ ToSet(opened)' = ToSet(opened) \cup {p}
    BY <1>0, <1>1, OneMoreSince DEF RecentInv
  <1>9. DOMAIN s = 1..Len(s) /\ s[1] = p
    BY <1>4, <1>7
  <1>10. ListsTypeOK'
    <2>1. opened' \in Seq(Listable)
      BY <1>0, <1>1 DEF RecentInv, ListsTypeOK
    <2> QED BY <1>6, <1>7, <2>1 DEF ListsTypeOK
  <1>11. ASSUME NEW i \in 1..Len(s), i > 1
         PROVE  i - 1 \in 1..Len(w) /\ s[i] = w[i - 1]
    <2>1. i - 1 \in 1..Len(w)
      BY <1>2, <1>4, <1>7, <1>11
    <2>2. all[(i - 1) + 1] = w[i - 1] /\ (i - 1) + 1 = i
      BY <1>4, <2>1
    <2> QED BY <1>7, <2>1, <2>2
  <1>12. ASSUME NEW i \in 1..Len(s)
         PROVE  s[i] \in ToSet(opened)' /\ OpenedSince(s[i])' = {s[j] : j \in 1..(i - 1)}
    <2>1. CASE i = 1
      BY <1>8, <1>9, <2>1
    <2>2. CASE i > 1
      <3>1. i - 1 \in 1..Len(w) /\ s[i] = w[i - 1]
        BY <1>11, <2>2
      <3>2. OpenedSince(s[i])' = {w[j] : j \in 1..(i - 2)} \cup {p}
        <4>1. OpenedSince(w[i - 1])' = OpenedSince(w[i - 1]) \cup {p}
          BY <1>2, <1>8, <3>1
        <4>2. OpenedSince(w[i - 1]) \cup {p} = {w[j] : j \in 1..((i - 1) - 1)} \cup {p}
          BY <1>2, <3>1, Zenon
        <4>3. (i - 1) - 1 = i - 2
          OBVIOUS
        <4>4. (s[i] = w[i - 1]) => OpenedSince(s[i])' = OpenedSince(w[i - 1])'
          BY <1>6 DEF OpenedSince
        <4> QED BY <3>1, <4>1, <4>2, <4>3, <4>4
      <3>3. \A j \in 1..(i - 2) : j + 1 \in 1..(i - 1) /\ s[j + 1] = w[j]
        <4> TAKE j \in 1..(i - 2)
        <4>1. j + 1 \in 1..Len(s) /\ j + 1 > 1 /\ (j + 1) - 1 = j
          BY <1>7
        <4> QED BY <1>11, <4>1
      <3>4. \A j \in 1..(i - 1) : j = 1 \/ (j - 1 \in 1..(i - 2) /\ s[j] = w[j - 1])
        <4> TAKE j \in 1..(i - 1)
        <4>1. j = 1 \/ (j \in 1..Len(s) /\ j > 1 /\ j - 1 \in 1..(i - 2))
          BY <1>7
        <4> QED BY <1>11, <4>1
      <3>5. {s[j] : j \in 1..(i - 1)} = {w[j] : j \in 1..(i - 2)} \cup {p}
        BY <1>9, <2>2, <3>3, <3>4
      <3> QED BY <1>2, <1>8, <3>1, <3>2, <3>5
    <2> QED BY <2>1, <2>2
  <1>13. ToSet(s) \subseteq ToSet(r) \cup {p}
    <2>1. \A i \in 1..Len(s) : s[i] = p \/ s[i] \in ToSet(w)
      <3> TAKE i \in 1..Len(s)
      <3>1. i = 1 \/ i > 1
        OBVIOUS
      <3>2. DOMAIN w = 1..Len(w)
        BY <1>2
      <3> QED BY <1>9, <1>11, <3>1, <3>2 DEF ToSet
    <2>2. \A x \in ToSet(s) : \E i \in 1..Len(s) : x = s[i]
      BY <1>9 DEF ToSet
    <2> QED BY <1>2, <2>1, <2>2
  <1>14. ASSUME NEW q \in ToSet(opened)' \ ToSet(s)
         PROVE  Len(s) = RecentLimit /\ ToSet(s) \subseteq OpenedSince(q)'
    <2>1. q # p /\ q \in ToSet(opened)
      <3>1. p \in ToSet(s)
        BY <1>7, <1>9 DEF ToSet
      <3> QED BY <1>8, <3>1
    <2>2. OpenedSince(q)' = OpenedSince(q) \cup {p}
      BY <1>8, <2>1
    <2>3. CASE q \in ToSet(r)
      <3>1. PICK j \in 1..Len(w) : q = w[j]
        <4>1. q \in ToSet(w) /\ DOMAIN w = 1..Len(w)
          BY <1>2, <2>1, <2>3
        <4> QED BY <4>1 DEF ToSet
      <3>2. Len(s) < j + 1
        <4> SUFFICES ASSUME ~(Len(s) < j + 1) PROVE FALSE
          OBVIOUS
        <4>1. j + 1 \in 1..Len(s) /\ j + 1 > 1 /\ (j + 1) - 1 = j
          BY <1>7
        <4>2. s[j + 1] = q
          BY <1>11, <3>1, <4>1
        <4> QED BY <1>9, <4>1, <4>2 DEF ToSet
      <3>3. Len(s) = RecentLimit
        BY <1>2, <1>4, <1>7, <3>2
      <3>4. ASSUME NEW i \in 1..Len(s) PROVE s[i] \in OpenedSince(q)'
        <4>1. CASE i = 1
          BY <1>9, <2>2, <4>1
        <4>2. CASE i > 1
          <5>1. s[i] = w[i - 1] /\ i - 1 \in 1..(j - 1)
            BY <1>7, <1>11, <3>2, <4>2
          <5>2. OpenedSince(q) \cup {p} = {w[m] : m \in 1..(j - 1)} \cup {p}
            BY <1>2, <3>1
          <5> QED BY <2>2, <5>1, <5>2
        <4> QED BY <4>1, <4>2
      <3> QED BY <1>9, <3>3, <3>4 DEF ToSet
    <2>4. CASE q \notin ToSet(r)
      <3>1. Len(r) = RecentLimit /\ ToSet(r) \subseteq OpenedSince(q)
        BY <2>1, <2>4 DEF RecentInv, RecentAreOpened
      <3>2. Len(s) = RecentLimit
        BY <1>2, <1>4, <1>7, <3>1
      <3> QED BY <1>13, <2>2, <3>1, <3>2
    <2> QED BY <2>3, <2>4
  <1>15. RecentAreOpened'
    BY <1>6, <1>7, <1>9, <1>12, <1>14 DEF RecentAreOpened
  <1> QED BY <1>10, <1>15 DEF RecentInv

LEMMA RecentStays ==
    ASSUME RecentInv, opened' = opened, file'.recent = file.recent PROVE RecentInv'
  <1>1. ListsTypeOK'
    BY DEF RecentInv, ListsTypeOK
  <1>2. \A q : OpenedSince(q)' = OpenedSince(q)
    BY DEF OpenedSince
  <1>3. RecentAreOpened'
    <2> PICK r, listed, all : r = file.recent /\ listed = ToSet(r) /\ all = ToSet(opened)
      OBVIOUS
    <2>1. /\ Len(r) <= RecentLimit
          /\ \A i \in DOMAIN r : r[i] \in all
          /\ \A p \in all \ listed : Len(r) = RecentLimit /\ listed \subseteq OpenedSince(p)
      BY DEF RecentInv, RecentAreOpened
    <2>2. ASSUME NEW i \in DOMAIN r PROVE OpenedSince(r[i])' = {r[j] : j \in 1..(i - 1)}
      <3>1. OpenedSince(r[i]) = {r[j] : j \in 1..(i - 1)}
        BY DEF RecentInv, RecentAreOpened
      <3> QED BY <1>2, <3>1, Zenon
    <2>3. file'.recent = r /\ ToSet(opened)' = all /\ ToSet(file'.recent) = listed
      BY DEF ToSet
    <2>4. \A p \in all \ listed : Len(r) = RecentLimit /\ listed \subseteq OpenedSince(p)'
      BY <1>2, <2>1
    <2>5. \A i : {r[j] : j \in 1..(i - 1)} = {file'.recent[j] : j \in 1..(i - 1)}
      BY <2>3
    <2>6. ASSUME NEW i \in DOMAIN file'.recent
          PROVE  /\ file'.recent[i] \in ToSet(opened)'
                 /\ (OpenedSince(file.recent[i]) = {file.recent[j] : j \in 1..(i - 1)})'
      <3>1. OpenedSince(r[i])' = (OpenedSince(file.recent[i]))'
        BY <2>3 DEF OpenedSince
      <3> QED BY <2>1, <2>2, <2>3, <2>5, <3>1
    <2> QED BY <2>1, <2>3, <2>4, <2>6 DEF RecentAreOpened
  <1> QED BY <1>1, <1>3 DEF RecentInv

LEMMA RecentKept == ASSUME Types, RecentInv, [Next]_vars PROVE RecentInv'
  <1>1. CASE ExecutorStep /\ ~Remember
    <2>1. UNCHANGED <<file, opened>>
      BY <1>1 DEF ExecutorStep, Take, Vertical, Open, Switch, Refresh, Clear, Execute, Call,
          ExecuteEnds, Report, Release, Done, Quiet
    <2> QED BY <2>1, RecentStays
  <1>2. ASSUME NEW h \in Handlers, HandlerStep(h) PROVE RecentInv'
    <2>1. CASE SaveWrites(h)
      <3>1. file' = [file EXCEPT !.settings = handler[h].settings] /\ opened' = opened
        BY <2>1 DEF SaveWrites, WithSettings
      <3>2. file'.recent = file.recent
        BY <3>1 DEF Types, SharedTypeOK
      <3> QED BY <3>1, <3>2, RecentStays
    <2>2. CASE ~SaveWrites(h)
      <3>1. UNCHANGED <<file, opened>>
        BY <1>2, <2>2 DEF HandlerStep, PrepareBegins, PrepareReads, PrepareEnds, StartTakes,
            StartLaunches, SaveReads, Quiet
      <3> QED BY <3>1, RecentStays
    <2> QED BY <2>1, <2>2
  <1>3. CASE \/ \E p \in Projects : RequestOpen(p)
             \/ RequestRefresh \/ RequestVertical \/ Cancel \/ Crash \/ UNCHANGED vars
    <2>1. UNCHANGED <<file, opened>>
      BY <1>3 DEF RequestOpen, RequestRefresh, RequestVertical, Cancel, Crash, Quiet, vars
    <2> QED BY <2>1, RecentStays
  <1> QED BY <1>1, <1>2, <1>3, RememberKeeps DEF Next

\* The list of recent projects is exact (record_project, save_settings): the last projects opened,
\* as many as it may hold, each once and the latest first, however often projects are opened
\* again and whoever saves settings meanwhile.
THEOREM RecentStaysExact == Spec => []RecentAreOpened
  <1>1. Init => Types /\ RecentInv
    <2> SUFFICES ASSUME Init PROVE RecentInv
      BY InitTypes
    <2>1. file.recent = <<>> /\ opened = <<>>
      BY DEF Init
    <2> QED BY <2>1, WebAssumption DEF RecentInv, ListsTypeOK, RecentAreOpened, ToSet
  <1>2. Types /\ RecentInv /\ [Next]_vars => (Types /\ RecentInv)'
    BY TypesKept, RecentKept
  <1>3. RecentInv => RecentAreOpened
    BY DEF RecentInv
  <1> QED BY <1>1, <1>2, <1>3, PTL DEF Spec
=============================================================================
