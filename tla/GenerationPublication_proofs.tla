-------------------- MODULE GenerationPublication_proofs --------------------
(***************************************************************************)
(* Proofs about GenerationPublication: the pointers, the stored records    *)
(* and what each vertical has read stay in step, so publication has one    *)
(* history (MapHistory), readers are given complete records, and a window  *)
(* or a saved view is never behind without being told.                     *)
(*                                                                         *)
(* Records are only ever added (Grows), so what a vertical stored or read  *)
(* of a stored record stays true while other processes move; the two       *)
(* pointer updates compare what it read of the pointers.                   *)
(***************************************************************************)
EXTENDS GenerationPublication, TLAPS

Builds == {Build(r) : r \in Runs}
MaybeMaps == Identities \cup {NoGeneration}
Early == {"execute", "editorial", "rollup", "register", "synthesis"}
\* Steps at which the build is stored, complete, and at which the map is.
BuildCreated == {"buildMaterial", "active", "preflight", "activate", "complete",
                 "completeMaterial", "ready", "publish"}
BuildFilled == BuildCreated \ {"buildMaterial"}
MapCreated == {"completeMaterial", "ready", "publish"}
MapFilled == {"ready", "publish"}
Steps == {"idle", "baseline", "build"} \cup Early \cup BuildCreated

RollupJobs == 1..Rollups
JobIds == 0..Rollups
Verticals == [at: Steps, run: Runs \cup {NoRun}, mapping: {"open", "indeterminate", "full"},
              timeline: Timelines \cup {NoTimeline}, rollups: SUBSET RollupJobs,
              job: JobIds, base: MaybeMaps, active: Builds \cup {NoGeneration}]
Entries == [map: Identities, replaces: MaybeMaps]

MapOf(w) == Complete(w.run, w.timeline)
\* What a vertical knows of the records it stored.
VerticalOK(w) ==
    /\ w \in Verticals
    /\ w.at = "idle" <=> w.run = NoRun
    /\ w.at \notin {"idle", "execute"} => w.mapping # "open"
    /\ w.at \in {"register", "synthesis"} => w.job # 0
    /\ w.at \in BuildCreated => Stored(Build(w.run)) /\ generations[Build(w.run)].base = w.base
    /\ w.at \in BuildFilled => pages[Build(w.run)] = Pages
    /\ w.at = "activate" => w.active = NoGeneration \/ w.active.run = w.run
    /\ w.at \in MapCreated => Stored(MapOf(w)) /\ generations[MapOf(w)].base = w.base
    /\ w.at \in MapFilled => pages[MapOf(w)] = Pages

TypeInv ==
    /\ generations \in [Identities -> Descriptors \cup {NoDescriptor}]
    /\ pages \in [Identities -> 0..Pages]
    /\ pointers \in [complete: MaybeMaps, active: Builds \cup {NoGeneration}, revision: Nat]
    /\ cancelled \subseteq Runs
    /\ mapping \in [Runs -> {"open", "indeterminate", "full"}]
    /\ rollup \in [Runs -> [1..Rollups -> RollupStates]]
    /\ queue \in [Processes -> Seq(Runs)]
    /\ history \in Seq(Entries)
    /\ pointers.revision = Len(history)
VerticalsInv == work \in [Processes -> Verticals] /\ \A p \in Processes : VerticalOK(work[p])

Previous(i) == IF i = 1 THEN NoGeneration ELSE history[i - 1].map
EntryOK(i) ==
    /\ history[i].replaces = Previous(i)
    /\ Stored(history[i].map) /\ pages[history[i].map] = Pages
    /\ Stored(Build(history[i].map.run))
    /\ generations[Build(history[i].map.run)].base = history[i].replaces
ChainInv ==
    /\ pointers.complete = Previous(Len(history) + 1)
    /\ \A i \in 1..Len(history) : EntryOK(i)
    /\ \A i, j \in 1..Len(history) : i # j => history[i].map.run # history[j].map.run
    /\ pointers.active # NoGeneration =>
          /\ Stored(pointers.active) /\ pages[pointers.active] = Pages
          /\ generations[pointers.active].base = pointers.complete
ReaderInv ==
    /\ window # NoSnapshot => window.gen # NoGeneration /\ window.revision \in 0..pointers.revision
    /\ WindowIsCurrent
    /\ view.revision \in 0..pointers.revision
    /\ \A s \in saves : s.revision \in Nat
IInv == TypeInv /\ VerticalsInv /\ ChainInv /\ ReaderInv

-----------------------------------------------------------------------------
(* Identities. *)

LEMMA Ids ==
    /\ \A r \in Runs : Build(r) \in Identities /\ Build(r).run = r
    /\ \A r \in Runs, t \in Timelines \cup {NoTimeline} :
          Complete(r, t) \in Identities /\ Complete(r, t).run = r
    /\ \A g \in Identities : g.run \in Runs /\ g # NoGeneration
    /\ \A g \in Builds : g.run \in Runs /\ g = Build(g.run) /\ g \in Identities
    /\ NoGeneration \notin Identities
  <1>1. \A r \in Runs : Build(r) \in Identities /\ Build(r).run = r
    BY DEF Identities, Build
  <1>2. \A r \in Runs, t \in Timelines \cup {NoTimeline} :
           Complete(r, t) \in Identities /\ Complete(r, t).run = r
    <2>1. \A r, t : Complete(r, t).run = r
      BY DEF Complete
    <2>2. ASSUME NEW r \in Runs, NEW t \in Timelines \cup {NoTimeline}
          PROVE  Complete(r, t) \in Identities
      <3>1. Complete(r, t) \in {Complete(q, u) : q \in Runs, u \in Timelines \cup {NoTimeline}}
        OBVIOUS
      <3> QED BY <3>1 DEF Identities
    <2> QED BY <2>1, <2>2
  <1>3. ASSUME NEW g \in Identities PROVE g.run \in Runs
    <2>1. CASE \E r \in Runs : g = Build(r)
      BY <2>1, <1>1
    <2>2. CASE \E r \in Runs, t \in Timelines \cup {NoTimeline} : g = Complete(r, t)
      BY <2>2, <1>2
    <2> QED BY <2>1, <2>2 DEF Identities
  <1>4. NoGeneration.run = NoRun
    BY DEF NoGeneration
  <1>5. NoGeneration \notin Identities
    BY <1>3, <1>4, GenerationAssumption
  <1>6. \A g \in Builds : g.run \in Runs /\ g = Build(g.run) /\ g \in Identities
    BY <1>1 DEF Builds
  <1> QED BY <1>1, <1>2, <1>3, <1>5, <1>6

LEMMA Jobs ==
    0 \in JobIds /\ RollupJobs \subseteq JobIds /\ JobIds \ {0} = RollupJobs /\ 0 \notin RollupJobs
  BY GenerationAssumption DEF JobIds, RollupJobs

LEMMA RealDescriptors ==
    \A d \in Descriptors : d # NoDescriptor
  BY DEF Descriptors, NoDescriptor

\* Records are added and never changed.
Grows ==
    /\ \A g \in Identities : Stored(g) => generations'[g] = generations[g] /\ Stored(g)'
    /\ \A g \in Identities : pages[g] = Pages => pages'[g] = Pages

LEMMA SameGrows == ASSUME UNCHANGED <<generations, pages>> PROVE Grows
  BY DEF Grows, Stored

LEMMA CreateGrows ==
    ASSUME TypeInv, NEW g \in Identities, NEW d \in Descriptors, CreateGeneration(g, d)
    PROVE  Grows /\ Stored(g)' /\ generations'[g] = d
             /\ generations' \in [Identities -> Descriptors \cup {NoDescriptor}]
  BY RealDescriptors DEF TypeInv, CreateGeneration, Grows, Stored, Immutable

LEMMA StoreGrows ==
    ASSUME TypeInv, NEW g \in Identities, pages[g] < Pages, StorePage(g)
    PROVE  Grows /\ pages' \in [Identities -> 0..Pages]
  BY GenerationAssumption DEF TypeInv, StorePage, Grows, Stored

LEMMA VerticalKept ==
    ASSUME Grows, NEW w, VerticalOK(w)
    PROVE  VerticalOK(w)'
  <1>1. w.run \in Runs \/ w.at = "idle"
    BY GenerationAssumption DEF VerticalOK, Verticals
  <1>2. CASE w.at = "idle"
    BY <1>2 DEF VerticalOK, BuildCreated, BuildFilled, MapCreated, MapFilled, Early
  <1>3. CASE w.run \in Runs
    <2>1. Build(w.run) \in Identities /\ MapOf(w) \in Identities
      BY <1>3, Ids DEF MapOf, VerticalOK, Verticals
    <2> QED BY <2>1 DEF VerticalOK, Grows
  <1> QED BY <1>1, <1>2, <1>3

LEMMA VerticalMoves ==
    ASSUME VerticalsInv, Grows, NEW p \in Processes, NEW w, VerticalOK(w)',
           work' = [work EXCEPT ![p] = w]
    PROVE  VerticalsInv'
  <1>1. work' \in [Processes -> Verticals]
    BY DEF VerticalsInv, VerticalOK
  <1>2. ASSUME NEW q \in Processes PROVE VerticalOK(work[q])'
    <2>1. CASE q = p
      BY <2>1 DEF VerticalsInv
    <2>2. CASE q # p
      <3>1. VerticalOK(work[q]) /\ work'[q] = work[q]
        BY <2>2 DEF VerticalsInv
      <3> QED BY <3>1, VerticalKept DEF VerticalOK, Stored
    <2> QED BY <2>1, <2>2
  <1> QED BY <1>1, <1>2 DEF VerticalsInv

LEMMA VerticalsStay ==
    ASSUME VerticalsInv, Grows, UNCHANGED work
    PROVE  VerticalsInv'
  <1>1. ASSUME NEW q \in Processes PROVE VerticalOK(work[q])'
    BY VerticalKept DEF VerticalsInv, VerticalOK, Stored
  <1> QED BY <1>1 DEF VerticalsInv

LEMMA IdleOK ==
    ASSUME TypeInv PROVE VerticalOK(Idle)'
  BY GenerationAssumption, Jobs
  DEF VerticalOK, Idle, Verticals, Steps, Early, BuildCreated, BuildFilled, MapCreated,
      MapFilled, MaybeMaps

\* Entries and pointers keep what they say of the records when records are added.
LEMMA ChainKept ==
    ASSUME TypeInv, ChainInv, Grows, UNCHANGED <<pointers, history>>
    PROVE  ChainInv'
  <1>1. ASSUME NEW i \in 1..Len(history) PROVE EntryOK(i)'
    <2>1. history[i] \in Entries
      BY DEF TypeInv
    <2>2. history[i].map \in Identities /\ Build(history[i].map.run) \in Identities
      BY <2>1, Ids DEF Entries
    <2>3. EntryOK(i)
      BY DEF ChainInv
    <2> QED BY <2>2, <2>3 DEF EntryOK, Grows, Previous, Stored
  <1>2. pointers.active # NoGeneration => pointers.active \in Identities
    BY Ids DEF TypeInv
  <1> QED BY <1>1, <1>2 DEF ChainInv, Grows, Previous

LEMMA ReaderKept ==
    ASSUME ReaderInv, UNCHANGED <<pointers, window, saves, view>>
    PROVE  ReaderInv'
  BY DEF ReaderInv, WindowIsCurrent, Readable

LEMMA Moved ==
    ASSUME IInv, NEW p \in Processes, NEW w, VerticalOK(w)', work' = [work EXCEPT ![p] = w],
           TypeInv', Grows, UNCHANGED <<pointers, history, window, saves, view>>
    PROVE  IInv'
  BY VerticalMoves, ChainKept, ReaderKept DEF IInv

LEMMA Stayed ==
    ASSUME IInv, TypeInv', Grows, UNCHANGED <<work, pointers, history, window, saves, view>>
    PROVE  IInv'
  BY VerticalsStay, ChainKept, ReaderKept DEF IInv

-----------------------------------------------------------------------------
(* Commands and the vertical up to its prose: no record and no pointer moves. *)

LEMMA SubmitsKeep ==
    ASSUME IInv, NEW r \in Runs, NEW p \in Processes, Start(p, r) \/ Resume(p, r)
    PROVE  IInv'
  <1>1. queue \in [Processes -> Seq(Runs)] /\ queue[p] \in Seq(Runs)
    BY DEF IInv, TypeInv
  <1>2. Append(queue[p], r) \in Seq(Runs)
    BY <1>1
  <1>3. queue' \in [Processes -> Seq(Runs)]
    BY <1>1, <1>2 DEF Start, Resume, Submit
  <1>4. TypeInv'
    BY <1>3 DEF IInv, TypeInv, Start, Resume, storeVars, jobVars
  <1> QED BY <1>4, SameGrows, Stayed DEF Start, Resume, storeVars, reader

LEMMA DecisionsKeep ==
    ASSUME IInv, NEW r \in Runs, Cancel(r) \/ ApproveRetry(r)
    PROVE  IInv'
  <1>1. CASE Cancel(r)
    <2>1. TypeInv'
      BY <1>1 DEF IInv, TypeInv, Cancel, CancelRun, jobVars, memory
    <2> QED BY <1>1, <2>1, SameGrows, Stayed DEF Cancel, CancelRun, reader, memory
  <1>2. CASE ApproveRetry(r)
    <2>1. TypeInv'
      BY <1>2 DEF IInv, TypeInv, ApproveRetry, storeVars, memory
    <2> QED BY <1>2, <2>1, SameGrows, Stayed DEF ApproveRetry, storeVars, reader, memory
  <1> QED BY <1>1, <1>2

LEMMA BeginKeeps ==
    ASSUME IInv, NEW p \in Processes, Begin(p) PROVE IInv'
  <1>1. work[p] \in Verticals /\ queue[p] \in Seq(Runs) /\ queue[p] # <<>>
    BY DEF IInv, VerticalsInv, TypeInv, Begin
  <1>2. Head(queue[p]) \in Runs /\ Tail(queue[p]) \in Seq(Runs)
    BY <1>1
  <1>3. TypeInv'
    BY <1>2 DEF IInv, TypeInv, Begin, storeVars, jobVars
  <1>4. Grows /\ UNCHANGED <<pointers, history, window, saves, view>>
    BY SameGrows DEF Begin, storeVars, reader
  <1>5. CASE work' = work
    BY <1>3, <1>4, <1>5, Stayed
  <1>6. CASE work' = [work EXCEPT ![p].at = "execute", ![p].run = Head(queue[p])]
    <2>1. PICK w : w = [work[p] EXCEPT !.at = "execute", !.run = Head(queue[p])]
      OBVIOUS
    <2>2. w \in Verticals /\ w.at = "execute" /\ w.run \in Runs
      BY <1>1, <1>2, <2>1 DEF Verticals, Steps, Early
    <2>3. VerticalOK(w)'
      BY <2>2, GenerationAssumption
      DEF VerticalOK, Early, BuildCreated, BuildFilled, MapCreated, MapFilled
    <2>4. work' = [work EXCEPT ![p] = w]
      BY <1>6, <2>1 DEF IInv, VerticalsInv
    <2> QED BY <1>3, <1>4, <2>3, <2>4, Moved
  <1> QED BY <1>5, <1>6 DEF Begin

\* Before the build is created a vertical claims nothing about the records.
LEMMA PlainOK ==
    ASSUME NEW w \in Verticals, w.run \in Runs, w.at \in Early \cup {"baseline", "build"},
           w.at # "execute" => w.mapping # "open",
           w.at \in {"register", "synthesis"} => w.job # 0
    PROVE  VerticalOK(w)'
  BY GenerationAssumption
  DEF VerticalOK, Early, BuildCreated, BuildFilled, MapCreated, MapFilled

LEMMA RunKnown ==
    ASSUME IInv, NEW p \in Processes, ~At(p, "idle")
    PROVE  /\ VerticalOK(work[p]) /\ work[p] \in Verticals /\ Run(p) \in Runs
           /\ work \in [Processes -> Verticals]
  BY GenerationAssumption DEF IInv, VerticalsInv, VerticalOK, Verticals, At, Run

LEMMA ExecuteKeeps ==
    ASSUME IInv, NEW p \in Processes, Execute(p) PROVE IInv'
  <1> DEFINE r == Run(p)
  <1>1. work[p] \in Verticals /\ r \in Runs /\ work \in [Processes -> Verticals]
    BY RunKnown DEF Execute, At
  <1>2. PICK result \in {"open", "indeterminate", "full"} :
           mapping' = [mapping EXCEPT ![r] = IF @ = "open" /\ r \notin cancelled THEN result ELSE @]
    BY DEF Execute
  <1>3. mapping' \in [Runs -> {"open", "indeterminate", "full"}]
    BY <1>1, <1>2 DEF IInv, TypeInv
  <1>4. rollup' \in [Runs -> [1..Rollups -> RollupStates]]
    <2>1. CASE rollup' = rollup
      BY <2>1 DEF IInv, TypeInv
    <2>2. CASE \E f \in [1..Rollups -> RollupStates] : rollup' = [rollup EXCEPT ![r] = f]
      BY <1>1, <2>2 DEF IInv, TypeInv
    <2> QED BY <2>1, <2>2 DEF Execute
  <1>5. TypeInv'
    BY <1>3, <1>4 DEF IInv, TypeInv, Execute, storeVars
  <1>6. Grows /\ UNCHANGED <<pointers, history, window, saves, view>>
    BY SameGrows DEF Execute, storeVars, reader
  <1>7. CASE Ends(p)
    BY <1>5, <1>6, <1>7, IdleOK, Moved DEF Ends, IInv
  <1>8. CASE ~Ends(p)
    <2>1. PICK w : w = [work[p] EXCEPT !.mapping = mapping'[r],
                            !.at = IF mapping'[r] = "indeterminate" THEN "baseline"
                                   ELSE IF r \in Synthesis THEN "rollup" ELSE "editorial"]
      OBVIOUS
    <2>2. mapping'[r] # "open" /\ work' = [work EXCEPT ![p] = w]
      BY <1>1, <1>8, <2>1 DEF Execute, Run
    <2>3. w \in Verticals /\ w.run \in Runs /\ w.mapping # "open"
            /\ w.at \in {"baseline", "rollup", "editorial"}
      BY <1>1, <1>3, <2>1, <2>2 DEF Verticals, Steps, Early, Run
    <2>4. VerticalOK(w)'
      BY <2>3, PlainOK DEF Early
    <2> QED BY <1>5, <1>6, <2>2, <2>4, Moved
  <1> QED BY <1>7, <1>8

LEMMA ProseKeeps ==
    ASSUME IInv, NEW p \in Processes,
           Editorial(p) \/ ChooseRollup(p) \/ RegisterRollup(p) \/ SynthesizeRollup(p)
    PROVE  IInv'
  <1>1. work[p] \in Verticals /\ Run(p) \in Runs /\ work \in [Processes -> Verticals]
          /\ VerticalOK(work[p])
    BY RunKnown DEF Editorial, ChooseRollup, RegisterRollup, SynthesizeRollup, At
  <1>2. Grows /\ UNCHANGED <<generations, pages, pointers, cancelled, mapping, queue, history,
                             window, saves, view>>
    BY SameGrows DEF Editorial, ChooseRollup, RegisterRollup, SynthesizeRollup, storeVars,
                     jobVars, reader
  <1>3. rollup' \in [Runs -> [1..Rollups -> RollupStates]]
    <2>1. CASE rollup' = rollup
      BY <2>1 DEF IInv, TypeInv
    <2>2. ASSUME NEW k, NEW state \in RollupStates,
                 rollup' = [rollup EXCEPT ![Run(p)][k] = state]
          PROVE  rollup' \in [Runs -> [1..Rollups -> RollupStates]]
      BY <1>1, <2>2 DEF IInv, TypeInv
    <2>3. CASE Editorial(p) \/ ChooseRollup(p)
      BY <2>1, <2>3 DEF Editorial, ChooseRollup, jobVars
    <2>4. CASE RegisterRollup(p)
      <3>1. work[p].job \in 1..Rollups
        BY <1>1, <2>4, Jobs DEF RegisterRollup, VerticalOK, Verticals, At, RollupJobs
      <3>2. rollup \in [Runs -> [1..Rollups -> RollupStates]]
        BY DEF IInv, TypeInv
      <3>3. rollup[Run(p)] \in [1..Rollups -> RollupStates]
        BY <1>1, <3>2
      <3>4. rollup[Run(p)][work[p].job] \in RollupStates
        BY <3>1, <3>3
      <3> QED BY <1>1, <2>2, <2>4, <3>4 DEF RegisterRollup, RollupStates
    <2>5. CASE SynthesizeRollup(p)
      BY <2>1, <2>2, <2>5 DEF SynthesizeRollup, RollupStates
    <2> QED BY <2>3, <2>4, <2>5
  <1>4. TypeInv'
    BY <1>2, <1>3 DEF IInv, TypeInv
  <1>5. CASE Ends(p)
    BY <1>2, <1>4, <1>5, IdleOK, Moved DEF Ends, IInv
  <1>6. ASSUME NEW w \in Verticals, w.run \in Runs, w.at \in Early \cup {"baseline", "build"},
               w.at # "execute" => w.mapping # "open",
               w.at \in {"register", "synthesis"} => w.job # 0,
               work' = [work EXCEPT ![p] = w]
        PROVE  IInv'
    BY <1>2, <1>4, <1>6, PlainOK, Moved
  <1>7. CASE Editorial(p) /\ ~Ends(p)
    <2>1. PICK t \in Timelines : work' = [work EXCEPT ![p].timeline = t, ![p].at = "baseline"]
      BY <1>7 DEF Editorial
    <2>2. PICK w : w = [work[p] EXCEPT !.timeline = t, !.at = "baseline"]
      OBVIOUS
    <2>3. w \in Verticals /\ w.at = "baseline" /\ w.run \in Runs /\ w.mapping # "open"
      BY <1>1, <1>7, <2>2 DEF Verticals, Steps, VerticalOK, Run, Editorial, At
    <2> QED BY <1>1, <1>6, <2>1, <2>2, <2>3 DEF Early
  <1>8. CASE ChooseRollup(p)
    <2>1. CASE Goto(p, "baseline")
      <3>1. PICK w : w = [work[p] EXCEPT !.at = "baseline"]
        OBVIOUS
      <3>2. w \in Verticals /\ w.at = "baseline" /\ w.run \in Runs /\ w.mapping # "open"
        BY <1>1, <1>8, <3>1 DEF Verticals, Steps, VerticalOK, Run, ChooseRollup, At
      <3> QED BY <1>1, <1>6, <2>1, <3>1, <3>2 DEF Early, Goto
    <2>2. ASSUME NEW k \in RollupJobs, work' = [work EXCEPT ![p].job = k, ![p].at = "register"]
          PROVE  IInv'
      <3>1. PICK w : w = [work[p] EXCEPT !.job = k, !.at = "register"]
        OBVIOUS
      <3>2. w \in Verticals /\ w.at = "register" /\ w.run \in Runs /\ w.mapping # "open" /\ w.job # 0
        BY <1>1, <1>8, <3>1, Jobs
        DEF Verticals, Steps, VerticalOK, Run, ChooseRollup, At, Early
      <3> QED BY <1>1, <1>6, <2>2, <3>1, <3>2 DEF Early
    <2> QED BY <1>8, <2>1, <2>2 DEF ChooseRollup, Unregistered, RollupJobs
  <1>9. CASE RegisterRollup(p)
    <2>1. PICK w : w = [work[p] EXCEPT !.at = "synthesis"]
      OBVIOUS
    <2>2. w \in Verticals /\ w.at = "synthesis" /\ w.run \in Runs /\ w.mapping # "open" /\ w.job # 0
      BY <1>1, <1>9, <2>1 DEF Verticals, Steps, Early, VerticalOK, Run, RegisterRollup, At
    <2> QED BY <1>1, <1>6, <1>9, <2>1, <2>2 DEF Early, RegisterRollup, Goto
  <1>10. CASE SynthesizeRollup(p) /\ ~Ends(p)
    <2>1. work[p].job \in RollupJobs /\ work[p].mapping # "open"
      BY <1>1, <1>10, Jobs DEF SynthesizeRollup, VerticalOK, Verticals, At
    <2>2. PICK w : w = [work[p] EXCEPT !.rollups = @ \cup {work[p].job}, !.job = 0, !.at = "rollup"]
      OBVIOUS
    <2>3. PICK v : v = [work[p] EXCEPT !.job = 0, !.at = "baseline"]
      OBVIOUS
    <2>4. w \in Verticals /\ w.at = "rollup" /\ w.run \in Runs /\ w.mapping # "open"
      BY <1>1, <2>1, <2>2, Jobs DEF Verticals, Steps, Early, Run
    <2>5. v \in Verticals /\ v.at = "baseline" /\ v.run \in Runs /\ v.mapping # "open"
      BY <1>1, <2>1, <2>3, Jobs DEF Verticals, Steps, Early, Run
    <2>6. work' = [work EXCEPT ![p] = w] \/ work' = [work EXCEPT ![p] = v]
      BY <1>1, <1>10, <2>2, <2>3 DEF SynthesizeRollup
    <2> QED BY <1>6, <2>4, <2>5, <2>6 DEF Early
  <1> QED BY <1>5, <1>7, <1>8, <1>9, <1>10

-----------------------------------------------------------------------------
(* Publication. *)

\* The descriptors a vertical writes, and the identities it writes them under.
LEMMA Artifacts ==
    ASSUME IInv, NEW p \in Processes, ~At(p, "idle"), work[p].mapping # "open"
    PROVE  /\ BuildOf(p) = Build(work[p].run) /\ CompleteOf(p) = MapOf(work[p])
           /\ BuildOf(p) \in Identities /\ CompleteOf(p) \in Identities
           /\ BuildDescriptor(p) \in Descriptors /\ CompleteDescriptor(p) \in Descriptors
           /\ BuildDescriptor(p).base = work[p].base /\ CompleteDescriptor(p).base = work[p].base
  <1>1. work[p] \in Verticals /\ Run(p) \in Runs
    BY RunKnown
  <1>2. BuildOf(p) = Build(work[p].run) /\ CompleteOf(p) = MapOf(work[p])
    BY DEF BuildOf, CompleteOf, MapOf, Run
  <1>3. BuildOf(p) \in Identities /\ CompleteOf(p) \in Identities
    BY <1>1, Ids DEF BuildOf, CompleteOf, Verticals
  <1>4. BuildDescriptor(p) \in Descriptors
    BY <1>1 DEF BuildDescriptor, Descriptors, Verticals, MaybeMaps
  <1>5. CompleteDescriptor(p) \in Descriptors
    BY <1>1 DEF CompleteDescriptor, BuildDescriptor, Descriptors, Verticals, MaybeMaps, RollupJobs
  <1>6. BuildDescriptor(p).base = work[p].base /\ CompleteDescriptor(p).base = work[p].base
    BY DEF CompleteDescriptor, BuildDescriptor
  <1> QED BY <1>2, <1>3, <1>4, <1>5, <1>6

\* A vertical that moves on keeps what it knew.
LEMMA StepOK ==
    ASSUME NEW v, VerticalOK(v)', v.run \in Runs, NEW w, NEW step \in Steps,
           w = [v EXCEPT !.at = step], step \notin {"idle", "execute", "register", "synthesis"},
           v.mapping # "open",
           step \in BuildCreated => Stored(Build(v.run))' /\ generations'[Build(v.run)].base = v.base,
           step \in BuildFilled => pages'[Build(v.run)] = Pages,
           step = "activate" => v.active = NoGeneration \/ v.active.run = v.run,
           step \in MapCreated => Stored(MapOf(v))' /\ generations'[MapOf(v)].base = v.base,
           step \in MapFilled => pages'[MapOf(v)] = Pages
    PROVE  VerticalOK(w)'
  <1>1. w \in Verticals /\ w.at = step /\ w.run = v.run /\ w.mapping = v.mapping
          /\ w.base = v.base /\ w.active = v.active /\ w.timeline = v.timeline
    BY DEF VerticalOK, Verticals
  <1>2. MapOf(w) = MapOf(v)
    BY <1>1 DEF MapOf
  <1> QED BY <1>1, <1>2, GenerationAssumption DEF VerticalOK

LEMMA CreateKeeps ==
    ASSUME IInv, NEW p \in Processes, CreateBuild(p) \/ CreateComplete(p)
    PROVE  IInv'
  <1>1. VerticalOK(work[p]) /\ work[p] \in Verticals /\ Run(p) \in Runs
          /\ work \in [Processes -> Verticals] /\ ~At(p, "idle")
    BY RunKnown DEF CreateBuild, CreateComplete, Create, At
  <1>2. work[p].mapping # "open"
    BY <1>1 DEF VerticalOK, CreateBuild, CreateComplete, Create, At
  <1>3. UNCHANGED <<pages, pointers, cancelled, mapping, rollup, queue, history, window, saves, view>>
    BY DEF CreateBuild, CreateComplete, Create, CreateGeneration, storeVars, jobVars, reader
  <1>4. CASE Ends(p) /\ UNCHANGED storeVars
    <2>1. TypeInv'
      BY <1>3, <1>4 DEF IInv, TypeInv, storeVars
    <2> QED BY <1>3, <1>4, <2>1, IdleOK, SameGrows, Moved DEF Ends, IInv, storeVars
  <1>5. ASSUME NEW g \in Identities, NEW d \in Descriptors, CreateGeneration(g, d)
        PROVE  TypeInv' /\ Grows /\ Stored(g)' /\ generations'[g] = d
    BY <1>3, <1>5, CreateGrows DEF IInv, TypeInv
  <1>6. CASE /\ At(p, "build")
             /\ CreateGeneration(BuildOf(p), BuildDescriptor(p)) /\ Goto(p, "buildMaterial")
    <2>1. PICK v, g, d : v = work[p] /\ g = BuildOf(p) /\ d = BuildDescriptor(p)
      OBVIOUS
    <2>2. /\ v.run \in Runs /\ v.mapping # "open" /\ VerticalOK(v)
          /\ g \in Identities /\ d \in Descriptors /\ g = Build(v.run) /\ d.base = v.base
      BY <1>1, <1>2, <2>1, Artifacts DEF Run
    <2>3. TypeInv' /\ Grows /\ Stored(g)' /\ generations'[g] = d
      BY <1>5, <1>6, <2>1, <2>2
    <2>4. PICK w : w = [v EXCEPT !.at = "buildMaterial"]
      OBVIOUS
    <2>5. VerticalOK(v)'
      BY <2>2, <2>3, VerticalKept
    <2>6. VerticalOK(w)'
      BY <2>2, <2>3, <2>4, <2>5, StepOK DEF Steps, BuildCreated, BuildFilled, MapCreated, MapFilled
    <2> QED BY <1>3, <1>6, <2>1, <2>3, <2>4, <2>6, Moved DEF Goto
  <1>7. CASE /\ At(p, "complete")
             /\ CreateGeneration(CompleteOf(p), CompleteDescriptor(p)) /\ Goto(p, "completeMaterial")
    <2>1. PICK v, g, d : v = work[p] /\ g = CompleteOf(p) /\ d = CompleteDescriptor(p)
      OBVIOUS
    <2>2. /\ v.run \in Runs /\ v.mapping # "open" /\ VerticalOK(v) /\ v.at = "complete"
          /\ g \in Identities /\ d \in Descriptors /\ g = MapOf(v) /\ d.base = v.base
      BY <1>1, <1>2, <1>7, <2>1, Artifacts DEF Run, At
    <2>3. TypeInv' /\ Grows /\ Stored(g)' /\ generations'[g] = d
      BY <1>5, <1>7, <2>1, <2>2
    <2>4. PICK w : w = [v EXCEPT !.at = "completeMaterial"]
      OBVIOUS
    <2>5. VerticalOK(v)'
      BY <2>2, <2>3, VerticalKept
    <2>6. Stored(Build(v.run))' /\ generations'[Build(v.run)].base = v.base /\ pages'[Build(v.run)] = Pages
      BY <2>2, <2>5 DEF VerticalOK, BuildCreated, BuildFilled
    <2>7. VerticalOK(w)'
      BY <2>2, <2>3, <2>4, <2>5, <2>6, StepOK DEF Steps, BuildCreated, BuildFilled, MapCreated, MapFilled
    <2> QED BY <1>3, <1>7, <2>1, <2>3, <2>4, <2>7, Moved DEF Goto
  <1> QED BY <1>4, <1>6, <1>7 DEF CreateBuild, CreateComplete, Create

LEMMA StoreKeeps ==
    ASSUME IInv, NEW p \in Processes, StoreBuild(p) \/ StoreComplete(p)
    PROVE  IInv'
  <1>1. VerticalOK(work[p]) /\ work[p] \in Verticals /\ Run(p) \in Runs
          /\ work \in [Processes -> Verticals] /\ ~At(p, "idle")
    BY RunKnown DEF StoreBuild, StoreComplete, StoreMaterial, At
  <1>2. work[p].mapping # "open"
    BY <1>1 DEF VerticalOK, StoreBuild, StoreComplete, StoreMaterial, At
  <1>3. PICK v, g, step, next :
          /\ v = work[p]
          /\ StoreMaterial(p, step, next, g)
          /\ \/ step = "buildMaterial" /\ next = "active" /\ g = BuildOf(p)
             \/ step = "completeMaterial" /\ next = "ready" /\ g = CompleteOf(p)
    BY DEF StoreBuild, StoreComplete
  <1>4. v.run \in Runs /\ v.mapping # "open" /\ VerticalOK(v) /\ v.at = step /\ g \in Identities
          /\ BuildOf(p) = Build(v.run) /\ CompleteOf(p) = MapOf(v)
    BY <1>1, <1>2, <1>3, Artifacts DEF Run, StoreMaterial, At
  <1>5. UNCHANGED <<generations, pointers, cancelled, mapping, rollup, queue, history, window,
                    saves, view>>
    BY <1>3 DEF StoreMaterial, StorePage, storeVars, jobVars, reader
  <1>6. TypeInv' /\ Grows
    <2>1. CASE pages[g] < Pages /\ StorePage(g)
      BY <1>4, <1>5, <2>1, StoreGrows DEF IInv, TypeInv
    <2>2. CASE UNCHANGED storeVars
      BY <1>5, <2>2, SameGrows DEF IInv, TypeInv, storeVars
    <2> QED BY <1>3, <2>1, <2>2 DEF StoreMaterial
  <1>7. VerticalOK(v)'
    BY <1>4, <1>6, VerticalKept
  <1>8. CASE UNCHANGED work
    BY <1>5, <1>6, <1>8, Stayed
  <1>9. CASE pages'[g] = Pages /\ Goto(p, next)
    <2>1. CASE step = "buildMaterial" /\ next = "active" /\ g = BuildOf(p)
      <3>1. PICK w : w = [v EXCEPT !.at = "active"]
        OBVIOUS
      <3>2. v.at = "buildMaterial" /\ g = Build(v.run)
        BY <1>4, <2>1
      <3>3. pages'[Build(v.run)] = Pages
        BY <1>9, <3>2
      <3>4. Stored(Build(v.run))' /\ generations'[Build(v.run)].base = v.base
        BY <1>7, <3>2 DEF VerticalOK, BuildCreated
      <3>5. VerticalOK(w)'
        BY <1>4, <1>7, <3>1, <3>3, <3>4, StepOK
        DEF Steps, BuildCreated, BuildFilled, MapCreated, MapFilled
      <3> QED BY <1>3, <1>5, <1>6, <1>9, <2>1, <3>1, <3>5, Moved DEF Goto
    <2>2. CASE step = "completeMaterial" /\ next = "ready" /\ g = CompleteOf(p)
      <3>1. PICK w : w = [v EXCEPT !.at = "ready"]
        OBVIOUS
      <3>2. v.at = "completeMaterial" /\ g = MapOf(v)
        BY <1>4, <2>2
      <3>3. pages'[MapOf(v)] = Pages
        <4>1. MapOf(v)' = MapOf(v)
          BY DEF MapOf, Complete
        <4> QED BY <1>9, <3>2, <4>1
      <3>4. /\ Stored(Build(v.run))' /\ generations'[Build(v.run)].base = v.base
            /\ pages'[Build(v.run)] = Pages
            /\ Stored(MapOf(v))' /\ generations'[MapOf(v)].base = v.base
        BY <1>7, <3>2 DEF VerticalOK, BuildCreated, BuildFilled, MapCreated
      <3>5. VerticalOK(w)'
        BY <1>4, <1>7, <3>1, <3>3, <3>4, StepOK
        DEF Steps, BuildCreated, BuildFilled, MapCreated, MapFilled
      <3> QED BY <1>3, <1>5, <1>6, <1>9, <2>2, <3>1, <3>5, Moved DEF Goto
    <2> QED BY <1>3, <2>1, <2>2
  <1> QED BY <1>3, <1>8, <1>9 DEF StoreMaterial

LEMMA ReadsKeep ==
    ASSUME IInv, NEW p \in Processes,
           ReadBaseline(p) \/ ReadActive(p) \/ Preflight(p) \/ Ready(p)
    PROVE  IInv'
  <1>1. VerticalOK(work[p]) /\ work[p] \in Verticals /\ Run(p) \in Runs
          /\ work \in [Processes -> Verticals] /\ ~At(p, "idle")
    BY RunKnown DEF ReadBaseline, ReadActive, Preflight, Ready, At
  <1>2. work[p].mapping # "open"
    BY <1>1 DEF VerticalOK, ReadBaseline, ReadActive, Preflight, Ready, At
  <1>3. PICK v : v = work[p]
    OBVIOUS
  <1>4. UNCHANGED <<generations, pages, pointers, cancelled, mapping, rollup, queue, history,
                    window, saves, view>>
    BY DEF ReadBaseline, ReadActive, Preflight, Ready, storeVars, jobVars, reader
  <1>5. Grows /\ TypeInv'
    BY <1>4, SameGrows DEF IInv, TypeInv
  <1>6. VerticalOK(v)' /\ v.run \in Runs /\ v.mapping # "open" /\ v \in Verticals
          /\ BuildOf(p) = Build(v.run) /\ CompleteOf(p) = MapOf(v)
    BY <1>1, <1>2, <1>3, <1>5, Artifacts, VerticalKept DEF Run
  <1>7. CASE Ends(p)
    BY <1>4, <1>5, <1>7, IdleOK, Moved DEF Ends, IInv
  <1>8. CASE ReadBaseline(p)
    <2>1. PICK w : w = [v EXCEPT !.base = pointers.complete, !.at = "build"]
      OBVIOUS
    <2>2. w \in Verticals /\ w.at = "build" /\ w.run \in Runs /\ w.mapping # "open"
      BY <1>6, <2>1 DEF Verticals, Steps, IInv, TypeInv
    <2> QED BY <1>1, <1>3, <1>4, <1>5, <1>8, <2>1, <2>2, PlainOK, Moved DEF ReadBaseline, Early
  <1>9. CASE ReadActive(p)
    <2>1. PICK w : w = [v EXCEPT !.active = pointers.active, !.at = "preflight"]
      OBVIOUS
    <2>2. w \in Verticals /\ w.at = "preflight" /\ w.run = v.run /\ w.mapping = v.mapping
            /\ w.base = v.base
      BY <1>6, <2>1 DEF Verticals, Steps, IInv, TypeInv, BuildCreated
    <2>3. v.at = "active"
      BY <1>3, <1>9 DEF ReadActive, At
    <2>4. VerticalOK(w)'
      BY <1>6, <2>2, <2>3, GenerationAssumption
      DEF VerticalOK, Early, BuildCreated, BuildFilled, MapCreated, MapFilled
    <2> QED BY <1>1, <1>3, <1>4, <1>5, <1>9, <2>1, <2>4, Moved DEF ReadActive
  <1>10. CASE Preflight(p) /\ Goto(p, "activate") /\ ~Ends(p)
    <2>1. PICK w : w = [v EXCEPT !.at = "activate"]
      OBVIOUS
    <2>2. v.at = "preflight" /\ (v.active = NoGeneration \/ Lineage(v.active) = Lineage(Build(v.run)))
      BY <1>3, <1>6, <1>10 DEF Preflight, At
    <2>3. v.active = NoGeneration \/ v.active.run = v.run
      BY <1>6, <2>2, Ids DEF Lineage
    <2>4. Stored(Build(v.run))' /\ generations'[Build(v.run)].base = v.base /\ pages'[Build(v.run)] = Pages
      BY <1>6, <2>2 DEF VerticalOK, BuildCreated, BuildFilled
    <2>5. VerticalOK(w)'
      BY <1>6, <2>1, <2>3, <2>4, StepOK DEF Steps, BuildCreated, BuildFilled, MapCreated, MapFilled
    <2> QED BY <1>3, <1>4, <1>5, <1>10, <2>1, <2>5, Moved DEF Goto
  <1>11. CASE Ready(p) /\ Goto(p, "publish") /\ ~Ends(p)
    <2>1. PICK w : w = [v EXCEPT !.at = "publish"]
      OBVIOUS
    <2>2. v.at = "ready"
      BY <1>3, <1>11 DEF Ready, At
    <2>3. /\ Stored(Build(v.run))' /\ generations'[Build(v.run)].base = v.base
          /\ pages'[Build(v.run)] = Pages
          /\ Stored(MapOf(v))' /\ generations'[MapOf(v)].base = v.base /\ pages'[MapOf(v)] = Pages
      BY <1>6, <2>2 DEF VerticalOK, BuildCreated, BuildFilled, MapCreated, MapFilled
    <2>4. VerticalOK(w)'
      BY <1>6, <2>1, <2>3, StepOK DEF Steps, BuildCreated, BuildFilled, MapCreated, MapFilled
    <2> QED BY <1>3, <1>4, <1>5, <1>11, <2>1, <2>4, Moved DEF Goto
  <1> QED BY <1>7, <1>8, <1>9, <1>10, <1>11 DEF Preflight, Ready

\* A build that was stored against the current map is of a run that has published nothing.
LEMMA NotPublishedYet ==
    ASSUME TypeInv, ChainInv, NEW r \in Runs, generations[Build(r)].base = pointers.complete,
           NEW i \in 1..Len(history)
    PROVE  history[i].map.run # r
  <1> SUFFICES ASSUME history[i].map.run = r PROVE FALSE
    OBVIOUS
  <1>1. /\ history \in Seq(Entries) /\ Len(history) \in Nat \ {0}
        /\ \A j \in 1..Len(history) : history[j].map \in Identities
    <2>1. history \in Seq(Entries)
      BY DEF TypeInv
    <2>2. Len(history) \in Nat /\ \A j \in 1..Len(history) : history[j] \in Entries
      BY <2>1
    <2> QED BY <2>1, <2>2 DEF Entries
  <1>2. Previous(i) = Previous(Len(history) + 1)
    BY DEF ChainInv, EntryOK
  <1>3. Previous(Len(history) + 1) = history[Len(history)].map
    BY <1>1 DEF Previous
  <1>4. CASE i = 1
    BY <1>1, <1>2, <1>3, <1>4, Ids DEF Previous
  <1>5. CASE i # 1
    <2>1. i - 1 \in 1..Len(history) /\ i - 1 # Len(history) /\ Len(history) \in 1..Len(history)
      BY <1>1, <1>5
    <2>2. history[i - 1].map.run # history[Len(history)].map.run
      BY <2>1 DEF ChainInv
    <2> QED BY <1>2, <1>3, <1>5, <2>2 DEF Previous
  <1> QED BY <1>4, <1>5

LEMMA ActivateKeeps ==
    ASSUME IInv, NEW p \in Processes, Activate(p)
    PROVE  IInv'
  <1>1. VerticalOK(work[p]) /\ work[p] \in Verticals /\ Run(p) \in Runs
          /\ work \in [Processes -> Verticals] /\ ~At(p, "idle") /\ work[p].at = "activate"
    BY RunKnown DEF Activate, At
  <1>2. work[p].mapping # "open"
    BY <1>1 DEF VerticalOK
  <1>3. PICK v, g : v = work[p] /\ g = Build(v.run)
    OBVIOUS
  <1>4. v.run \in Runs /\ VerticalOK(v) /\ v.at = "activate" /\ v.mapping # "open"
          /\ BuildOf(p) = g /\ g \in Builds /\ v \in Verticals
    BY <1>1, <1>2, <1>3, Artifacts DEF Run, Builds
  <1>5. UNCHANGED <<generations, pages, cancelled, mapping, rollup, queue, history, window, saves,
                    view>>
    BY DEF Activate, SetActive, storeVars, jobVars, reader
  <1>6. CASE Ends(p) /\ UNCHANGED storeVars
    <2>1. TypeInv'
      BY <1>5, <1>6 DEF IInv, TypeInv, storeVars
    <2> QED BY <1>5, <1>6, <2>1, IdleOK, SameGrows, Moved DEF Ends, IInv, storeVars
  <1>7. CASE /\ SetActive(BuildOf(p), work[p].active, work[p].base)
             /\ work' = [work EXCEPT ![p].active = NoGeneration, ![p].at = "complete"]
    <2>1. PICK w : w = [v EXCEPT !.active = NoGeneration, !.at = "complete"]
      OBVIOUS
    <2>2. w \in Verticals /\ w.at = "complete" /\ w.run = v.run /\ w.mapping = v.mapping
            /\ w.base = v.base /\ work' = [work EXCEPT ![p] = w]
      BY <1>1, <1>3, <1>4, <1>7, <2>1 DEF Verticals, Steps, BuildCreated
    <2>3. Stored(g) /\ generations[g].base = v.base /\ pages[g] = Pages
            /\ (v.active = NoGeneration \/ v.active.run = v.run)
      BY <1>3, <1>4 DEF VerticalOK, BuildCreated, BuildFilled
    <2>4. /\ pointers' = [pointers EXCEPT !.active = g]
          /\ pointers.active = v.active /\ pointers.complete = v.base
      BY <1>3, <1>4, <1>7 DEF SetActive, ActivationRefused, PointersMoved
    <2>5. TypeInv'
      BY <1>4, <1>5, <2>4 DEF IInv, TypeInv
    <2>6. Grows
      BY <1>5, SameGrows
    <2>7. VerticalOK(w)'
      <3>1. Stored(Build(w.run))' /\ generations'[Build(w.run)].base = w.base
              /\ pages'[Build(w.run)] = Pages
        BY <1>3, <1>5, <2>2, <2>3 DEF Stored
      <3> QED BY <1>4, <2>2, <3>1, GenerationAssumption
              DEF VerticalOK, Early, BuildCreated, BuildFilled, MapCreated, MapFilled
    <2>8. VerticalsInv'
      BY <2>2, <2>6, <2>7, VerticalMoves DEF IInv
    <2>9. pointers'.active = g /\ pointers'.complete = v.base /\ pointers'.revision = pointers.revision
      BY <2>4 DEF IInv, TypeInv
    <2>10. ChainInv'
      <3>1. \A i \in 1..Len(history) : EntryOK(i)'
        BY <1>5 DEF IInv, ChainInv, EntryOK, Previous, Stored
      <3> QED BY <1>5, <2>3, <2>4, <2>9, <3>1 DEF IInv, ChainInv, Previous, Stored
    <2>11. ReaderInv'
      <3>1. ASSUME window # NoSnapshot, window.revision = pointers.revision
            PROVE  window.gen = Readable'
        <4>1. window.gen = Readable /\ window.gen # NoGeneration
          BY <3>1 DEF IInv, ReaderInv, WindowIsCurrent
        <4>2. CASE pointers.complete # NoGeneration
          BY <2>4, <2>9, <4>1, <4>2 DEF Readable
        <4>3. CASE pointers.complete = NoGeneration
          <5>1. v.active = window.gen /\ v.active \in Builds
            BY <1>4, <2>4, <4>1, <4>3 DEF Readable, Verticals
          <5>2. v.active = g
            BY <1>3, <2>3, <4>1, <5>1, Ids
          <5> QED BY <2>4, <2>9, <4>3, <5>1, <5>2 DEF Readable
        <4> QED BY <4>2, <4>3
      <3> QED BY <1>5, <2>9, <3>1 DEF IInv, ReaderInv, WindowIsCurrent
    <2> QED BY <2>5, <2>8, <2>10, <2>11 DEF IInv
  <1> QED BY <1>6, <1>7 DEF Activate

LEMMA PublishKeeps ==
    ASSUME IInv, NEW p \in Processes, PublishComplete(p)
    PROVE  IInv'
  <1>1. VerticalOK(work[p]) /\ work[p] \in Verticals /\ Run(p) \in Runs
          /\ work \in [Processes -> Verticals] /\ ~At(p, "idle") /\ work[p].at = "publish"
    BY RunKnown DEF PublishComplete, At
  <1>2. work[p].mapping # "open"
    BY <1>1 DEF VerticalOK
  <1>3. PICK v, g : v = work[p] /\ g = MapOf(v)
    OBVIOUS
  <1>4. v.run \in Runs /\ VerticalOK(v) /\ v.at = "publish" /\ BuildOf(p) = Build(v.run)
          /\ CompleteOf(p) = g /\ g \in Identities /\ g.run = v.run
    BY <1>1, <1>2, <1>3, Artifacts, Ids DEF Run, MapOf, Verticals
  <1>5. UNCHANGED <<generations, pages, cancelled, mapping, rollup, queue, window, saves, view>>
          /\ Ends(p)
    BY DEF PublishComplete, Publish, storeVars, jobVars, reader
  <1>6. Grows
    BY <1>5, SameGrows
  <1>7. CASE UNCHANGED <<storeVars, history>>
    <2>1. TypeInv'
      BY <1>5, <1>7 DEF IInv, TypeInv, storeVars
    <2> QED BY <1>5, <1>6, <1>7, <2>1, IdleOK, Moved DEF Ends, IInv, storeVars
  <1>8. CASE /\ Publish(CompleteOf(p), BuildOf(p), work[p].base)
             /\ history' = Append(history, [map |-> CompleteOf(p), replaces |-> work[p].base])
    <2>1. PICK e : e = [map |-> g, replaces |-> v.base]
      OBVIOUS
    <2>2. /\ e \in Entries /\ history' = Append(history, e) /\ history \in Seq(Entries)
          /\ e.map = g /\ e.replaces = v.base
      BY <1>3, <1>4, <1>8, <2>1 DEF Entries, VerticalOK, Verticals, IInv, TypeInv
    <2>3. /\ Len(history') = Len(history) + 1 /\ history' \in Seq(Entries) /\ Len(history) \in Nat
          /\ \A i \in 1..Len(history) : history'[i] = history[i]
          /\ history'[Len(history) + 1] = e
      BY <2>2
    <2>4. pointers.complete = v.base
      BY <1>3, <1>8 DEF Publish, PublicationRefused, PointersMoved
    <2>5. pointers' = [complete |-> g, active |-> NoGeneration, revision |-> pointers.revision + 1]
      BY <1>4, <1>8 DEF Publish
    <2>6. TypeInv'
      BY <1>4, <1>5, <2>3, <2>5 DEF IInv, TypeInv, MaybeMaps
    <2>7. VerticalsInv'
      BY <1>5, <1>6, IdleOK, VerticalMoves DEF Ends, IInv
    <2>8. /\ Stored(g) /\ pages[g] = Pages
          /\ Stored(Build(v.run)) /\ generations[Build(v.run)].base = v.base
      BY <1>3, <1>4 DEF VerticalOK, BuildCreated, MapCreated, MapFilled
    <2>9. \A i \in 1..Len(history) : history[i].map.run # v.run
      BY <1>4, <2>4, <2>8, NotPublishedYet DEF IInv
    <2>10. ChainInv'
      <3> PICK n \in Nat : n = Len(history)
        BY <2>3
      <3>1. \A i \in 1..(n + 1) : Previous(i)' = Previous(i)
        BY <2>3 DEF Previous
      <3>2. pointers.complete = Previous(n + 1) /\ \A i \in 1..n : EntryOK(i)
        BY DEF IInv, ChainInv
      <3>3. ASSUME NEW i \in 1..n PROVE EntryOK(i)'
        <4>1. history'[i] = history[i] /\ Previous(i)' = Previous(i) /\ EntryOK(i)
          BY <2>3, <3>1, <3>2
        <4> QED BY <1>5, <4>1 DEF EntryOK, Stored
      <3>4. EntryOK(n + 1)'
        <4>1. history'[n + 1] = e /\ Previous(n + 1)' = v.base
          BY <2>3, <2>4, <3>1, <3>2
        <4> QED BY <1>4, <1>5, <2>2, <2>8, <4>1 DEF EntryOK, Stored
      <3>5. \A i \in 1..Len(history') : EntryOK(i)'
        BY <2>3, <3>3, <3>4
      <3>6. \A i, j \in 1..Len(history') : i # j => history'[i].map.run # history'[j].map.run
        <4> SUFFICES ASSUME NEW i \in 1..Len(history'), NEW j \in 1..Len(history'), i # j
                     PROVE  history'[i].map.run # history'[j].map.run
          OBVIOUS
        <4>1. CASE i \in 1..Len(history) /\ j \in 1..Len(history)
          BY <2>3, <4>1 DEF IInv, ChainInv
        <4>2. CASE i = Len(history) + 1 /\ j \in 1..Len(history)
          BY <1>4, <2>2, <2>3, <2>9, <4>2
        <4>3. CASE j = Len(history) + 1 /\ i \in 1..Len(history)
          BY <1>4, <2>2, <2>3, <2>9, <4>3
        <4> QED BY <2>3, <4>1, <4>2, <4>3
      <3>7. (pointers.complete = Previous(Len(history) + 1))'
        BY <2>2, <2>3, <2>5 DEF Previous
      <3> QED BY <2>5, <3>5, <3>6, <3>7 DEF ChainInv
    <2>11. ReaderInv'
      <3>1. pointers'.revision = pointers.revision + 1 /\ pointers.revision \in Nat
        BY <2>5 DEF IInv, TypeInv
      <3> QED BY <1>5, <3>1 DEF IInv, ReaderInv, WindowIsCurrent
    <2> QED BY <2>6, <2>7, <2>10, <2>11 DEF IInv
  <1> QED BY <1>7, <1>8 DEF PublishComplete

-----------------------------------------------------------------------------
(* Readers, crashes and the inductive step. *)

LEMMA ReadersKeep ==
    ASSUME IInv, Open \/ RequestSave \/ (\E snapshot \in saves : Save(snapshot))
    PROVE  IInv'
  <1>1. UNCHANGED <<generations, pages, pointers, cancelled, mapping, rollup, queue, work, history>>
    BY DEF Open, RequestSave, Save, SaveView, storeVars, jobVars, memory
  <1>2. TypeInv' /\ Grows
    BY <1>1, SameGrows DEF IInv, TypeInv
  <1>3. VerticalsInv' /\ ChainInv'
    BY <1>1, <1>2, VerticalsStay, ChainKept DEF IInv
  <1>4. pointers.revision \in Nat /\ Snapshot.revision = pointers.revision /\ Snapshot.gen = Readable
    BY DEF IInv, TypeInv, Snapshot
  <1>5. ReaderInv'
    <2>1. CASE Open
      BY <1>1, <1>4, <2>1 DEF IInv, ReaderInv, WindowIsCurrent, Open, Readable, storeVars
    <2>2. CASE RequestSave
      <3>1. UNCHANGED <<window, view>> /\ saves' = saves \cup {Snapshot}
        BY <2>2 DEF RequestSave, storeVars
      <3> QED BY <1>1, <1>4, <3>1 DEF IInv, ReaderInv, WindowIsCurrent, Readable
    <2>3. ASSUME NEW snapshot \in saves, Save(snapshot) PROVE ReaderInv'
      <3>1. UNCHANGED window /\ saves' = saves \ {snapshot} /\ (view' = view \/ view' = Snapshot)
        BY <2>3 DEF Save, SaveView, ViewRefused, storeVars
      <3> QED BY <1>1, <1>4, <3>1 DEF IInv, ReaderInv, WindowIsCurrent, Readable
    <2> QED BY <2>1, <2>2, <2>3
  <1> QED BY <1>2, <1>3, <1>5 DEF IInv

LEMMA CrashKeeps ==
    ASSUME IInv, NEW p \in Processes, Crash(p)
    PROVE  IInv'
  <1>1. TypeInv'
    BY DEF IInv, TypeInv, Crash, storeVars, jobVars
  <1> QED BY <1>1, SameGrows, IdleOK, Moved DEF IInv, Crash, Ends, storeVars, reader

LEMMA InitInv == Init => IInv
  <1> SUFFICES ASSUME Init PROVE IInv
    OBVIOUS
  <1>1. TypeInv
    BY GenerationAssumption DEF Init, StoreInit, TypeInv, MaybeMaps, RollupStates, RollupJobs
  <1>2. ChainInv
    BY <1>1 DEF Init, StoreInit, ChainInv, Previous
  <1>3. ReaderInv
    BY DEF Init, StoreInit, ReaderInv, WindowIsCurrent, NoSnapshot
  <1>4. VerticalOK(Idle)
    BY GenerationAssumption, Jobs
    DEF VerticalOK, Idle, Verticals, Steps, Early, BuildCreated, BuildFilled, MapCreated,
        MapFilled, MaybeMaps
  <1>5. VerticalsInv
    BY <1>4 DEF Init, VerticalsInv, VerticalOK
  <1> QED BY <1>1, <1>2, <1>3, <1>5 DEF IInv

LEMMA StepInv == IInv /\ [Next]_vars => IInv'
  <1> SUFFICES ASSUME IInv, [Next]_vars PROVE IInv'
    OBVIOUS
  <1>1. ASSUME NEW p \in Processes, Vertical(p) PROVE IInv'
    BY <1>1, BeginKeeps, ExecuteKeeps, ProseKeeps, CreateKeeps, StoreKeeps, ReadsKeep,
       ActivateKeeps, PublishKeeps DEF Vertical
  <1>2. ASSUME NEW p \in Processes, Crash(p) PROVE IInv'
    BY <1>2, CrashKeeps
  <1>3. ASSUME NEW p \in Processes, NEW r \in Runs, Start(p, r) \/ Resume(p, r) PROVE IInv'
    BY <1>3, SubmitsKeep
  <1>4. ASSUME NEW r \in Runs, Cancel(r) \/ ApproveRetry(r) PROVE IInv'
    BY <1>4, DecisionsKeep
  <1>5. CASE Open \/ RequestSave \/ \E snapshot \in saves : Save(snapshot)
    BY <1>5, ReadersKeep
  <1>6. CASE UNCHANGED vars
    <2>1. TypeInv'
      BY <1>6 DEF IInv, TypeInv, vars, storeVars, jobVars, memory, reader
    <2> QED BY <1>6, <2>1, SameGrows, Stayed DEF vars, storeVars, memory, reader
  <1> QED BY <1>1, <1>2, <1>3, <1>4, <1>5, <1>6 DEF Next

LEMMA Invariance == Spec => []IInv
  BY InitInv, StepInv, PTL DEF Spec

-----------------------------------------------------------------------------
(* Theorems. *)

\* The records, the pointers and the verticals keep their types, and the revision counts
\* the maps that were published (publish_generation).
THEOREM PublicationTypeCorrect == Spec => []PublicationTypeOK
  <1>1. IInv => PublicationTypeOK
    BY DEF IInv, TypeInv, VerticalsInv, VerticalOK, PublicationTypeOK, MaybeMaps, Builds, At, Run
  <1> QED BY <1>1, Invariance, PTL

\* What a reader is given is complete on disk, whichever processes crashed and whichever
\* of them published: the pointer moves only after the last page (_publish_generation).
THEOREM StoredBeforeShown == Spec => []ReadableIsStored
  <1>1. IInv => ReadableIsStored
    <2> SUFFICES ASSUME IInv, Readable # NoGeneration PROVE Stored(Readable) /\ pages[Readable] = Pages
      BY DEF ReadableIsStored
    <2>1. CASE pointers.complete # NoGeneration
      <3>1. Len(history) \in Nat /\ pointers.complete = Previous(Len(history) + 1)
        BY DEF IInv, TypeInv, ChainInv
      <3>2. Len(history) \in 1..Len(history) /\ pointers.complete = history[Len(history)].map
        BY <2>1, <3>1 DEF Previous
      <3> QED BY <2>1, <3>2 DEF IInv, ChainInv, EntryOK, Readable
    <2>2. CASE pointers.complete = NoGeneration
      BY <2>2 DEF IInv, ChainInv, Readable
    <2> QED BY <2>1, <2>2
  <1> QED BY <1>1, Invariance, PTL

\* Quoting the revision is enough: the one activation that leaves the revision alone while
\* something is shown re-activates the same build (_require_revision, activate_progressive).
THEOREM WindowsAreCurrent == Spec => []WindowIsCurrent
  <1>1. IInv => WindowIsCurrent
    BY DEF IInv, ReaderInv
  <1> QED BY <1>1, Invariance, PTL

\* A save that comes late is refused, so the saved view is never of an older map.
THEOREM ViewsAdvance == Spec => ViewNeverRegresses
  <1>1. ASSUME IInv, [Next]_vars PROVE view'.revision >= view.revision
    <2>1. CASE view' = view
      BY <1>1, <2>1 DEF IInv, ReaderInv, TypeInv
    <2>2. CASE view' = Snapshot
      BY <1>1, <2>2 DEF IInv, ReaderInv, TypeInv, Snapshot
    <2>3. view' = view \/ view' = Snapshot
      <3>1. ASSUME NEW p \in Processes, Vertical(p) PROVE view' = view
        BY <3>1 DEF Vertical, Begin, Execute, Editorial, ChooseRollup, RegisterRollup,
           SynthesizeRollup, ReadBaseline, CreateBuild, StoreBuild, ReadActive, Preflight,
           Activate, CreateComplete, StoreComplete, Ready, PublishComplete, Create,
           StoreMaterial, CreateGeneration, StorePage, SetActive, Publish, storeVars
      <3>2. ASSUME NEW p \in Processes, Crash(p) PROVE view' = view
        BY <3>2 DEF Crash, storeVars
      <3>3. ASSUME NEW p \in Processes, NEW r \in Runs, Start(p, r) \/ Resume(p, r) PROVE view' = view
        BY <3>3 DEF Start, Resume, storeVars
      <3>4. ASSUME NEW r \in Runs, Cancel(r) \/ ApproveRetry(r) PROVE view' = view
        BY <3>4 DEF Cancel, CancelRun, ApproveRetry, storeVars
      <3>5. CASE Open \/ RequestSave
        BY <3>5 DEF Open, RequestSave, storeVars
      <3>6. ASSUME NEW snapshot \in saves, Save(snapshot) PROVE view' = view \/ view' = Snapshot
        BY <3>6 DEF Save, SaveView, ViewRefused, storeVars
      <3>7. CASE UNCHANGED vars
        BY <3>7 DEF vars, storeVars
      <3> QED BY <1>1, <3>1, <3>2, <3>3, <3>4, <3>5, <3>6, <3>7 DEF Next
    <2> QED BY <2>1, <2>2, <2>3
  <1>2. IInv /\ [Next]_vars => [view'.revision >= view.revision]_vars
    BY <1>1
  <1> QED BY <1>2, Invariance, PTL DEF Spec, ViewNeverRegresses

-----------------------------------------------------------------------------
(* The refinement of MapHistory. *)

\* What the vertical's update does to the history of the map.
LEMMA ActivationMaps ==
    ASSUME IInv, NEW p \in Processes, Activate(p)
    PROVE  [History!Next]_History!vars
  <1>1. VerticalOK(work[p]) /\ work[p] \in Verticals /\ Run(p) \in Runs /\ work[p].at = "activate"
    BY RunKnown DEF Activate, At
  <1>2. CASE UNCHANGED storeVars
    BY <1>2 DEF Activate, History!vars, Readable, storeVars
  <1>3. CASE SetActive(BuildOf(p), work[p].active, work[p].base)
    <2>1. PICK g : g = BuildOf(p)
      OBVIOUS
    <2>2. g \in Builds /\ g \in Identities /\ g.run = Run(p) /\ g # NoGeneration
      BY <1>1, <2>1, Ids DEF BuildOf, Builds
    <2>3. /\ pointers'.active = g /\ UNCHANGED <<pointers.complete, pointers.revision>>
          /\ pointers.active = work[p].active /\ UNCHANGED <<cancelled, history>>
          /\ g.run \notin cancelled
      BY <1>3, <2>1 DEF SetActive, ActivationRefused, PointersMoved, IInv, TypeInv, Activate
    <2>4. CASE pointers.complete # NoGeneration
      BY <2>3, <2>4 DEF History!vars, Readable
    <2>5. CASE pointers.complete = NoGeneration /\ pointers.active # NoGeneration
      <3>1. pointers.active \in Builds /\ pointers.active.run = Run(p)
        BY <1>1, <2>3, <2>5 DEF IInv, TypeInv, VerticalOK, Run
      <3>2. pointers.active = g
        BY <2>1, <3>1, Ids DEF BuildOf
      <3> QED BY <2>3, <2>5, <3>2 DEF History!vars, Readable
    <2>6. CASE pointers.complete = NoGeneration /\ pointers.active = NoGeneration
      <3>1. history = <<>>
        <4>1. history \in Seq(Entries) /\ pointers.complete = Previous(Len(history) + 1)
          BY DEF IInv, TypeInv, ChainInv
        <4>2. CASE Len(history) # 0
          <5>1. Len(history) \in 1..Len(history) /\ Previous(Len(history) + 1) = history[Len(history)].map
            BY <4>1, <4>2 DEF Previous
          <5>2. history[Len(history)] \in Entries
            BY <4>1, <5>1
          <5> QED BY <2>6, <4>1, <5>1, <5>2, Ids DEF Entries
        <4> QED BY <4>1, <4>2
      <3>2. History!Preview(g)
        BY <2>2, <2>3, <2>6, <3>1 DEF History!Preview, Readable
      <3> QED BY <2>2, <3>2 DEF History!Next
    <2> QED BY <2>4, <2>5, <2>6
  <1> QED BY <1>2, <1>3 DEF Activate

LEMMA PublicationMaps ==
    ASSUME IInv, NEW p \in Processes, PublishComplete(p)
    PROVE  [History!Next]_History!vars
  <1>1. VerticalOK(work[p]) /\ work[p] \in Verticals /\ Run(p) \in Runs
          /\ ~At(p, "idle") /\ work[p].at = "publish"
    BY RunKnown DEF PublishComplete, At
  <1>2. CASE UNCHANGED <<storeVars, history>>
    BY <1>2 DEF History!vars, Readable, storeVars
  <1>3. CASE /\ Publish(CompleteOf(p), BuildOf(p), work[p].base)
             /\ history' = Append(history, [map |-> CompleteOf(p), replaces |-> work[p].base])
    <2>1. PICK g : g = CompleteOf(p)
      OBVIOUS
    <2>2. g \in Identities /\ g # NoGeneration /\ g.run = Run(p) /\ BuildOf(p) = Build(Run(p))
      BY <1>1, <2>1, Ids DEF CompleteOf, BuildOf, Verticals
    <2>3. /\ g.run \notin cancelled /\ pointers.complete = work[p].base /\ UNCHANGED cancelled
          /\ pointers' = [complete |-> g, active |-> NoGeneration, revision |-> pointers.revision + 1]
      BY <1>3, <2>1 DEF Publish, PublicationRefused, PointersMoved
    <2>4. generations[Build(Run(p))].base = pointers.complete
      BY <1>1, <2>3 DEF VerticalOK, BuildCreated, Run
    <2>5. \A i \in 1..Len(history) : history[i].map.run # Run(p)
      BY <1>1, <2>4, NotPublishedYet DEF IInv
    <2>6. pointers.complete = History!Last
      <3>1. history \in Seq(Entries) /\ pointers.complete = Previous(Len(history) + 1)
        BY DEF IInv, TypeInv, ChainInv
      <3>2. CASE history = <<>>
        BY <3>1, <3>2 DEF Previous, History!Last
      <3>3. CASE history # <<>>
        BY <3>1, <3>3 DEF Previous, History!Last
      <3> QED BY <3>2, <3>3
    <2>7. history' = Append(history, [map |-> g, replaces |-> History!Last])
      BY <1>3, <2>1, <2>3, <2>6
    <2>8. g.run \notin History!Published
      BY <2>2, <2>5 DEF History!Published
    <2>9. pointers'.revision = pointers.revision + 1 /\ Readable' = g
      BY <2>2, <2>3 DEF Readable
    <2>10. History!Publish(g)
      BY <2>3, <2>7, <2>8, <2>9 DEF History!Publish
    <2> QED BY <2>2, <2>10 DEF History!Next
  <1> QED BY <1>2, <1>3 DEF PublishComplete

\* Publication gives the map one history: every step of two processes that start, resume,
\* cancel, crash and publish is a step of MapHistory or leaves it alone (_publish_generation).
THEOREM PublishesOneHistory == Spec => OneHistory
  <1>1. Init => History!Init
    BY DEF Init, StoreInit, History!Init, Readable
  <1>2. ASSUME IInv, [Next]_vars PROVE [History!Next]_History!vars
    <2>1. CASE UNCHANGED <<pointers, cancelled, history>>
      BY <2>1 DEF History!vars, Readable
    <2>2. ASSUME NEW p \in Processes, Vertical(p) PROVE [History!Next]_History!vars
      <3>1. CASE Activate(p)
        BY <1>2, <3>1, ActivationMaps
      <3>2. CASE PublishComplete(p)
        BY <1>2, <3>2, PublicationMaps
      <3>3. CASE ~Activate(p) /\ ~PublishComplete(p)
        BY <2>1, <2>2, <3>3 DEF Vertical, Begin, Execute, Editorial, ChooseRollup, RegisterRollup,
           SynthesizeRollup, ReadBaseline, CreateBuild, StoreBuild, ReadActive, Preflight,
           CreateComplete, StoreComplete, Ready, Create, StoreMaterial, CreateGeneration,
           StorePage, storeVars
      <3> QED BY <3>1, <3>2, <3>3
    <2>3. ASSUME NEW r \in Runs, Cancel(r) PROVE [History!Next]_History!vars
      <3>1. History!Withdraw(r)
        BY <2>3 DEF Cancel, CancelRun, History!Withdraw, Readable
      <3> QED BY <3>1 DEF History!Next
    <2>4. ASSUME NEW r \in Runs, ApproveRetry(r) PROVE UNCHANGED <<pointers, cancelled, history>>
      BY <2>4 DEF ApproveRetry, storeVars
    <2>5. ASSUME NEW p \in Processes, Crash(p) PROVE UNCHANGED <<pointers, cancelled, history>>
      BY <2>5 DEF Crash, storeVars
    <2>6. ASSUME NEW p \in Processes, NEW r \in Runs, Start(p, r) \/ Resume(p, r)
          PROVE  UNCHANGED <<pointers, cancelled, history>>
      BY <2>6 DEF Start, Resume, storeVars
    <2>7. CASE Open \/ RequestSave
      BY <2>1, <2>7 DEF Open, RequestSave, storeVars
    <2>8. ASSUME NEW snapshot \in saves, Save(snapshot) PROVE UNCHANGED <<pointers, cancelled, history>>
      BY <2>8 DEF Save, SaveView, storeVars
    <2>9. CASE UNCHANGED vars
      BY <2>1, <2>9 DEF vars, storeVars
    <2> QED BY <1>2, <2>1, <2>2, <2>3, <2>4, <2>5, <2>6, <2>7, <2>8, <2>9 DEF Next
  <1>3. IInv /\ [Next]_vars => [History!Next]_History!vars
    BY <1>2
  <1> QED BY <1>1, <1>3, Invariance, PTL DEF Spec, OneHistory, History!Spec
=============================================================================
