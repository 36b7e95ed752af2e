-------------------------- MODULE GenerationStore --------------------------
(***************************************************************************)
(* The generations of the story map as the project database keeps them     *)
(* (durable_repository.py): immutable descriptors, immutable reader pages  *)
(* and selections, one row of pointers, one saved view, and the            *)
(* cancellation flag of each run that the pointer updates read.            *)
(*                                                                         *)
(* A generation identity is a hash of the run, its plan, authority and     *)
(* coverage, and a kind; plan, authority and coverage are fixed for a run, *)
(* so an identity is modelled by its run and kind.  What else a descriptor *)
(* holds (the baseline and the prose) does not enter the identity.         *)
(*                                                                         *)
(* An operator with a primed conjunct is one transaction; the operator     *)
(* beside it says when that transaction raises instead.                    *)
(***************************************************************************)
EXTENDS Integers, FiniteSets

CONSTANTS
    Runs,           \* prepared workflow runs
    Timelines,      \* distinguishable answers of the editorial provider
    Rollups,        \* rollup jobs a synthesis run may register
    Pages           \* reader pages of a generation

VARIABLES
    generations,    \* story_map_v2_generations: the descriptor of each identity
    pages,          \* how many reader pages each identity has
    pointers,       \* story_map_v2_generation_pointers
    cancelled,      \* runs with cancel_requested
    view            \* story_map_v2_view_state of the one view key

storeVars == <<generations, pages, pointers, cancelled, view>>

-----------------------------------------------------------------------------
(* Identities and descriptors. *)

NoRun == "no-run"
NoTimeline == "no-timeline"

ASSUME GenerationAssumption ==
    /\ Rollups \in Nat
    /\ Pages \in Nat \ {0}
    /\ NoRun \notin Runs
    /\ Timelines \cap {NoTimeline, "none", "build", "complete"} = {}

NoGeneration == [run |-> NoRun, kind |-> "none"]
NoDescriptor == [base |-> NoGeneration, mapping |-> "absent",
                 timeline |-> NoTimeline, rollups |-> {}]

Build(r) == [run |-> r, kind |-> "build"]
\* _generation_id: only the timeline's identity enters it, not the rest of the prose.
Complete(r, timeline) ==
    [run |-> r, kind |-> IF timeline = NoTimeline THEN "complete" ELSE timeline]
Identities == {Build(r) : r \in Runs}
                \cup {Complete(r, t) : r \in Runs, t \in Timelines \cup {NoTimeline}}
Descriptors ==
    [base: Identities \cup {NoGeneration}, mapping: {"indeterminate", "full"},
     timeline: Timelines \cup {NoTimeline}, rollups: SUBSET (1..Rollups)]

Stored(g) == generations[g] # NoDescriptor
\* GenerationArtifact and _generation_lineage: run, plan, authority, coverage, baseline.
Lineage(g) == <<g.run, generations[g].base>>

StoreInit ==
    /\ generations = [g \in Identities |-> NoDescriptor]
    /\ pages = [g \in Identities |-> 0]
    /\ pointers = [complete |-> NoGeneration, active |-> NoGeneration, revision |-> 0]
    /\ cancelled = {}
    /\ view = [gen |-> NoGeneration, revision |-> 0]

-----------------------------------------------------------------------------
(* Transactions. *)

\* create_generation: a stored identity accepts the descriptor it has, no other.
Immutable(g, d) == Stored(g) /\ generations[g] # d
CreateGeneration(g, d) ==
    /\ ~Immutable(g, d)
    /\ generations' = [generations EXCEPT ![g] = d]
    /\ UNCHANGED <<pages, pointers, cancelled, view>>

\* store_section_page and store_selection, for the next page of the generation.
StorePage(g) ==
    /\ pages' = [pages EXCEPT ![g] = @ + 1]
    /\ UNCHANGED <<generations, pointers, cancelled, view>>

\* The comparison both pointer updates make.
PointersMoved(active, complete) ==
    pointers.active # active \/ pointers.complete # complete

\* set_active_generation
ActivationRefused(g, active, complete) ==
    g.run \in cancelled \/ PointersMoved(active, complete)
SetActive(g, active, complete) ==
    /\ ~ActivationRefused(g, active, complete)
    /\ pointers' = [pointers EXCEPT !.active = g]
    /\ UNCHANGED <<generations, pages, cancelled, view>>

\* publish_generation; an identity that is already current publishes nothing.
Current(g) == pointers.complete = g /\ pointers.active = NoGeneration
\* Faulty: the run's cancellation is left to the advisory preflight.
PublicationRefusedLate(g, active, complete) ==
    \/ Lineage(g) # Lineage(active)
    \/ ~Current(g) /\ PointersMoved(active, complete)
PublicationRefused(g, active, complete) ==
    \/ g.run \in cancelled
    \/ Lineage(g) # Lineage(active)
    \/ ~Current(g) /\ PointersMoved(active, complete)
Publish(g, active, complete) ==
    /\ ~PublicationRefused(g, active, complete)
    /\ ~Current(g)
    /\ pointers' = [complete |-> g, active |-> NoGeneration, revision |-> pointers.revision + 1]
    /\ UNCHANGED <<generations, pages, cancelled, view>>

\* cancel_run, of a run that is prepared or running.
CancelRun(r) ==
    /\ cancelled' = cancelled \cup {r}
    /\ UNCHANGED <<generations, pages, pointers, view>>

-----------------------------------------------------------------------------
(* Reading (DurableStoryMapReaderSource). *)

Readable == IF pointers.complete # NoGeneration THEN pointers.complete ELSE pointers.active
\* snapshot
Snapshot == [gen |-> Readable, revision |-> pointers.revision]

\* save_current_view_state
\* Faulty: the snapshot of the request is trusted (save_view_state).
ViewNeverRefused(snapshot) == FALSE
ViewRefused(snapshot) == snapshot # Snapshot
SaveView(snapshot) ==
    /\ ~ViewRefused(snapshot)
    /\ view' = snapshot
    /\ UNCHANGED <<generations, pages, pointers, cancelled>>
=============================================================================
