----------------------------- MODULE MapHistory -----------------------------
(***************************************************************************)
(* What publication promises: the story map has one history.  Maps are     *)
(* published one after another, each by a run of its own that was not      *)
(* cancelled, each replacing the map it was compared with; the revision    *)
(* counts them, and what a reader is shown changes only when the revision  *)
(* does, or when a first build appears where there was nothing to read.    *)
(***************************************************************************)
EXTENDS Integers, Sequences

CONSTANTS
    Runs,           \* runs that may publish
    Maps,           \* generations: records with the run they belong to
    NoMap           \* nothing to read

VARIABLES
    history,        \* what was published: each map and the map it replaced
    revision,       \* the number a reader quotes
    shown,          \* the map a reader is given
    withdrawn       \* runs whose cancellation is stored

vars == <<history, revision, shown, withdrawn>>

Last == IF history = <<>> THEN NoMap ELSE history[Len(history)].map
Published == {history[i].map.run : i \in 1..Len(history)}

Init ==
    /\ history = <<>>
    /\ revision = 0
    /\ shown = NoMap
    /\ withdrawn = {}

\* A first build is shown while there is no complete map.
Preview(g) ==
    /\ history = <<>>
    /\ shown = NoMap
    /\ g.run \notin withdrawn
    /\ shown' = g
    /\ UNCHANGED <<history, revision, withdrawn>>

Publish(g) ==
    /\ g.run \notin withdrawn
    /\ g.run \notin Published
    /\ history' = Append(history, [map |-> g, replaces |-> Last])
    /\ revision' = revision + 1
    /\ shown' = g
    /\ UNCHANGED withdrawn

Withdraw(r) ==
    /\ withdrawn' = withdrawn \cup {r}
    /\ UNCHANGED <<history, revision, shown>>

Next ==
    \/ \E g \in Maps : Preview(g) \/ Publish(g)
    \/ \E r \in Runs : Withdraw(r)

Spec == Init /\ [][Next]_vars
=============================================================================
