------------------------- MODULE OrganizationStore -------------------------
(***************************************************************************)
(* What the guided organization (M07) keeps in the project database:       *)
(* m07_model.py, the checkpoint sink of organization/persistence.py above  *)
(* it and the organization cache.  One row for each selected route scope,  *)
(* the provider attempts and the correction that hang off a row (they are  *)
(* deleted with it), immutable cached results, and assemblies: drafts of   *)
(* the whole organization that the user applies or discards.               *)
(*                                                                         *)
(* An assembly is identified by the hash of its payload, so it is modelled *)
(* by the payload.  Operators ending in a primed conjunct are one          *)
(* transaction each; the others say when the transaction refuses.          *)
(***************************************************************************)
EXTENDS Integers, FiniteSets, FiniteSetsExt

CONSTANTS
    Scopes,         \* route scopes, by ordinal
    Generations,    \* hashes of the authoritative route map
    Identities,     \* normalized cache identities
    Identity,       \* the identity of each scope under each generation
    Texts           \* corrections a reviewer may write

ASSUME StoreAssumption ==
    /\ Scopes \subseteq Nat
    /\ IsFiniteSet(Scopes)
    /\ Scopes # {}
    /\ Identity \in [Generations -> [Scopes -> Identities]]

VARIABLES
    rows,           \* m07_scope_checkpoints
    attempts,       \* ordinals in m07_provider_attempts, for each scope
    correction,     \* m07_scope_overrides
    cache,          \* identities with a stored result
    assemblies      \* m07_assemblies

storeVars == <<rows, attempts, correction, cache, assemblies>>

-----------------------------------------------------------------------------
(* Rows and the state machine of their status. *)

NoGeneration == "no-generation"
NoInput == "no-input"
NoText == "no-text"
Statuses == {"pending", "cached", "in_flight", "validated", "fallback", "failed", "cancelled"}
Outcomes == {"validated", "fallback", "cancelled"}

\* The input hash of a deterministic scope, as a refresh registers it; a run
\* registers the cache identity instead.
Technical(g, s) == <<"technical", Identity[g][s]>>

NoRow == [status |-> "absent", gen |-> NoGeneration, input |-> NoInput,
          result |-> "none", calls |-> 0]
Exists(s) == rows[s].status # "absent"
ScopesOf(g) == {s \in Scopes : Exists(s) /\ rows[s].gen = g}

\* _TRANSITIONS; a missing row has none (KeyError).
Transitions(status) ==
    CASE status = "absent" -> {}
      [] status = "pending" -> {"cached", "in_flight", "cancelled"}
      [] status = "cached" -> {"validated", "fallback", "failed"}
      [] status = "in_flight" -> {"validated", "fallback", "failed", "cancelled"}
      [] status = "validated" -> {"validated"}
      [] status = "fallback" -> {"cached", "in_flight", "fallback"}
      [] status \in {"failed", "cancelled"} -> {"cached", "in_flight", "cancelled"}

Allowed(s, status) == status \in Transitions(rows[s].status)

\* transition: the row takes the status and the result: the answer to an identity, the
\* deterministic fallback, or none.
Transition(s, status, result) ==
    rows' = [rows EXCEPT ![s].status = status, ![s].result = result]
Results == Identities \cup {"none", "technical"}

\* PersistentCheckpointSink.event and .publish do nothing on a row that has the status.
Settled(s, status) == rows[s].status = status /\ status # "validated"
Publishable(s, status) == Settled(s, status) \/ Allowed(s, status)
Publish(s, status, result) ==
    IF Settled(s, status) THEN UNCHANGED rows ELSE Transition(s, status, result)

-----------------------------------------------------------------------------
(* register_scopes *)

Draft == "draft"
Live(a) == a.status # "superseded"
Supersede(dead) ==
    {IF a \in dead THEN [a EXCEPT !.status = "superseded"] ELSE a : a \in assemblies}

NoCorrection == [gen |-> NoGeneration, text |-> NoText]

\* A validated row of the same input is kept; every other starts again.
Reusable(s, input) == rows[s].status = "validated" /\ rows[s].input = input[s]
RegisteredRow(g, s, input) ==
    IF Reusable(s, input) THEN [rows[s] EXCEPT !.gen = g]
    ELSE [NoRow EXCEPT !.status = "pending", !.gen = g, !.input = input[s]]

\* Faulty: what was applied outlives the generation it was made for.
OutdatedDrafts(g) ==
    IF \E s \in Scopes : Exists(s) /\ rows[s].gen # g
    THEN {a \in assemblies : a.payload.gen # g /\ a.status = Draft} ELSE {}

\* The assemblies of other generations, once a row is of another generation.
Outdated(g) ==
    IF \E s \in Scopes : Exists(s) /\ rows[s].gen # g
    THEN {a \in assemblies : a.payload.gen # g} ELSE {}

\* Scopes not selected lose their row, and with it attempts and correction.
RegisteredRows(g, sel, input) ==
    [s \in Scopes |-> IF s \in sel THEN RegisteredRow(g, s, input) ELSE NoRow]
KeptAttempts(sel) == [s \in Scopes |-> IF s \in sel THEN attempts[s] ELSE {}]
KeptCorrections(sel) == [s \in Scopes |-> IF s \in sel THEN correction[s] ELSE NoCorrection]

RegisterScopes(g, sel, input) ==
    /\ rows' = RegisteredRows(g, sel, input)
    /\ attempts' = KeptAttempts(sel)
    /\ correction' = KeptCorrections(sel)
    /\ assemblies' = Supersede(Outdated(g))

-----------------------------------------------------------------------------
(* Attempts and cached results. *)

\* The attempt row is refused without a scope row (foreign key) or for a used ordinal.
AttemptAccepted(s, ordinal) == Exists(s) /\ ordinal \notin attempts[s]
RecordAttempt(s, ordinal) ==
    IF AttemptAccepted(s, ordinal)
    THEN /\ attempts' = [attempts EXCEPT ![s] = @ \cup {ordinal}]
         /\ rows' = [rows EXCEPT ![s].calls = @ + 1]
    ELSE UNCHANGED <<attempts, rows>>

\* The first ordinal a sink uses: past the counter of the row and past every stored one.
NextOrdinal(s) == Max({rows[s].calls} \cup {ordinal + 1 : ordinal \in attempts[s]})

-----------------------------------------------------------------------------
(* Assemblies and corrections. *)

\* Overrides of another generation are ignored.
TextOf(g, s) == IF correction[s].gen = g THEN correction[s].text ELSE NoText

PayloadOf(g) ==
    [gen |-> g,
     items |-> [s \in ScopesOf(g) |-> [status |-> rows[s].status, result |-> rows[s].result,
                                       input |-> rows[s].input, text |-> TextOf(g, s)]],
     calls |-> MapThenSumSet(LAMBDA s : rows[s].calls, ScopesOf(g))]

\* assemble: the same payload is the same assembly, whose status is not touched.
Assemblable(g) == ScopesOf(g) # {}
Assemble(g) ==
    IF \E a \in assemblies : a.payload = PayloadOf(g) THEN UNCHANGED assemblies
    ELSE assemblies' = assemblies \cup {[payload |-> PayloadOf(g), status |-> Draft]}

\* validate_persisted_assembly: every validated item belongs to a registered scope.
Readable(a, g) ==
    /\ a.payload.gen = g
    /\ Live(a)
    /\ \A s \in DOMAIN a.payload.items :
           a.payload.items[s].status = "validated" => s \in ScopesOf(g)

\* What an applied assembly replaces.
Replaced(a, g) == {b \in assemblies \ {a} : b.payload.gen = g /\ b.status = "applied"}
ApplyAssembly(a, g) ==
    assemblies' = (Supersede(Replaced(a, g)) \ {a}) \cup {[a EXCEPT !.status = "applied"]}

DiscardAssembly(a) == assemblies' = Supersede({a})

SetCorrection(s, g, text) ==
    correction' = [correction EXCEPT ![s] = [gen |-> g, text |-> text]]

-----------------------------------------------------------------------------
StoreInit ==
    /\ rows = [s \in Scopes |-> NoRow]
    /\ attempts = [s \in Scopes |-> {}]
    /\ correction = [s \in Scopes |-> NoCorrection]
    /\ cache = {}
    /\ assemblies = {}
=============================================================================
