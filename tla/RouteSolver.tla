---------------------------- MODULE RouteSolver ----------------------------
(* The deterministic best-first search of the M12 route solver: a frontier *)
(* of partial routes, dominance among the retained ones, exact acceleration *)
(* of authorized loops, limits, and the claim made of the destination.     *)
(* Calls, scene occurrences and lanes other than the spine are left out.   *)
EXTENDS StoryGraph, SequencesExt

CONSTANTS
    Requests,   \* the requests [graph, limits] that may be made
    None

ASSUME RequestAssumption == \A r \in Requests : IsGraph(r.graph)

(* None is no edge and no limit.                                           *)
ASSUME NoneAssumption ==
    /\ \A r \in Requests : None \notin Edges(r.graph)
    /\ None \notin {"retained_states", "expanded_states", "frontier_states",
                    "prefix_records", "repetition_per_transition", "alternatives"}

(* DeterministicLimitProfile, the limit of accounting units left out.      *)
ASSUME LimitAssumption ==
    \A r \in Requests :
        r.limits \in [repetition : Nat \ {0}, alternatives : Nat \ {0}, expanded : Nat \ {0},
                     retained : Nat \ {0}, frontier : Nat \ {0}, prefixes : Nat \ {0}]

VARIABLES
    graph,              \* what the request is about, its limits, and
    limits,
    phase,              \* "search", "edges", "stopped", "done", "cancelled"
    frontier,           \* partial routes still to be expanded
    retained,           \* what dominance compares them with
    candidates,         \* routes that arrived
    current, options,   \* the partial route being expanded, the ways still to go on from it
    prefixes, expanded, \* how many route steps and expansions there were
    limit,              \* the first limit that cut the search, or None
    alternativeLimit,   \* a partial route was dropped for want of room
    contradiction,      \* a gate on the way to the target refused
    result

request == <<graph, limits>>
vars == <<request, phase, frontier, retained, candidates, current, options,
          prefixes, expanded, limit, alternativeLimit, contradiction, result>>

Goal == limits.alternatives + 1
InitFact == 0    \* the initialization fact of the start node

-----------------------------------------------------------------------------
(* Value sources: the effects a value comes from, in the order of their    *)
(* first use, how often each was applied, and whether the request's entry  *)
(* precondition is among them.                                             *)
NoSource == [order |-> <<>>, count |-> <<>>, last |-> None, entry |-> FALSE]

FreshSource(fact) ==
    [order |-> <<fact>>, count |-> [f \in {fact} |-> 1], last |-> fact, entry |-> FALSE]

\* Faulty: an accelerated loop counts as one application.
AppliedOnce(source, fact, times) ==
    LET seen == fact \in ToSet(source.order)
    IN  [source EXCEPT
            !.order = IF seen THEN @ ELSE Append(@, fact),
            !.count = [f \in DOMAIN @ \cup {fact} |->
                        (IF f \in DOMAIN @ THEN @[f] ELSE 0) + (IF f = fact THEN 1 ELSE 0)],
            !.last = fact]

Applied(source, fact, times) ==
    LET seen == fact \in ToSet(source.order)
    IN  [source EXCEPT
            !.order = IF seen THEN @ ELSE Append(@, fact),
            !.count = [f \in DOMAIN @ \cup {fact} |->
                        (IF f \in DOMAIN @ THEN @[f] ELSE 0)
                            + (IF f = fact THEN times ELSE 0)],
            !.last = fact]

StartState(g) ==
    LET known == Relevant(g) /\ g.init.kind # "unknown"
    IN  [node |-> Root,
         value |-> IF known THEN g.init.value ELSE Unknown,
         source |-> CASE known /\ g.init.kind = "known" -> FreshSource(InitFact)
                      [] known /\ g.init.kind = "entry" -> [NoSource EXCEPT !.entry = TRUE]
                      [] OTHER -> NoSource,
         constraint |-> IF known
                        THEN ExactConstraint(g.init.value,
                                IF g.init.kind = "known" THEN {InitFact} ELSE {})
                        ELSE NoConstraint,
         path |-> <<>>, requirements |-> <<>>, warnings |-> <<>>,
         loops |-> 0, suppressed |-> None, id |-> 0]

(* _apply_effect *)
WithEffect(s, effect, fact) ==
    LET exact(v, source) ==
            [s EXCEPT !.value = v, !.source = source,
                      !.constraint = ExactConstraint(v, ToSet(source.order))]
        unknown == [s EXCEPT !.value = Unknown, !.source = NoSource,
                             !.constraint = NoConstraint]
        warned(t) == [t EXCEPT !.warnings = Append(@, <<"effect", fact>>)]
    IN  IF effect.op = "none" \/ ~Relevant(graph) THEN s
        ELSE
          CASE effect.op = "set" -> exact(effect.value, FreshSource(fact))
          [] effect.op = "add" ->
                IF s.value = Unknown THEN unknown
                ELSE exact(s.value + effect.value, Applied(s.source, fact, 1))
          [] effect.op = "other" -> warned(unknown)

Unique(s) ==
    LET kept[i \in 0..Len(s)] ==
            IF i = 0 THEN <<>>
            ELSE IF s[i] \in ToSet(kept[i - 1]) THEN kept[i - 1] ELSE Append(kept[i - 1], s[i])
    IN  kept[Len(s)]

Arrived(s) ==
    [WithEffect(s, graph.arrive[s.node], s.node) EXCEPT !.warnings = Unique(@)]

-----------------------------------------------------------------------------
(* Ranks: fewer warnings, unknown requirements, entry preconditions, loops, *)
(* scenes, edges; the rest breaks ties.                                    *)
LexLess(a, b) ==
    \E i \in DOMAIN a \cap DOMAIN b : a[i] < b[i] /\ \A j \in 1..(i - 1) : a[j] = b[j]

PathEdges(s) == [i \in DOMAIN s.path |-> s.path[i].edge]
PathNodes(s) == <<Root>> \o [i \in DOMAIN s.path |-> graph.edges[s.path[i].edge].dst]

WithoutRepeats(seq) ==
    FoldLeft(LAMBDA kept, x : IF kept # <<>> /\ Last(kept) = x THEN kept ELSE Append(kept, x),
             <<>>, seq)

Scenes(s) == WithoutRepeats([i \in DOMAIN PathNodes(s) |-> graph.scene[PathNodes(s)[i]]])

ChoiceEdges(s) == SelectSeq(PathEdges(s), LAMBDA e : graph.edges[e].src \in graph.choice)
MaterialEdges(s) ==
    SelectSeq(ChoiceEdges(s), LAMBDA e : Cardinality(From(graph, graph.edges[e].src)) > 1)

Costs(s) ==
    LET from(source) == {r \in ToSet(s.requirements) : r.source = source}
    IN  <<Len(s.warnings), Cardinality(from("unknown")),
          IF from("entry") = {} THEN 0 ELSE 1,
          s.loops, Len(Scenes(s)), Len(s.path)>>

(* Every scene is of the spine lane, which the first step enters.          *)
LanesEntered(s) == IF s.path = <<>> THEN 0 ELSE 1

PartialRank(s) ==
    SubSeq(Costs(s), 1, 3) \o <<LanesEntered(s)>> \o SubSeq(Costs(s), 4, 6) \o <<s.id>>

StateKey(s) ==
    <<s.node, s.value, s.constraint, s.source, s.requirements, s.warnings,
      LanesEntered(s), s.suppressed>>
PrefixSignature(s) == <<Scenes(s), MaterialEdges(s)>>

(* record_candidates: the best route of each visible signature is kept.    *)
Candidate(s) ==
    [signature |-> <<Scenes(s), WithoutRepeats(ChoiceEdges(s)),
                     [i \in DOMAIN s.requirements |->
                        <<s.requirements[i].gate, s.requirements[i].source>>]>>,
     rank |-> Costs(s) \o PathEdges(s),
     path |-> PathEdges(s),
     requirements |-> s.requirements,
     warnings |-> s.warnings]

WithCandidate(all, s) ==
    LET new == Candidate(s)
        prior == {c \in all : c.signature = new.signature}
    IN  IF \E c \in prior : ~LexLess(new.rank, c.rank)
        THEN all ELSE (all \ prior) \cup {new}

-----------------------------------------------------------------------------
(* _exact_loop_acceleration of the loop anchored at the node of s.         *)
Write(fact, effect) ==
    IF effect.op = "none" THEN <<>> ELSE <<[fact |-> fact, effect |-> effect]>>

WritesOver(e) ==
    Write(e, graph.edges[e].effect)
        \o Write(graph.edges[e].dst, graph.arrive[graph.edges[e].dst])

CycleEffects(cycle) ==
    LET written[i \in 0..Len(cycle)] ==
            IF i = 0 THEN <<>> ELSE written[i - 1] \o WritesOver(cycle[i])
    IN  written[Len(cycle)]

(* What the first n edges of the cycle add to the value.                   *)
Change(effect) == IF effect.op = "none" THEN 0 ELSE effect.value

DeltaOf(cycle, n) ==
    LET sum[i \in 0..Len(cycle)] ==
            IF i = 0 THEN 0
            ELSE sum[i - 1] + Change(graph.edges[cycle[i]].effect)
                            + Change(graph.arrive[graph.edges[cycle[i]].dst])
    IN  sum[n]

Delta(cycle) == DeltaOf(cycle, Len(cycle))

(* The exits that stop the loop: [edge, phase, repetitions, emitted].      *)
StoppingExits(s, cycle) ==
    LET phaseOf(e) == CHOOSE i \in DOMAIN cycle :
                        graph.edges[cycle[i]].src = graph.edges[e].src
        valueAt(e) == s.value + DeltaOf(cycle, phaseOf(e) - 1)
        terms(e) == graph.edges[e].gate.terms
        needed(e) == {MinimumRepetitions(terms(e)[i], valueAt(e), Delta(cycle)) :
                        i \in DOMAIN terms(e)}
        exits == {e \in Edges(graph) \ ToSet(cycle) :
                    /\ \E i \in DOMAIN cycle : graph.edges[e].src = graph.edges[cycle[i]].src
                    /\ graph.edges[e].dst \in TargetCone(graph)
                    /\ graph.edges[e].resolved
                    /\ graph.edges[e].gate.shape = "and"}
        stops(e, n) ==
            /\ ~GateHolds(graph.edges[e].gate, valueAt(e))
            /\ {} \notin needed(e)
            /\ \A m \in UNION needed(e) : m <= n
            /\ n >= 1
            /\ GateHolds(graph.edges[e].gate, valueAt(e) + Delta(cycle) * n)
    IN  UNION {{[edge |-> e, phase |-> phaseOf(e), repetitions |-> n,
                 emitted |-> n * Len(cycle) + phaseOf(e) - 1] :
                    n \in {m \in UNION needed(e) : stops(e, m)}} : e \in exits}

EarliestExits(exits) ==
    {x \in exits : \A y \in exits : ~LexLess(<<y.emitted, y.edge>>, <<x.emitted, x.edge>>)}

(* A set of at most one acceleration [cycle, repetitions, suppressed].     *)
Acceleration(s) ==
    LET cycle == StructuralCycle(graph, s.node)
        written == UNION {{graph.edges[cycle[i]].effect, graph.arrive[graph.edges[cycle[i]].dst]} :
                            i \in DOMAIN cycle}
        writes == written \ {NoEffect}
        eligible ==
            /\ cycle # <<>>
            /\ s.node \in graph.loops
            /\ \A i \in DOMAIN cycle : graph.edges[cycle[i]].gate = NoGate
            /\ writes # {}
            /\ \A effect \in writes : effect.op = "add"
            /\ s.value # Unknown
    IN  IF ~eligible THEN {}
        ELSE {[cycle |-> cycle, repetitions |-> exit.repetitions,
               suppressed |-> cycle[exit.phase]] : exit \in EarliestExits(StoppingExits(s, cycle))}

(* _traverse_accelerated_loop: the cycle, `repetitions` times over.        *)
Laps(cycle, n) ==
    [k \in 1..(n * Len(cycle)) |->
        [edge |-> cycle[((k - 1) % Len(cycle)) + 1], group |-> Head(cycle)]]

AllApplied(source, writes, times) ==
    LET applied[i \in 0..Len(writes)] ==
            IF i = 0 THEN source ELSE Applied(applied[i - 1], writes[i].fact, times)
    IN  applied[Len(writes)]

Accelerated(s, a) ==
    LET source == AllApplied(s.source, CycleEffects(a.cycle), a.repetitions)
        value == s.value + Delta(a.cycle) * a.repetitions
    IN  [s EXCEPT !.value = value, !.source = source,
                  !.constraint = ExactConstraint(value, ToSet(source.order)),
                  !.path = @ \o Laps(a.cycle, a.repetitions),
                  !.loops = @ + a.repetitions - 1,
                  !.suppressed = a.suppressed,
                  !.id = prefixes + Len(a.cycle) * a.repetitions - 1]

-----------------------------------------------------------------------------
(* _traverse_edge *)
RepetitionsOf(s, e) == Cardinality({i \in DOMAIN s.path : s.path[i].edge = e})

(* Edges of a loop that was accelerated and whose suppressed edge is still *)
(* ahead may exceed the repetition limit.                                  *)
ContinuesAcceleration(s, e) ==
    \E i, j \in DOMAIN s.path :
        /\ s.path[i].group # None /\ s.path[i].group = s.path[j].group
        /\ s.path[i].edge = s.suppressed /\ s.path[j].edge = e

OverRepetition(s, e) ==
    RepetitionsOf(s, e) + 1 > limits.repetition /\ ~ContinuesAcceleration(s, e)

\* Faulty: only the collected constraints refuse, which know no disjunction.
GateRefusesByConstraint(s, e) ==
    ContradictsAny(s.constraint, SupportedTerms(graph.edges[e].gate), e)

GateRefuses(s, e) ==
    LET gate == graph.edges[e].gate
    IN  \/ ContradictsAny(s.constraint, SupportedTerms(gate), e)
        \/ s.value # Unknown /\ ~GateHolds(gate, s.value)

(* A conjunction attributes each of its terms, a disjunction one that holds. *)
Attributions(s, e) ==
    LET gate == graph.edges[e].gate
        holding == {i \in DOMAIN gate.terms :
                        s.value # Unknown /\ TermHolds(gate.terms[i], s.value)}
        origin == IF s.value = Unknown THEN "unknown"
                  ELSE IF s.source.entry THEN "entry"
                  ELSE IF s.source.last # None /\ s.source.count[s.source.last] > 1
                  THEN "repeated" ELSE "proven"
        of(i) == [gate |-> e, term |-> i, source |-> origin,
                  order |-> IF origin = "unknown" THEN <<>> ELSE s.source.order,
                  count |-> IF origin = "unknown" THEN <<>> ELSE s.source.count]
    IN  CASE gate.shape = "none" -> <<>>
          [] gate.shape = "and" -> [i \in DOMAIN gate.terms |-> of(i)]
          [] gate.shape = "or" ->
                <<of(IF holding = {} THEN 0
                     ELSE CHOOSE i \in holding : \A j \in holding : i <= j)>>

Passed(s, e) ==
    LET edge == graph.edges[e]
        after == [s EXCEPT
            !.constraint = AllNarrowed(@, SupportedTerms(edge.gate), e),
            !.requirements = Unique(@ \o Attributions(s, e)),
            !.warnings = IF edge.gate # NoGate /\ s.value = Unknown
                         THEN Append(@, <<"gate", edge.gate>>) ELSE @]
        written == WithEffect(after, edge.effect, e)
    IN  [written EXCEPT
            !.node = edge.dst,
            !.warnings = Unique(IF edge.resolved THEN @ ELSE Append(@, <<"edge", e>>)),
            !.path = Append(@, [edge |-> e, group |-> None]),
            !.loops = @ + (IF RepetitionsOf(s, e) > 0 THEN 1 ELSE 0),
            !.suppressed = IF @ # None /\ graph.edges[@].src = edge.src THEN None ELSE @,
            !.id = prefixes]

-----------------------------------------------------------------------------
Init ==
    /\ \E r \in Requests : graph = r.graph /\ limits = r.limits
    /\ phase = "search"
    /\ frontier = {StartState(graph)}
    /\ retained = {} /\ candidates = {}
    /\ current = StartState(graph) /\ options = {}
    /\ prefixes = 1 /\ expanded = 0
    /\ limit = None /\ alternativeLimit = FALSE
    /\ contradiction = FALSE /\ result = None

IsBest(s) == \A t \in frontier : ~LexLess(PartialRank(t), PartialRank(s))

(* Retained partial routes that lead to the same state of the story.       *)
Bucket(s) == {r \in retained : r.key = StateKey(s)}
SameRoute(s) == {r \in Bucket(s) : r.signature = PrefixSignature(s)}
BucketFull(s) == SameRoute(s) = {} /\ Cardinality(Bucket(s)) >= Goal
Worst(s) ==
    CHOOSE r \in Bucket(s) : \A q \in Bucket(s) : r = q \/ LexLess(q.rank, r.rank)

Dominated(s) ==
    \/ \E r \in SameRoute(s) : ~LexLess(PartialRank(s), r.rank)
    \/ BucketFull(s) /\ LexLess(Worst(s).rank, PartialRank(s))

WithRetained(s) ==
    LET replaced == IF BucketFull(s) THEN {Worst(s)} ELSE SameRoute(s)
    IN  (retained \ replaced) \cup
            {[key |-> StateKey(s), rank |-> PartialRank(s), signature |-> PrefixSignature(s)]}

(* The ways on from s: [edge, jump]; an accelerated edge and the one       *)
(* that a stopped acceleration suppresses are not taken plainly.           *)
OptionsFrom(s) ==
    LET accelerations == Acceleration(s)
        plain == {e \in From(graph, s.node) :
                    /\ graph.edges[e].dst \in TargetCone(graph)
                    /\ e # s.suppressed
                    /\ \A a \in accelerations : e # Head(a.cycle)}
    IN  [edge : plain, jump : {{}}]
            \cup {[edge |-> Head(a.cycle), jump |-> {a}] : a \in accelerations}

(* A partial route no better than those retained for its state.            *)
Discard(best) ==
    /\ phase = "search" /\ IsBest(best) /\ Dominated(best)
    /\ frontier' = frontier \ {best}
    /\ alternativeLimit' = (alternativeLimit \/ BucketFull(best))
    /\ UNCHANGED <<request, phase, retained, candidates, current, options,
                   prefixes, expanded, limit, contradiction, result>>

Expand(best) ==
    /\ phase = "search" /\ IsBest(best) /\ ~Dominated(best)
    /\ frontier' = frontier \ {best}
    /\ alternativeLimit' = (alternativeLimit \/ BucketFull(best))
    /\ retained' = WithRetained(best)
    /\ LET s == Arrived(best)
           full == Cardinality(retained') > limits.retained
           last == expanded + 1 > limits.expanded
       IN  /\ expanded' = IF full THEN expanded ELSE expanded + 1
           /\ limit' = CASE full -> "retained_states" [] ~full /\ last -> "expanded_states"
                         [] OTHER -> limit
           /\ candidates' = IF ~full /\ ~last /\ s.node = Target
                            THEN WithCandidate(candidates, s) ELSE candidates
           /\ current' = s
           /\ options' = IF full \/ last \/ s.node = Target THEN {} ELSE OptionsFrom(s)
           /\ phase' = IF full \/ last THEN "stopped"
                       ELSE IF options' = {} THEN "search" ELSE "edges"
    /\ UNCHANGED <<request, prefixes, contradiction, result>>

(* The ways on are gone in the order of their edges.                       *)
IsNext(way) == \A other \in options : ~(other.edge < way.edge)

Done(way) ==
    /\ options' = options \ {way}
    /\ phase' = IF options' = {} THEN "search" ELSE "edges"

(* The new partial route is a candidate on arrival, else it waits in the   *)
(* frontier; a limit it exceeds stops the search.                          *)
Advance(way, s, records) ==
    /\ prefixes' = prefixes + records
    /\ candidates' = IF s.node = Target THEN WithCandidate(candidates, s) ELSE candidates
    /\ frontier' = IF s.node = Target \/ prefixes' > limits.prefixes
                   THEN frontier ELSE frontier \cup {s}
    /\ LET stop == CASE prefixes' > limits.prefixes -> "prefix_records"
                      [] prefixes' <= limits.prefixes
                            /\ Cardinality(frontier') > limits.frontier -> "frontier_states"
                      [] OTHER -> None
       IN  IF stop = None
           THEN limit' = limit /\ Done(way)
           ELSE limit' = stop /\ phase' = "stopped" /\ options' = {}
    /\ UNCHANGED <<request, retained, current, expanded, alternativeLimit,
                   contradiction, result>>

\* Faulty: the limit that cut a way is forgotten.
BlockedSilently(way, bounded, contradicts) ==
    /\ limit' = limit
    /\ contradiction' = (contradiction \/ contradicts)
    /\ Done(way)
    /\ UNCHANGED <<request, frontier, retained, candidates, current, prefixes,
                   expanded, alternativeLimit, result>>

(* A bounded limit lets the search go on and is remembered, the first one. *)
Blocked(way, bounded, contradicts) ==
    /\ limit' = IF limit = None THEN bounded ELSE limit
    /\ contradiction' = (contradiction \/ contradicts)
    /\ Done(way)
    /\ UNCHANGED <<request, frontier, retained, candidates, current, prefixes,
                   expanded, alternativeLimit, result>>

TakeEdge(way) ==
    /\ phase = "edges" /\ IsNext(way) /\ way.jump = {}
    /\ LET e == way.edge
       IN  \/ OverRepetition(current, e) /\ Blocked(way, "repetition_per_transition", FALSE)
           \/ /\ ~OverRepetition(current, e) /\ GateRefuses(current, e)
              /\ LET decided == ReverseNodes(graph, ResolvedEdges(graph))
                 IN  Blocked(way, None, graph.edges[e].src \in decided
                                            /\ graph.edges[e].dst \in decided)
           \/ /\ ~OverRepetition(current, e) /\ ~GateRefuses(current, e)
              /\ Advance(way, Passed(current, e), 1)

RepeatLoop(way) ==
    /\ phase = "edges" /\ IsNext(way)
    /\ \E a \in way.jump :
        LET needed == Len(a.cycle) * a.repetitions
        IN  \/ prefixes + needed > limits.prefixes /\ Blocked(way, "prefix_records", FALSE)
            \/ /\ prefixes + needed <= limits.prefixes
               /\ Advance(way, Accelerated(current, a), needed)

(* The claim: what is recommended, or what is said of a missing route.     *)
Recommendable(all) == {c \in all : \A d \in all : ~LexLess(d.rank, c.rank)}

StatusOf(c) ==
    LET sources == {r.source : r \in ToSet(c.requirements)}
    IN  IF c.warnings # <<>> \/ "unknown" \in sources THEN "best_known"
        ELSE IF "entry" \in sources THEN "prerequisites" ELSE "confirmed"

StatusOfNone(exhaustive) ==
    IF ~exhaustive THEN "incomplete"
    ELSE IF ~ClosedWorld(graph) THEN "dynamic"
    ELSE IF ~StructurallyReachable(graph) THEN "no_static_route"
    ELSE IF contradiction THEN "state_infeasible" ELSE "dynamic"

Finish ==
    /\ phase = "stopped" \/ (phase = "search" /\ frontier = {})
    /\ LET hit == CASE limit # None -> limit
                    [] limit = None /\ (alternativeLimit \/ Cardinality(candidates) > Goal)
                        -> "alternatives"
                    [] OTHER -> None
           exhaustive == hit = None /\ frontier = {}
           answer(status, recommended) ==
                [status |-> IF hit # None THEN "incomplete" ELSE status,
                 complete |-> exhaustive, limit |-> hit, recommended |-> recommended]
       IN  \/ candidates = {} /\ result' = answer(StatusOfNone(exhaustive), {})
           \/ \E c \in Recommendable(candidates) : result' = answer(StatusOf(c), {c})
    /\ phase' = "done"
    /\ UNCHANGED <<request, frontier, retained, candidates, current, options,
                   prefixes, expanded, limit, alternativeLimit, contradiction>>

(* The caller's cancellation is asked for before each partial route.       *)
Cancel ==
    /\ phase = "search" /\ frontier # {}
    /\ phase' = "cancelled"
    /\ UNCHANGED <<request, frontier, retained, candidates, current, options, prefixes,
                   expanded, limit, alternativeLimit, contradiction, result>>

Next ==
    \/ \E s \in frontier : Discard(s) \/ Expand(s)
    \/ \E way \in options : TakeEdge(way) \/ RepeatLoop(way)
    \/ Finish \/ Cancel

Spec == Init /\ [][Next]_vars

-----------------------------------------------------------------------------
Answered == phase = "done"

(* "This route is impossible" is only ever said of a destination that no   *)
(* play of the story reaches, although the search prunes, stops at loops   *)
(* and skips through them.                                                 *)
NegativeIsTrue ==
    Answered /\ result.status \in {"state_infeasible", "no_static_route"}
        => ~RouteExists(graph)

(* A confirmed route can be played edge by edge from every start value,    *)
(* the accelerated laps of a loop included.                                *)
ConfirmedIsWalkable ==
    Answered /\ result.status = "confirmed"
        => \A c \in result.recommended : Walkable(graph, c.path)

(* The repetitions a requirement reports are those the route performs      *)
(* before it passes the gate, since the variable was last assigned.        *)
WritesOn(path) == Write(Root, graph.arrive[Root]) \o CycleEffects(path)

Performed(path, fact) ==
    LET writes == WritesOn(path)
        kept == {i \in DOMAIN writes :
                    \A j \in DOMAIN writes : writes[j].effect.op = "set" => j <= i}
    IN  Cardinality({i \in kept : writes[i].fact = fact})

RepetitionsAreReal ==
    Answered => \A c \in result.recommended : \A r \in ToSet(c.requirements) :
        \E i \in DOMAIN c.path :
            /\ c.path[i] = r.gate
            /\ \A f \in ToSet(r.order) \ {InitFact} :
                    r.count[f] = Performed(SubSeq(c.path, 1, i - 1), f)

(* A complete answer recommends no route worse than a playable one that    *)
(* takes no edge twice, whatever dominance and loop acceleration pruned.   *)
(* It may where partial routes through the same scenes differ in what they *)
(* repeat later (MCRouteRepeats).                                          *)
CostOfDirect(path) ==
    LET nodes == <<Root>> \o [i \in DOMAIN path |-> graph.edges[path[i]].dst]
    IN  <<0, Len(WithoutRepeats([i \in DOMAIN nodes |-> graph.scene[nodes[i]]])), Len(path)>>

NoDirectRouteIsBetter ==
    Answered /\ result.status = "confirmed"
        => \A c \in result.recommended, p \in DirectRoutes(graph) :
            ~LexLess(CostOfDirect(p), SubSeq(c.rank, 4, 6))
=============================================================================
