----------------------------- MODULE StoryGraph -----------------------------
(* A canonical M10 graph with one story variable, as the route solver reads *)
(* it, and what the story it stands for can really do. A graph is a record *)
(*   edges  a function from edge ids to                                    *)
(*            [src, dst, gate, effect, loop, resolved]; `loop` marks a     *)
(*            loop body or loop back edge                                  *)
(*   arrive the effect every visit of a node has                           *)
(*   loops  the nodes the M10 loop authority puts in a loop                *)
(*   choice the choice nodes; scene the scene that owns a node             *)
(*   init   the request's value of the variable [kind, value]              *)
(* An effect is [op, value]; "other" is a write that is not understood.    *)
EXTENDS StateConstraints, FiniteSets

CONSTANTS
    Nodes,
    Root,       \* where the request starts
    Target,     \* the only anchor of the destination
    Horizon     \* values beyond Horizon behave alike, see Reachable

ASSUME GraphAssumption ==
    IsFiniteSet(Nodes) /\ Root \in Nodes /\ Target \in Nodes /\ Horizon \in Nat

NoEffect == [op |-> "none", value |-> 0]
Effect == {NoEffect} \cup [op : {"add", "set", "other"}, value : Int]
Gate == {NoGate} \cup [shape : {"and", "or"}, terms : Seq(Term)]

Edges(g) == DOMAIN g.edges

IsGraph(g) ==
    /\ \A e \in Edges(g) :
          /\ g.edges[e].src \in Nodes /\ g.edges[e].dst \in Nodes
          /\ g.edges[e].gate \in Gate /\ g.edges[e].effect \in Effect
    /\ g.arrive \in [Nodes -> Effect]
    /\ g.init.value \in Int

From(g, n) == {e \in Edges(g) : g.edges[e].src = n}

(* The nodes from which the target can be reached over `edges`, whatever   *)
(* the gates say.                                                          *)
ReverseNodes(g, edges) ==
    LET within[i \in 0..Cardinality(Nodes)] ==
            IF i = 0 THEN {Target}
            ELSE LET near == within[i - 1]
                 IN  near \cup
                     {g.edges[e].src : e \in {x \in edges : g.edges[x].dst \in near}}
    IN  within[Cardinality(Nodes)]

ResolvedEdges(g) == {e \in Edges(g) : g.edges[e].resolved}

TargetCone(g) == ReverseNodes(g, Edges(g))
StructurallyReachable(g) == Root \in ReverseNodes(g, ResolvedEdges(g))
ClosedWorld(g) == ResolvedEdges(g) = Edges(g)

(* The variable matters when a gate on a way to the target asks for it.    *)
Relevant(g) ==
    \E e \in Edges(g) : g.edges[e].gate # NoGate /\ g.edges[e].dst \in TargetCone(g)

(* The unique resolved cycle of loop edges through a node, as a sequence of *)
(* edges from that node; empty when the loop edges branch or never return. *)
LoopEdges(g, n) == {e \in From(g, n) : g.edges[e].resolved /\ g.edges[e].loop}

OnlyLoopEdge(g, n) == CHOOSE e \in LoopEdges(g, n) : TRUE

AlongLoop(g, ns) ==
    {g.edges[OnlyLoopEdge(g, n)].dst : n \in {x \in ns : Cardinality(LoopEdges(g, x)) = 1}}

StructuralCycle(g, start) ==
    LET at[i \in 0..Cardinality(Nodes)] == IF i = 0 THEN {start} ELSE AlongLoop(g, at[i - 1])
        returns == {i \in 1..Cardinality(Nodes) : at[i] = {start}}
        length == CHOOSE i \in returns : \A j \in returns : i <= j
        node(i) == CHOOSE n \in at[i] : TRUE
    IN  IF returns = {} THEN <<>> ELSE [i \in 1..length |-> OnlyLoopEdge(g, node(i - 1))]

-----------------------------------------------------------------------------
(* What the story can do: the sets of values the variable may have. A value *)
(* that is not known is any up to the horizon, which every literal of a    *)
(* gate lies within.                                                       *)
Values == -Horizon..Horizon

StartValues(g) == IF g.init.kind = "unknown" THEN Values ELSE {g.init.value}

Effects(effect, vs) ==
    CASE effect.op = "none" -> vs
      [] effect.op = "add" -> {v + effect.value : v \in vs}
      [] effect.op = "set" -> {effect.value}
      [] effect.op = "other" -> Values

(* The values with which `edge` can be left behind, from values `vs` at its *)
(* source, the effects of arriving included.                               *)
Over(g, e, vs) ==
    LET edge == g.edges[e]
        open == {v \in vs : GateHolds(edge.gate, v)}
    IN  IF open = {} THEN {}
        ELSE Effects(g.arrive[edge.dst], Effects(edge.effect, open))

(* The pairs of a node and a value that the story can bring about, values  *)
(* cut off at the horizon.                                                 *)
Cut(v) == IF v > Horizon THEN Horizon ELSE IF v < -Horizon THEN -Horizon ELSE v
CutAll(vs) == {Cut(v) : v \in vs}

Reachable(g) ==
    LET steps == Cardinality(Nodes) * (2 * Horizon + 1)
        start == {Root} \X CutAll(Effects(g.arrive[Root], StartValues(g)))
        after[i \in 0..steps] ==
            IF i = 0 THEN start
            ELSE LET before == after[i - 1]
                 IN  before \cup UNION {
                        {g.edges[e].dst} \X
                            CutAll(Over(g, e, {p[2] : p \in {q \in before :
                                                                q[1] = g.edges[e].src}})) :
                        e \in Edges(g)}
    IN  after[steps]

RouteExists(g) == \E p \in Reachable(g) : p[1] = Target

(* Whatever the start value, the story can follow the path of edges.       *)
Walkable(g, path) ==
    LET at[i \in 0..Len(path)] ==
            IF i = 0 THEN Effects(g.arrive[Root], StartValues(g))
            ELSE Over(g, path[i], at[i - 1])
        end(i) == IF i = 0 THEN Root ELSE g.edges[path[i]].dst
    IN  \A i \in DOMAIN path :
            /\ g.edges[path[i]].src = end(i - 1)
            /\ \A v \in at[i - 1] : GateHolds(g.edges[path[i]].gate, v)
            /\ at[i] # {}

(* The routes to the target that take no edge twice and end on arrival.    *)
DirectRoutes(g) ==
    LET extend(paths) ==
            {Append(p, e) : p \in paths, e \in Edges(g)}
        proper(p) ==
            /\ \A i, j \in DOMAIN p : p[i] = p[j] => i = j
            /\ \A i \in DOMAIN p : i < Len(p) => g.edges[p[i]].dst # Target
            /\ Walkable(g, p)
        upTo[i \in 0..Cardinality(Edges(g))] ==
            IF i = 0 THEN {<<>>} ELSE {p \in extend(upTo[i - 1]) : proper(p)}
    IN  {p \in UNION {upTo[i] : i \in 1..Cardinality(Edges(g))} :
            g.edges[p[Len(p)]].dst = Target}
=============================================================================
