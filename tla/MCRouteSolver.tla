---------------------------- MODULE MCRouteSolver ----------------------------
(* Graph families for model-checking RouteSolver: a two-node loop with an  *)
(* exit from either node to the target and one from the body to a second   *)
(* stop in front of the target.                                            *)
EXTENDS RouteSolver

CONSTANTS root, body, mid, target

And(terms) == [shape |-> "and", terms |-> terms]
Or(terms) == [shape |-> "or", terms |-> terms]
T(op, lit) == [op |-> op, lit |-> lit]
Add(n) == [op |-> "add", value |-> n]
Set(n) == [op |-> "set", value |-> n]
Other == [op |-> "other", value |-> 0]

Edge(from, to, gate, effect) ==
    [src |-> from, dst |-> to, gate |-> gate, effect |-> effect,
     loop |-> FALSE, resolved |-> TRUE]
LoopEdge(from, to, effect) == [Edge(from, to, NoGate, effect) EXCEPT !.loop = TRUE]

At(node, effect) == [n \in Nodes |-> IF n = node THEN effect ELSE NoEffect]
OwnScenes == [n \in Nodes |-> n]
Known(v) == [kind |-> "known", value |-> v]

(* The loop, its increments, and exits: a function of edge ids 3..6.       *)
Story(there, back, exits) ==
    [edges |-> [e \in {1, 2} \cup DOMAIN exits |->
                    CASE e = 1 -> LoopEdge(root, body, there)
                      [] e = 2 -> LoopEdge(body, root, back)
                      [] OTHER -> exits[e]],
     arrive |-> At(root, NoEffect), loops |-> {}, choice |-> {},
     scene |-> OwnScenes, init |-> Known(0)]

RootExit(gate) == Edge(root, target, gate, NoEffect)
BodyExit(gate) == Edge(body, target, gate, NoEffect)
SideExit(gate) == Edge(body, mid, gate, NoEffect)
LastExit(gate) == Edge(mid, target, gate, NoEffect)

Gates == {NoGate, And(<<T("eq", 2)>>), And(<<T("ge", 3), T("lt", 5)>>),
          And(<<T("gt", 1), T("ne", 3)>>), Or(<<T("eq", 1), T("eq", 3)>>),
          And(<<T("le", 1)>>)}

(* A loop that no authority allows to accelerate.                          *)
PlainLoops ==
    {Story(Add(1), back, 3 :> RootExit(a) @@ 4 :> BodyExit(b)) :
        back \in {NoEffect, Add(1)}, a, b \in Gates}

(* The authority to accelerate, and one way out of the loop, with nothing  *)
(* behind it that could ask for more repetitions.                          *)
OneExitLoops ==
    {[Story(there, back, exits) EXCEPT !.loops = {root, body}] :
        there \in {NoEffect, Add(1), Set(2), Other}, back \in {NoEffect, Add(1), Add(2)},
        exits \in {3 :> RootExit(a) : a \in Gates}
                    \cup {4 :> BodyExit(a) : a \in Gates}
                    \cup {5 :> SideExit(a) @@ 6 :> LastExit(b) :
                            a \in Gates, b \in {NoGate, And(<<T("le", 1)>>)}}}

CountDowns ==
    {[Story(NoEffect, Add(-1), exits) EXCEPT !.loops = {root, body}, !.init = Known(n)] :
        n \in {2, 3}, exits \in UNION {{3 :> RootExit(And(<<T(op, 1)>>)), 4 :> BodyExit(And(<<T(op, 1)>>))} :
                            op \in Ops}}

(* No loop: two ways to the body, two from there to mid, and a last gate;  *)
(* the start value is known, unknown or assumed by the request.            *)
Ladder(x, a, b, c, d, init) ==
    [edges |-> 1 :> Edge(root, body, a, x) @@ 2 :> Edge(root, body, NoGate, Add(1))
            @@ 3 :> Edge(body, mid, b, NoEffect) @@ 4 :> Edge(body, mid, c, Add(1))
            @@ 5 :> LastExit(d),
     arrive |-> At(root, NoEffect), loops |-> {}, choice |-> {},
     scene |-> OwnScenes, init |-> init]

Starts == {Known(0), [kind |-> "entry", value |-> 2], [kind |-> "unknown", value |-> 0]}

Ladders ==
    {Ladder(x, a, b, c, d, init) :
        x \in {Add(0), Set(2), Other}, a \in {NoGate, And(<<T("ge", 3), T("lt", 5)>>)},
        b \in Gates \ {NoGate}, c \in {And(<<T("eq", 2)>>), And(<<T("ne", 2)>>)},
        d \in Gates \ {NoGate}, init \in Starts}

(* Changes on arrival, unresolved edges, menus, scenes of several nodes,   *)
(* and a target out of reach.                                              *)
Variations ==
    LET some == {Ladder(Add(0), NoGate, b, And(<<T("ge", 1)>>), d, Known(0)) : b, d \in Gates}
    IN  UNION {
          {[g EXCEPT !.arrive = At(n, x)] : g \in some, n \in {root, mid}, x \in {Add(1), Set(2)}},
          {[g EXCEPT !.edges[3].resolved = FALSE] : g \in some},
          {[g EXCEPT !.choice = {root, body}, !.scene = [n \in Nodes |->
              IF n = target THEN target ELSE root]] : g \in some},
          {Story(Add(1), NoEffect, 6 :> LastExit(a)) : a \in Gates}}

Default == [repetition |-> 3, alternatives |-> 1, expanded |-> 40, retained |-> 40,
            frontier |-> 20, prefixes |-> 60]
Tight ==
    {[Default EXCEPT !.expanded = 3], [Default EXCEPT !.retained = 3],
     [Default EXCEPT !.frontier = 1], [Default EXCEPT !.prefixes = 4]}

About(graphs, profiles) == [graph : graphs, limits : profiles]

SoundRequests ==
    About(PlainLoops \cup OneExitLoops \cup CountDowns \cup Ladders \cup Variations, {Default})
        \cup About({g \in OneExitLoops : g.edges[1].effect = Add(1)} \cup Variations, Tight)

(* One way out of an accelerated loop, and a second gate behind it.        *)
GatedExitLoops ==
    About({[Story(Add(1), NoEffect, 5 :> SideExit(a) @@ 6 :> LastExit(b))
                EXCEPT !.loops = {root, body}] : a, b \in Gates}, {Default})

(* A loop entered at a node that changes the variable itself.              *)
EnteredAtWrite ==
    About({[Story(NoEffect, NoEffect, 3 :> RootExit(a))
                EXCEPT !.loops = {root, body}, !.arrive = At(root, Add(1))] : a \in Gates},
          {Default})

(* A direct way that passes a loop it does not repeat, all in one scene.   *)
LoopOnTheWay ==
    About({[edges |-> 1 :> Edge(root, body, NoGate, Add(1)) @@ 2 :> Edge(body, root, NoGate, Set(0))
                   @@ 3 :> Edge(root, mid, NoGate, NoEffect) @@ 4 :> Edge(mid, body, NoGate, NoEffect)
                   @@ 5 :> BodyExit(And(<<T("eq", 1)>>)),
            arrive |-> At(root, NoEffect), loops |-> {}, choice |-> {},
            scene |-> [n \in Nodes |-> IF n = target THEN target ELSE root],
            init |-> Known(start)] : start \in {0, 5}}, {Default})

Repetitions == EnteredAtWrite \cup LoopOnTheWay
=============================================================================
