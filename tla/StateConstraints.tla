-------------------------- MODULE StateConstraints --------------------------
(* What the M12 route solver knows about one story variable while it walks *)
(* the canonical graph: the comparisons of a gate, the constraint that the *)
(* gates passed so far put on the variable, and how often a repeated       *)
(* change must happen before a comparison holds.                           *)
EXTENDS Integers, Sequences

CONSTANT Unknown    \* the value of a variable of which nothing exact is known

ASSUME UnknownAssumption == Unknown \notin Int

LowerOps == {"ge", "gt"}
UpperOps == {"le", "lt"}
Ops == {"eq", "ne"} \cup LowerOps \cup UpperOps

(* One comparison [op, lit] of the variable with a literal; a negative one *)
(* is an operation on a literal and not recognized as a comparison.        *)
Term == [op : Ops, lit : Nat]

TermHolds(t, v) ==
    \/ t.op = "eq" /\ v = t.lit
    \/ t.op = "ne" /\ v # t.lit
    \/ t.op = "ge" /\ v >= t.lit
    \/ t.op = "gt" /\ v > t.lit
    \/ t.op = "le" /\ v <= t.lit
    \/ t.op = "lt" /\ v < t.lit

(* A gate is a conjunction or a disjunction of comparisons; "none" is an   *)
(* edge without a gate. Only conjunctions become constraints.              *)
NoGate == [shape |-> "none", terms |-> <<>>]

GateHolds(gate, v) ==
    LET terms == {gate.terms[i] : i \in DOMAIN gate.terms}
    IN  IF gate.shape = "or"
        THEN \E t \in terms : TermHolds(t, v)
        ELSE \A t \in terms : TermHolds(t, v)

SupportedTerms(gate) == IF gate.shape = "or" THEN <<>> ELSE gate.terms

-----------------------------------------------------------------------------
(* A constraint: an exact value, excluded literals, a lower and an upper   *)
(* bound (each a set of at most one), with the facts that established them.*)
NoConstraint == [eq |-> {}, eqFacts |-> {}, excluded |-> {}, lower |-> {}, upper |-> {}]

ExactConstraint(v, facts) == [NoConstraint EXCEPT !.eq = {v}, !.eqFacts = facts]

Bound(t, facts) == [lit |-> t.lit, inclusive |-> t.op \in {"ge", "le"}, facts |-> facts]

AboveBound(v, b) == IF b.inclusive THEN v >= b.lit ELSE v > b.lit
BelowBound(v, b) == IF b.inclusive THEN v <= b.lit ELSE v < b.lit

(* Two bounds with the same literal become one, backed by both facts. *)
Merged(b, d) ==
    [b EXCEPT !.inclusive = b.inclusive /\ d.inclusive, !.facts = b.facts \cup d.facts]

StrongerLower(current, new) ==
    IF \A b \in current : new.lit > b.lit
    THEN {new}
    ELSE {IF b.lit > new.lit THEN b ELSE Merged(b, new) : b \in current}

StrongerUpper(current, new) ==
    IF \A b \in current : new.lit < b.lit
    THEN {new}
    ELSE {IF b.lit < new.lit THEN b ELSE Merged(b, new) : b \in current}

BoundsAreEmpty(lower, upper) ==
    \E b \in lower, d \in upper :
        \/ b.lit > d.lit
        \/ b.lit = d.lit /\ ~(b.inclusive /\ d.inclusive)

NewLower(c, t, facts) == StrongerLower(c.lower, Bound(t, facts))
NewUpper(c, t, facts) == StrongerUpper(c.upper, Bound(t, facts))

(* The comparison cannot hold together with what is already known. *)
Contradicts(c, t) ==
    \/ /\ t.op = "eq"
       /\ \/ \E v \in c.eq : v # t.lit
          \/ \E x \in c.excluded : x.lit = t.lit
          \/ \E b \in c.lower : ~AboveBound(t.lit, b)
          \/ \E b \in c.upper : ~BelowBound(t.lit, b)
    \/ t.op = "ne" /\ t.lit \in c.eq
    \/ /\ t.op \in LowerOps
       /\ \/ \E v \in c.eq : ~AboveBound(v, Bound(t, {}))
          \/ BoundsAreEmpty(NewLower(c, t, {}), c.upper)
    \/ /\ t.op \in UpperOps
       /\ \/ \E v \in c.eq : ~BelowBound(v, Bound(t, {}))
          \/ BoundsAreEmpty(c.lower, NewUpper(c, t, {}))

(* What is known after the comparison, a requirement of fact `fact`, holds. *)
WithExact(c, t, fact) == [c EXCEPT !.eq = {t.lit}, !.eqFacts = @ \cup {fact}]

WithExclusion(c, t, fact) ==
    LET same == {x \in c.excluded : x.lit = t.lit}
    IN  [c EXCEPT !.excluded =
            (@ \ same) \cup {[lit |-> t.lit, facts |-> {fact} \cup UNION {x.facts : x \in same}]}]

Narrowed(c, t, fact) ==
    CASE t.op = "eq" -> WithExact(c, t, fact)
      [] t.op = "ne" -> WithExclusion(c, t, fact)
      [] t.op \in LowerOps -> [c EXCEPT !.lower = NewLower(c, t, {fact})]
      [] t.op \in UpperOps -> [c EXCEPT !.upper = NewUpper(c, t, {fact})]

(* The comparisons of a conjunction are added one after the other. *)
NarrowedBy(c, terms, fact) ==
    LET after[i \in 0..Len(terms)] ==
            IF i = 0 THEN c ELSE Narrowed(after[i - 1], terms[i], fact)
    IN  after

ContradictsAny(c, terms, fact) ==
    \E i \in 1..Len(terms) : Contradicts(NarrowedBy(c, terms, fact)[i - 1], terms[i])

AllNarrowed(c, terms, fact) == NarrowedBy(c, terms, fact)[Len(terms)]

(* What a constraint claims of the value of the variable. *)
Satisfies(v, c) ==
    /\ \A x \in c.eq : v = x
    /\ \A x \in c.excluded : v # x.lit
    /\ \A b \in c.lower : AboveBound(v, b)
    /\ \A b \in c.upper : BelowBound(v, b)

-----------------------------------------------------------------------------
(* The least number of times the change `delta` must be applied to `v`     *)
(* before the comparison holds; a set, empty when the code gives up.       *)
\* Faulty: a bound that is reached exactly asks for one more application.
FloorAndOne(n, d) == n \div d + 1

Ceiling(n, d) == -((-n) \div d)

AtLeastOnce(n) == IF n > 1 THEN n ELSE 1

UntilEqual(distance, step) ==
    {n \in {distance \div step} : n > 0 /\ step * n = distance}

MinimumRepetitions(t, v, delta) ==
    IF TermHolds(t, v) THEN {0}
    ELSE CASE delta # 0 /\ t.op = "ne" -> {1}
           [] delta > 0 /\ t.op = "eq" -> UntilEqual(t.lit - v, delta)
           [] delta < 0 /\ t.op = "eq" -> UntilEqual(v - t.lit, -delta)
           [] delta > 0 /\ t.op = "ge" -> {AtLeastOnce(Ceiling(t.lit - v, delta))}
           [] delta > 0 /\ t.op = "gt" -> {AtLeastOnce((t.lit - v) \div delta + 1)}
           [] delta < 0 /\ t.op = "le" -> {AtLeastOnce(Ceiling(v - t.lit, -delta))}
           [] delta < 0 /\ t.op = "lt" -> {AtLeastOnce((v - t.lit) \div (-delta) + 1)}
           [] OTHER -> {}
=============================================================================
