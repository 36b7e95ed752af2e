------------------------ MODULE RouteSolver_proofs -------------------------
(* What the route solver may rely on when it prunes by constraints and     *)
(* when it jumps through a loop, for every literal, value and increment;   *)
(* that a route it confirms can be played, that the repetitions it reports *)
(* are those of the route, and that a destination it denies is not         *)
(* reached, for every graph.                                               *)
EXTENDS RouteSolver, WellFoundedInduction, FiniteSetTheorems, TLAPS

(* Constraints backed by facts.                                            *)
Bounds(Facts) == [lit : Nat, inclusive : BOOLEAN, facts : SUBSET Facts]
Exclusions(Facts) == [lit : Nat, facts : SUBSET Facts]
AtMostOne(S) == \A x, y \in S : x = y

Constraints(Facts) ==
    {c \in [eq : SUBSET Int, eqFacts : SUBSET Facts, excluded : SUBSET Exclusions(Facts),
            lower : SUBSET Bounds(Facts), upper : SUBSET Bounds(Facts)] :
        AtMostOne(c.lower) /\ AtMostOne(c.upper)}

-----------------------------------------------------------------------------
(* The bound of a comparison that holds, holds. *)
LEMMA BoundHolds ==
    ASSUME NEW Facts, NEW t \in Term, NEW v \in Int, TermHolds(t, v), NEW facts \in SUBSET Facts
    PROVE  /\ Bound(t, facts) \in Bounds(Facts)
           /\ t.op \in LowerOps => AboveBound(v, Bound(t, facts))
           /\ t.op \in UpperOps => BelowBound(v, Bound(t, facts))
<1>1. PICK inclusive \in BOOLEAN : inclusive = (t.op \in {"ge", "le"})
    <2>1. CASE t.op \in {"ge", "le"}
        <3>1. (t.op \in {"ge", "le"}) = TRUE
            BY <2>1
        <3> QED BY <3>1, Zenon
    <2>2. CASE t.op \notin {"ge", "le"}
        <3>1. (t.op \in {"ge", "le"}) = FALSE
            BY <2>2
        <3> QED BY <3>1, Zenon
    <2> QED BY <2>1, <2>2
<1>2. PICK b : b = [lit |-> t.lit, inclusive |-> inclusive, facts |-> facts]
    OBVIOUS
<1>3. Bound(t, facts) = b
    BY <1>1, <1>2, Zenon DEF Bound
<1>4. b \in Bounds(Facts)
    BY <1>2 DEF Bounds, Term
<1>5. t.op \in LowerOps => AboveBound(v, b)
    BY <1>1, <1>2 DEF Term, Ops, LowerOps, UpperOps, TermHolds, AboveBound
<1>6. t.op \in UpperOps => BelowBound(v, b)
    BY <1>1, <1>2 DEF Term, Ops, LowerOps, UpperOps, TermHolds, BelowBound
<1> QED BY <1>3, <1>4, <1>5, <1>6

(* What is within two bounds with the same literal is within the one they  *)
(* become.                                                                 *)
LEMMA MergedHolds ==
    ASSUME NEW Facts, NEW b \in Bounds(Facts), NEW d \in Bounds(Facts), NEW v \in Int
    PROVE  /\ Merged(b, d) \in Bounds(Facts)
           /\ AboveBound(v, b) /\ AboveBound(v, d) /\ b.lit = d.lit
                => AboveBound(v, Merged(b, d))
           /\ BelowBound(v, b) /\ BelowBound(v, d) /\ b.lit = d.lit
                => BelowBound(v, Merged(b, d))
<1>1. PICK inclusive \in BOOLEAN : inclusive = (b.inclusive /\ d.inclusive)
    BY Zenon
<1>2. PICK m : m = [lit |-> b.lit, inclusive |-> inclusive, facts |-> b.facts \cup d.facts]
    OBVIOUS
<1>3. Merged(b, d) = [b EXCEPT !.inclusive = inclusive, !.facts = b.facts \cup d.facts]
    BY <1>1, Zenon DEF Merged
<1>4. Merged(b, d) = m
    BY <1>2, <1>3 DEF Bounds
<1>5. m \in Bounds(Facts)
    BY <1>2 DEF Bounds
<1>6. AboveBound(v, b) /\ AboveBound(v, d) /\ b.lit = d.lit => AboveBound(v, m)
    BY <1>1, <1>2 DEF AboveBound, Bounds
<1>7. BelowBound(v, b) /\ BelowBound(v, d) /\ b.lit = d.lit => BelowBound(v, m)
    BY <1>1, <1>2 DEF BelowBound, Bounds
<1> QED BY <1>4, <1>5, <1>6, <1>7

(* Whatever the stronger of two lower bounds is, a value above both is     *)
(* above it.                                                               *)
LEMMA StrongerLowerHolds ==
    ASSUME NEW Facts, NEW known \in SUBSET Bounds(Facts), NEW new \in Bounds(Facts),
           NEW v \in Int,
           AtMostOne(known), \A b \in known : AboveBound(v, b), AboveBound(v, new)
    PROVE  /\ StrongerLower(known, new) \in SUBSET Bounds(Facts)
           /\ AtMostOne(StrongerLower(known, new))
           /\ \A b \in StrongerLower(known, new) : AboveBound(v, b)
<1>1. CASE \A b \in known : new.lit > b.lit
    BY <1>1 DEF StrongerLower, AtMostOne
<1>2. CASE ~\A b \in known : new.lit > b.lit
    <2>1. StrongerLower(known, new) =
            {IF b.lit > new.lit THEN b ELSE Merged(b, new) : b \in known}
        BY <1>2 DEF StrongerLower
    <2>2. ASSUME NEW b \in known, ~(b.lit > new.lit)
          PROVE  Merged(b, new) \in Bounds(Facts) /\ AboveBound(v, Merged(b, new))
        <3>1. ~(new.lit > b.lit)
            BY <1>2 DEF AtMostOne
        <3>2. b.lit = new.lit
            BY <2>2, <3>1 DEF Bounds
        <3> QED BY <3>2, MergedHolds
    <2> QED BY <2>1, <2>2 DEF AtMostOne
<1> QED BY <1>1, <1>2

(* And for two upper bounds.                                               *)
LEMMA StrongerUpperHolds ==
    ASSUME NEW Facts, NEW known \in SUBSET Bounds(Facts), NEW new \in Bounds(Facts),
           NEW v \in Int,
           AtMostOne(known), \A b \in known : BelowBound(v, b), BelowBound(v, new)
    PROVE  /\ StrongerUpper(known, new) \in SUBSET Bounds(Facts)
           /\ AtMostOne(StrongerUpper(known, new))
           /\ \A b \in StrongerUpper(known, new) : BelowBound(v, b)
<1>1. CASE \A b \in known : new.lit < b.lit
    BY <1>1 DEF StrongerUpper, AtMostOne
<1>2. CASE ~\A b \in known : new.lit < b.lit
    <2>1. StrongerUpper(known, new) =
            {IF b.lit < new.lit THEN b ELSE Merged(b, new) : b \in known}
        BY <1>2 DEF StrongerUpper
    <2>2. ASSUME NEW b \in known, ~(b.lit < new.lit)
          PROVE  Merged(b, new) \in Bounds(Facts) /\ BelowBound(v, Merged(b, new))
        <3>1. ~(new.lit < b.lit)
            BY <1>2 DEF AtMostOne
        <3>2. b.lit = new.lit
            BY <2>2, <3>1 DEF Bounds
        <3> QED BY <3>2, MergedHolds
    <2> QED BY <2>1, <2>2 DEF AtMostOne
<1> QED BY <1>1, <1>2

(* A value between two bounds shows that they are not empty. *)
LEMMA BetweenBounds ==
    ASSUME NEW Facts, NEW lower \in SUBSET Bounds(Facts), NEW upper \in SUBSET Bounds(Facts),
           NEW v \in Int,
           \A b \in lower : AboveBound(v, b), \A b \in upper : BelowBound(v, b)
    PROVE  ~BoundsAreEmpty(lower, upper)
<1> SUFFICES ASSUME NEW b \in lower, NEW d \in upper
             PROVE  ~(b.lit > d.lit \/ (b.lit = d.lit /\ ~(b.inclusive /\ d.inclusive)))
    BY DEF BoundsAreEmpty
<1>1. AboveBound(v, b) /\ BelowBound(v, d)
    OBVIOUS
<1> QED BY <1>1 DEF AboveBound, BelowBound, Bounds

-----------------------------------------------------------------------------
(* A gate that some value still possible passes is never refused: a value  *)
(* that satisfies what is known and the comparison shows that the two do   *)
(* not contradict each other, and what is known afterwards still allows    *)
(* it, in a form that the next comparison can narrow again. Without it a   *)
(* negative answer of the solver would mean nothing.                       *)
THEOREM NarrowingIsSound ==
    ASSUME NEW Facts, NEW c \in Constraints(Facts), NEW t \in Term, NEW v \in Int, NEW fact \in Facts,
           Satisfies(v, c), TermHolds(t, v)
    PROVE  /\ ~Contradicts(c, t)
           /\ Satisfies(v, Narrowed(c, t, fact))
           /\ Narrowed(c, t, fact) \in Constraints(Facts)
<1> USE DEF Constraints
<1>0. c \in [eq : SUBSET Int, eqFacts : SUBSET Facts, excluded : SUBSET Exclusions(Facts),
             lower : SUBSET Bounds(Facts), upper : SUBSET Bounds(Facts)]
    OBVIOUS
<1>1. CASE t.op = "eq"
    <2>1. v = t.lit
        BY <1>1 DEF TermHolds
    <2>2. ~Contradicts(c, t)
        BY <1>1, <2>1 DEF Contradicts, Satisfies, LowerOps, UpperOps
    <2>3. Narrowed(c, t, fact) = WithExact(c, t, fact)
        BY <1>1 DEF Narrowed, LowerOps, UpperOps
    <2>4. PICK d : d = [eq |-> {t.lit}, eqFacts |-> c.eqFacts \cup {fact},
                        excluded |-> c.excluded, lower |-> c.lower, upper |-> c.upper]
        OBVIOUS
    <2> HIDE DEF Constraints
    <2>5. WithExact(c, t, fact) = d
        <3>1. PICK eqFacts : eqFacts = c.eqFacts \cup {fact}
            OBVIOUS
        <3>2. WithExact(c, t, fact) = [c EXCEPT !.eq = {t.lit}, !.eqFacts = eqFacts]
            BY <3>1, Zenon DEF WithExact
        <3> QED BY <1>0, <2>4, <3>1, <3>2
    <2> USE DEF Constraints
    <2>6. {t.lit} \in SUBSET Int /\ c.eqFacts \cup {fact} \in SUBSET Facts
        BY DEF Term
    <2>7. d \in Constraints(Facts)
        BY <2>4, <2>6
    <2>8. Satisfies(v, d)
        BY <2>1, <2>4 DEF Satisfies
    <2> QED BY <2>2, <2>3, <2>5, <2>7, <2>8
<1>2. CASE t.op = "ne"
    <2>1. v # t.lit
        BY <1>2 DEF TermHolds
    <2>2. ~Contradicts(c, t)
        BY <1>2, <2>1 DEF Contradicts, Satisfies, LowerOps, UpperOps
    <2>3. Narrowed(c, t, fact) = WithExclusion(c, t, fact)
        BY <1>2 DEF Narrowed, LowerOps, UpperOps
    <2> DEFINE same == {x \in c.excluded : x.lit = t.lit}
    <2>4. PICK backing : backing = UNION {x.facts : x \in same}
        OBVIOUS
    <2>5. PICK facts : facts = {fact} \cup backing
        OBVIOUS
    <2>5a. facts \in SUBSET Facts
        <3>1. \A x \in same : x.facts \in SUBSET Facts
            BY DEF Exclusions
        <3>2. backing \in SUBSET Facts
            BY <2>4, <3>1, Zenon
        <3> HIDE DEF same, Constraints
        <3> QED BY <2>5, <3>2
    <2>6. PICK x : x = [lit |-> t.lit, facts |-> facts]
        OBVIOUS
    <2>7. x \in Exclusions(Facts) /\ x.lit = t.lit
        BY <2>5a, <2>6 DEF Exclusions, Term
    <2>8. PICK excluded : excluded = (c.excluded \ same) \cup {x}
        OBVIOUS
    <2>9. /\ excluded \in SUBSET Exclusions(Facts)
          /\ \A y \in excluded : v # y.lit
        BY <2>1, <2>7, <2>8 DEF Satisfies
    <2>10. WithExclusion(c, t, fact) = [c EXCEPT !.excluded = excluded]
        <3> HIDE DEF Constraints
        <3>1. WithExclusion(c, t, fact) =
                [c EXCEPT !.excluded = (c.excluded \ same) \cup
                    {[lit |-> t.lit, facts |-> {fact} \cup UNION {y.facts : y \in same}]}]
            BY DEF WithExclusion
        <3> HIDE DEF same
        <3>2. x = [lit |-> t.lit, facts |-> {fact} \cup UNION {y.facts : y \in same}]
            BY <2>4, <2>5, <2>6
        <3>3. excluded = (c.excluded \ same) \cup
                    {[lit |-> t.lit, facts |-> {fact} \cup UNION {y.facts : y \in same}]}
            BY <2>8, <3>2
        <3> QED BY <3>1, <3>3
    <2> HIDE DEF same, Constraints
    <2>11. WithExclusion(c, t, fact) =
            [eq |-> c.eq, eqFacts |-> c.eqFacts, excluded |-> excluded,
             lower |-> c.lower, upper |-> c.upper]
        BY <1>0, <2>10
    <2> USE DEF Constraints
    <2> QED BY <2>2, <2>3, <2>9, <2>11 DEF Satisfies
<1>3. CASE t.op \in LowerOps
    <2>1. /\ \A f \in SUBSET Facts : NewLower(c, t, f) \in SUBSET Bounds(Facts)
          /\ \A f \in SUBSET Facts : AtMostOne(NewLower(c, t, f))
          /\ \A f \in SUBSET Facts : \A b \in NewLower(c, t, f) : AboveBound(v, b)
        BY <1>3, BoundHolds, StrongerLowerHolds DEF NewLower, Satisfies
    <2>2. ~BoundsAreEmpty(NewLower(c, t, {}), c.upper)
        BY <2>1, BetweenBounds DEF Satisfies
    <2>3. \A x \in c.eq : AboveBound(x, Bound(t, {}))
        BY <1>3, BoundHolds DEF Satisfies
    <2>4. ~Contradicts(c, t)
        BY <1>3, <2>2, <2>3 DEF Contradicts, LowerOps, UpperOps
    <2>5. Narrowed(c, t, fact) = [c EXCEPT !.lower = NewLower(c, t, {fact})]
        BY <1>3 DEF Narrowed, LowerOps, UpperOps
    <2> QED BY <2>1, <2>4, <2>5 DEF Satisfies
<1>4. CASE t.op \in UpperOps
    <2>1. /\ \A f \in SUBSET Facts : NewUpper(c, t, f) \in SUBSET Bounds(Facts)
          /\ \A f \in SUBSET Facts : AtMostOne(NewUpper(c, t, f))
          /\ \A f \in SUBSET Facts : \A b \in NewUpper(c, t, f) : BelowBound(v, b)
        BY <1>4, BoundHolds, StrongerUpperHolds DEF NewUpper, Satisfies
    <2>2. ~BoundsAreEmpty(c.lower, NewUpper(c, t, {}))
        BY <2>1, BetweenBounds DEF Satisfies
    <2>3. \A x \in c.eq : BelowBound(x, Bound(t, {}))
        BY <1>4, BoundHolds DEF Satisfies
    <2>4. ~Contradicts(c, t)
        BY <1>4, <2>2, <2>3 DEF Contradicts, LowerOps, UpperOps
    <2>5. Narrowed(c, t, fact) = [c EXCEPT !.upper = NewUpper(c, t, {fact})]
        BY <1>4 DEF Narrowed, UpperOps, LowerOps
    <2> QED BY <2>1, <2>4, <2>5 DEF Satisfies
<1> QED BY <1>1, <1>2, <1>3, <1>4 DEF Term, Ops

-----------------------------------------------------------------------------
(* What TLA+ says of the quotient, in the form the proofs below use.       *)
LEMMA Division ==
    ASSUME NEW n \in Int, NEW d \in Nat \ {0}
    PROVE  /\ n \div d \in Int
           /\ d * (n \div d) <= n
           /\ n < d * (n \div d) + d
<1>1. n \div d \in Int /\ n % d \in 0..(d - 1) /\ n = d * (n \div d) + (n % d)
    OBVIOUS
<1> QED BY <1>1

(* Ceiling is the least number of steps of d that covers n.                *)
LEMMA CeilingIsLeast ==
    ASSUME NEW n \in Int, NEW d \in Nat \ {0}
    PROVE  /\ Ceiling(n, d) \in Int
           /\ n <= d * Ceiling(n, d)
           /\ d * Ceiling(n, d) < n + d
<1>1. PICK q \in Int : q = (-n) \div d
    BY Division
<1>2. d * q <= -n /\ -n < d * q + d
    BY <1>1, Division
<1>3. Ceiling(n, d) = -q
    BY <1>1 DEF Ceiling
<1>4. d * (-q) = -(d * q)
    OBVIOUS
<1> QED BY <1>2, <1>3, <1>4

(* One application more or less of a positive change. *)
LEMMA ProductSteps ==
    ASSUME NEW d \in Nat \ {0}, NEW m \in Int, NEW n \in Int, m < n
    PROVE  /\ d * m \in Int /\ d * n \in Int
           /\ d * m + d <= d * n
           /\ (-d) * n = -(d * n)
<1>1. n - m - 1 \in Nat
    OBVIOUS
<1>2. d * (n - m - 1) >= 0
    BY <1>1
<1>3. d * (n - m - 1) = d * n - d * m - d
    OBVIOUS
<1>4. d * m \in Int /\ d * n \in Int /\ (-d) * n = -(d * n)
    OBVIOUS
<1> QED BY <1>2, <1>3, <1>4

(* Reaching a sum that is `distance` away in steps of `step`: the counts   *)
(* used for inclusive bounds, for strict ones and for equality.            *)
LEMMA LeastSteps ==
    ASSUME NEW distance \in Int, NEW step \in Nat \ {0}
    PROVE  /\ distance > 0 =>
                LET n == AtLeastOnce(Ceiling(distance, step))
                IN  /\ n \in Nat \ {0} /\ step * n >= distance
                    /\ \A m \in Nat : m < n => step * m < distance
           /\ distance >= 0 =>
                LET n == AtLeastOnce(distance \div step + 1)
                IN  /\ n \in Nat \ {0} /\ step * n > distance
                    /\ \A m \in Nat : m < n => step * m <= distance
           /\ \A n \in UntilEqual(distance, step) :
                    /\ n \in Nat \ {0} /\ step * n = distance
                    /\ \A m \in Nat : m < n => step * m # distance
<1>1. ASSUME distance > 0
      PROVE  LET n == AtLeastOnce(Ceiling(distance, step))
             IN  /\ n \in Nat \ {0} /\ step * n >= distance
                 /\ \A m \in Nat : m < n => step * m < distance
    <2>1. PICK n \in Int : n = Ceiling(distance, step)
        BY CeilingIsLeast
    <2>2. distance <= step * n /\ step * n < distance + step /\ step * n \in Int
        BY <2>1, CeilingIsLeast
    <2>3. n > 0
        <3>1. SUFFICES ASSUME n < 1 PROVE FALSE
            OBVIOUS
        <3>2. step * n + step <= step * 1
            BY <3>1, ProductSteps
        <3> QED BY <1>1, <2>2, <3>2
    <2>4. AtLeastOnce(n) = n
        BY <2>3 DEF AtLeastOnce
    <2>5. ASSUME NEW m \in Nat, m < n PROVE step * m < distance
        <3>1. step * m \in Int /\ step * m + step <= step * n
            BY <2>5, ProductSteps
        <3> QED BY <2>2, <3>1
    <2> QED BY <2>1, <2>2, <2>3, <2>4, <2>5
<1>2. ASSUME distance >= 0
      PROVE  LET n == AtLeastOnce(distance \div step + 1)
             IN  /\ n \in Nat \ {0} /\ step * n > distance
                 /\ \A m \in Nat : m < n => step * m <= distance
    <2>1. PICK q \in Int : q = distance \div step
        BY Division
    <2>2. step * q <= distance /\ distance < step * q + step /\ step * q \in Int
        BY <2>1, Division
    <2>3. step * (q + 1) = step * q + step
        OBVIOUS
    <2>4. q >= 0
        <3>1. SUFFICES ASSUME q < 0 PROVE FALSE
            OBVIOUS
        <3>2. step * q + step <= step * 0
            BY <3>1, ProductSteps
        <3> QED BY <1>2, <2>2, <3>2
    <2>5. AtLeastOnce(q + 1) = q + 1
        BY <2>4 DEF AtLeastOnce
    <2>6. ASSUME NEW m \in Nat, m < q + 1 PROVE step * m <= distance
        <3>1. CASE m = q
            BY <2>2, <3>1
        <3>2. CASE m < q
            <4>1. step * m \in Int /\ step * m + step <= step * q
                BY <3>2, ProductSteps
            <4> QED BY <2>2, <4>1
        <3> QED BY <2>6, <3>1, <3>2
    <2> QED BY <2>1, <2>2, <2>3, <2>4, <2>5, <2>6
<1>3. ASSUME NEW n \in UntilEqual(distance, step)
      PROVE  /\ n \in Nat \ {0} /\ step * n = distance
             /\ \A m \in Nat : m < n => step * m # distance
    <2>1. n \in Nat \ {0} /\ step * n = distance
        BY Division DEF UntilEqual
    <2>2. ASSUME NEW m \in Nat, m < n PROVE step * m # distance
        <3>1. step * m \in Int /\ step * m + step <= step * n
            BY <2>1, <2>2, ProductSteps
        <3> QED BY <2>1, <3>1
    <2> QED BY <2>1, <2>2
<1> QED BY <1>1, <1>2, <1>3

(* The jump through a loop stops at the first lap that opens the exit: with *)
(* the repetitions computed for a comparison, it holds, and with fewer it  *)
(* does not, whatever the literal, the value and the change of a lap are.  *)
THEOREM RepetitionsAreLeast ==
    ASSUME NEW t \in Term, NEW v \in Int, NEW delta \in Int,
           NEW n \in MinimumRepetitions(t, v, delta)
    PROVE  /\ n \in Nat
           /\ TermHolds(t, v + delta * n)
           /\ \A m \in Nat : m < n => ~TermHolds(t, v + delta * m)
<1>1. CASE TermHolds(t, v)
    <2>1. n = 0
        BY <1>1 DEF MinimumRepetitions
    <2>2. v + delta * n = v
        BY <2>1
    <2> QED BY <1>1, <2>1, <2>2
<1>2. CASE ~TermHolds(t, v)
    <2>1. CASE t.op = "ne" /\ delta # 0
        <3>1. n = 1
            BY <1>2, <2>1 DEF MinimumRepetitions
        <3>2. v = t.lit
            BY <1>2, <2>1 DEF TermHolds, Term
        <3>3. delta * n = delta /\ delta * 0 = 0
            BY <3>1
        <3> QED BY <2>1, <3>1, <3>2, <3>3 DEF TermHolds, Term
    <2>2. CASE delta > 0 /\ t.op # "ne"
        <3>1. PICK d \in Int : d = t.lit - v
            BY DEF Term
        <3>2. delta \in Nat \ {0}
            BY <2>2
        <3>3. \A m \in Nat : delta * m \in Int
            OBVIOUS
        <3>4. CASE t.op = "eq"
            <4>1. n \in UntilEqual(d, delta)
                BY <1>2, <2>2, <3>1, <3>4 DEF MinimumRepetitions
            <4>3. /\ n \in Nat \ {0} /\ delta * n = d
                  /\ \A m \in Nat : m < n => delta * m # d
                BY <3>2, <4>1, LeastSteps
            <4>4. TermHolds(t, v + delta * n)
                BY <3>1, <3>3, <3>4, <4>3 DEF TermHolds, Term
            <4>5. ASSUME NEW m \in Nat, m < n PROVE ~TermHolds(t, v + delta * m)
                BY <3>1, <3>3, <3>4, <4>3, <4>5 DEF TermHolds, Term
            <4> QED BY <4>3, <4>4, <4>5
        <3>5. CASE t.op = "ge"
            <4>1. n = AtLeastOnce(Ceiling(d, delta))
                BY <1>2, <2>2, <3>1, <3>5 DEF MinimumRepetitions
            <4>2. d > 0
                BY <1>2, <3>1, <3>5 DEF TermHolds, Term
            <4>3. /\ n \in Nat \ {0} /\ delta * n >= d
                  /\ \A m \in Nat : m < n => delta * m < d
                BY <3>2, <4>1, <4>2, LeastSteps
            <4>4. TermHolds(t, v + delta * n)
                BY <3>1, <3>3, <3>5, <4>3 DEF TermHolds, Term
            <4>5. ASSUME NEW m \in Nat, m < n PROVE ~TermHolds(t, v + delta * m)
                <5>1. PICK p \in Int : p = delta * m
                    BY <3>3
                <5>2. p < d
                    BY <4>3, <4>5, <5>1
                <5>3. v + delta * m = v + p
                    BY <3>3, <5>1
                <5> QED BY <3>1, <3>5, <5>2, <5>3 DEF TermHolds, Term
            <4> QED BY <4>3, <4>4, <4>5
        <3>6. CASE t.op = "gt"
            <4>1. n = AtLeastOnce(d \div delta + 1)
                BY <1>2, <2>2, <3>1, <3>6 DEF MinimumRepetitions
            <4>2. d >= 0
                BY <1>2, <3>1, <3>6 DEF TermHolds, Term
            <4>3. /\ n \in Nat \ {0} /\ delta * n > d
                  /\ \A m \in Nat : m < n => delta * m <= d
                BY <3>2, <4>1, <4>2, LeastSteps
            <4>4. TermHolds(t, v + delta * n)
                BY <3>1, <3>3, <3>6, <4>3 DEF TermHolds, Term
            <4>5. ASSUME NEW m \in Nat, m < n PROVE ~TermHolds(t, v + delta * m)
                <5>1. PICK p \in Int : p = delta * m
                    BY <3>3
                <5>2. p <= d
                    BY <4>3, <4>5, <5>1
                <5>3. v + delta * m = v + p
                    BY <3>3, <5>1
                <5> QED BY <3>1, <3>6, <5>2, <5>3 DEF TermHolds, Term
            <4> QED BY <4>3, <4>4, <4>5
        <3>7. CASE t.op \in UpperOps
            BY <1>2, <2>2, <3>7 DEF MinimumRepetitions, UpperOps
        <3> QED BY <2>2, <3>4, <3>5, <3>6, <3>7 DEF Term, Ops, LowerOps
    <2>3. CASE delta < 0 /\ t.op # "ne"
        <3>1. PICK d \in Int : d = v - t.lit
            BY DEF Term
        <3>2. PICK step \in Nat \ {0} : step = -delta
            BY <2>3
        <3>3. \A m \in Nat : v + delta * m = t.lit + d - step * m /\ step * m \in Int
            <4>1. ASSUME NEW m \in Nat PROVE delta * m = -(step * m) /\ step * m \in Int
                BY <3>2
            <4> QED BY <3>1, <4>1 DEF Term
        <3>4. CASE t.op = "eq"
            <4>1. n \in UntilEqual(d, step)
                BY <1>2, <2>3, <3>1, <3>2, <3>4 DEF MinimumRepetitions
            <4>3. /\ n \in Nat \ {0} /\ step * n = d
                  /\ \A m \in Nat : m < n => step * m # d
                BY <3>2, <4>1, LeastSteps
            <4>4. TermHolds(t, v + delta * n)
                BY <3>1, <3>3, <3>4, <4>3 DEF TermHolds, Term
            <4>5. ASSUME NEW m \in Nat, m < n PROVE ~TermHolds(t, v + delta * m)
                <5>1. PICK p \in Int : p = step * m
                    BY <3>3
                <5>2. p # d
                    BY <4>3, <4>5, <5>1
                <5>3. v + delta * m = t.lit + d - p
                    BY <3>3, <5>1
                <5> QED BY <3>1, <3>4, <5>2, <5>3 DEF TermHolds, Term
            <4> QED BY <4>3, <4>4, <4>5
        <3>5. CASE t.op = "le"
            <4>1. n = AtLeastOnce(Ceiling(d, step))
                BY <1>2, <2>3, <3>1, <3>2, <3>5 DEF MinimumRepetitions
            <4>2. d > 0
                BY <1>2, <3>1, <3>5 DEF TermHolds, Term
            <4>3. /\ n \in Nat \ {0} /\ step * n >= d
                  /\ \A m \in Nat : m < n => step * m < d
                BY <3>2, <4>1, <4>2, LeastSteps
            <4>4. TermHolds(t, v + delta * n)
                BY <3>1, <3>3, <3>5, <4>3 DEF TermHolds, Term
            <4>5. ASSUME NEW m \in Nat, m < n PROVE ~TermHolds(t, v + delta * m)
                <5>1. PICK p \in Int : p = step * m
                    BY <3>3
                <5>2. p < d
                    BY <4>3, <4>5, <5>1
                <5>3. v + delta * m = t.lit + d - p
                    BY <3>3, <5>1
                <5> QED BY <3>1, <3>5, <5>2, <5>3 DEF TermHolds, Term
            <4> QED BY <4>3, <4>4, <4>5
        <3>6. CASE t.op = "lt"
            <4>1. n = AtLeastOnce(d \div step + 1)
                BY <1>2, <2>3, <3>1, <3>2, <3>6 DEF MinimumRepetitions
            <4>2. d >= 0
                BY <1>2, <3>1, <3>6 DEF TermHolds, Term
            <4>3. /\ n \in Nat \ {0} /\ step * n > d
                  /\ \A m \in Nat : m < n => step * m <= d
                BY <3>2, <4>1, <4>2, LeastSteps
            <4>4. TermHolds(t, v + delta * n)
                BY <3>1, <3>3, <3>6, <4>3 DEF TermHolds, Term
            <4>5. ASSUME NEW m \in Nat, m < n PROVE ~TermHolds(t, v + delta * m)
                <5>1. PICK p \in Int : p = step * m
                    BY <3>3
                <5>2. p <= d
                    BY <4>3, <4>5, <5>1
                <5>3. v + delta * m = t.lit + d - p
                    BY <3>3, <5>1
                <5> QED BY <3>1, <3>6, <5>2, <5>3 DEF TermHolds, Term
            <4> QED BY <4>3, <4>4, <4>5
        <3>7. CASE t.op \in LowerOps
            BY <1>2, <2>3, <3>7 DEF MinimumRepetitions, LowerOps
        <3> QED BY <2>3, <3>4, <3>5, <3>6, <3>7 DEF Term, Ops, UpperOps
    <2>4. CASE delta = 0
        BY <1>2, <2>4 DEF MinimumRepetitions
    <2> QED BY <2>1, <2>2, <2>3, <2>4
<1> QED BY <1>1, <1>2

-----------------------------------------------------------------------------
(* Induction in terms of sets, from the well-foundedness of the natural    *)
(* numbers.                                                                *)

\* A set of natural numbers has a least element.
LEMMA LeastNatural ==
    ASSUME NEW T \in SUBSET Nat, T # {}
    PROVE  \E n \in T : \A m \in T : n <= m
  <1> PICK R : R = {ss \in Nat \X Nat : ss[1] < ss[2]}
    OBVIOUS
  <1>1. IsWellFoundedOn(R, Nat)
    BY NatLessThanWellFounded DEF OpToRel
  <1>2. \A m, n \in Nat : m < n => <<m, n>> \in R
    OBVIOUS
  <1>3. PICK n \in T : \A m \in T : <<m, n>> \notin R
    BY <1>1, WFMin
  <1>4. \A m \in T : m \in Nat /\ n \in Nat /\ ~(m < n)
    BY <1>2, <1>3
  <1> QED BY <1>4

\* What holds of 0 and is handed on by each number below n holds up to n.
LEMMA Induction ==
    ASSUME NEW n \in Nat, NEW T, 0 \in T, \A i \in 1..n : i - 1 \in T => i \in T
    PROVE  \A i \in 0..n : i \in T
  <1> SUFFICES ASSUME NEW k \in 0..n, k \notin T PROVE FALSE
    OBVIOUS
  <1> PICK U : U = {i \in 0..n : i \notin T}
    OBVIOUS
  <1>1. U \in SUBSET Nat /\ U # {}
    OBVIOUS
  <1>2. PICK i \in U : \A m \in U : i <= m
    BY <1>1, LeastNatural
  <1>3. i \in 1..n /\ i - 1 \in 0..n /\ ~(i <= i - 1)
    BY <1>2
  <1>4. i - 1 \in T
    BY <1>2, <1>3
  <1> QED BY <1>2, <1>3, <1>4

\* A recursive function over 0..n: `base` at 0, and `step` from each value to the next.
Unfolds(f, n, base, step) == f[0] = base /\ \A i \in 1..n : f[i] = step[<<f[i - 1], i>>]

\* There is one.
LEMMA Recursion ==
    ASSUME NEW n \in Nat, NEW S, NEW base \in S, NEW step \in [S \X (1..n) -> S]
    PROVE  \E f \in [0..n -> S] : Unfolds(f, n, base, step)
  <1> PICK T : T = {m \in 0..n : \E f \in [0..m -> S] : Unfolds(f, m, base, step)}
    OBVIOUS
  <1>1. 0 \in T
    <2> PICK f : f = [i \in 0..0 |-> base]
      OBVIOUS
    <2>1. f \in [0..0 -> S] /\ f[0] = base /\ 0 \in 0..n /\ \A i \in 1..0 : FALSE
      OBVIOUS
    <2> QED BY <2>1 DEF Unfolds
  <1>2. ASSUME NEW i \in 1..n, i - 1 \in T PROVE i \in T
    <2>1. PICK f \in [0..(i - 1) -> S] : Unfolds(f, i - 1, base, step)
      BY <1>2
    <2>2. f[i - 1] \in S /\ <<f[i - 1], i>> \in S \X (1..n)
      OBVIOUS
    <2>3. PICK x \in S : x = step[<<f[i - 1], i>>]
      BY <2>2
    <2>4. PICK g : g = [j \in 0..i |-> IF j = i THEN x ELSE f[j]]
      OBVIOUS
    <2>5. g \in [0..i -> S] /\ g[0] = base /\ g[i] = x /\ g[i - 1] = f[i - 1]
      BY <2>1, <2>4 DEF Unfolds
    <2>6. ASSUME NEW j \in 1..i PROVE g[j] = step[<<g[j - 1], j>>]
      <3>1. CASE j = i
        BY <2>3, <2>5, <3>1
      <3>2. CASE j # i
        <4>1. j \in 1..(i - 1) /\ g[j] = f[j] /\ g[j - 1] = f[j - 1]
          BY <2>4, <3>2
        <4> QED BY <2>1, <4>1 DEF Unfolds
      <3> QED BY <3>1, <3>2
    <2>7. Unfolds(g, i, base, step)
      BY <2>5, <2>6 DEF Unfolds
    <2> QED BY <2>5, <2>7
  <1>3. \A i \in 1..n : i - 1 \in T => i \in T
    BY <1>2
  <1>4. \A i \in 0..n : i \in T
    BY <1>1, <1>3, Induction, Zenon
  <1>5. n \in T
    BY <1>4
  <1> QED BY <1>5

-----------------------------------------------------------------------------
(* The change of a lap. *)
Summed(cycle, f) ==
    f = [i \in 0..Len(cycle) |->
            IF i = 0 THEN 0
            ELSE f[i - 1] + Change(graph.edges[cycle[i]].effect)
                          + Change(graph.arrive[graph.edges[cycle[i]].dst])]

(* The change of the first n edges of a cycle is that of the first n - 1   *)
(* and of the n-th.                                                        *)
LEMMA DeltaUnfolds ==
    ASSUME IsGraph(graph), NEW cycle \in Seq(Edges(graph))
    PROVE  /\ DeltaOf(cycle, 0) = 0
           /\ \A n \in 0..Len(cycle) : DeltaOf(cycle, n) \in Int
           /\ \A n \in 1..Len(cycle) :
                 DeltaOf(cycle, n) = DeltaOf(cycle, n - 1)
                                        + Change(graph.edges[cycle[n]].effect)
                                        + Change(graph.arrive[graph.edges[cycle[n]].dst])
<1> PICK n \in Nat : n = Len(cycle)
    OBVIOUS
<1>0. PICK here, there : /\ here = [i \in 1..n |-> Change(graph.edges[cycle[i]].effect)]
                         /\ there = [i \in 1..n |-> Change(graph.arrive[graph.edges[cycle[i]].dst])]
    OBVIOUS
<1>1. here \in [1..n -> Int] /\ there \in [1..n -> Int]
    <2>1. \A e \in Edges(graph) : /\ graph.edges[e].effect \in Effect
                                  /\ graph.arrive[graph.edges[e].dst] \in Effect
        BY DEF IsGraph
    <2>2. \A x \in Effect : Change(x) \in Int
        BY DEF Effect, NoEffect, Change
    <2>3. \A i \in 1..n : cycle[i] \in Edges(graph)
        OBVIOUS
    <2> QED BY <1>0, <2>1, <2>2, <2>3
<1>2. PICK step : step = [q \in Int \X (1..n) |-> q[1] + here[q[2]] + there[q[2]]]
    OBVIOUS
<1>3. step \in [Int \X (1..n) -> Int]
    BY <1>1, <1>2
<1>4. PICK f \in [0..n -> Int] : Unfolds(f, n, 0, step)
    BY <1>3, 0 \in Int, Recursion
<1>5. \A i \in 1..n : f[i] = f[i - 1] + here[i] + there[i]
    <2> TAKE i \in 1..n
    <2>1. PICK q : q = <<f[i - 1], i>>
        OBVIOUS
    <2>2. q \in Int \X (1..n) /\ q[1] = f[i - 1] /\ q[2] = i
        BY <1>4, <2>1
    <2>3. f[i] = step[q]
        BY <1>4, <2>1 DEF Unfolds
    <2> QED BY <1>2, <2>2, <2>3
<1>6. Summed(cycle, f)
    <2>1. f = [i \in 0..n |-> f[i]]
        BY <1>4
    <2>2. \A i \in 0..n : i = 0 \/ i \in 1..n
        OBVIOUS
    <2>3. \A i \in 1..n : i # 0
        OBVIOUS
    <2>4. \A i \in 0..n : f[i] = IF i = 0 THEN 0
                                 ELSE f[i - 1] + Change(graph.edges[cycle[i]].effect)
                                        + Change(graph.arrive[graph.edges[cycle[i]].dst])
        BY <1>0, <1>4, <1>5, <2>2, <2>3, Zenon DEF Unfolds
    <2> QED BY <2>1, <2>4, Zenon DEF Summed
<1> DEFINE sum == CHOOSE g : Summed(cycle, g)
<1>7. \A m : DeltaOf(cycle, m) = sum[m]
    BY DEF DeltaOf, Summed
<1>8. Summed(cycle, sum)
    BY <1>6
<1> HIDE DEF sum
<1>9. sum[0] = 0
    BY <1>8, 0 \in 0..Len(cycle), Zenon DEF Summed
<1>10. \A i \in 1..n : sum[i] = sum[i - 1] + here[i] + there[i]
    <2> TAKE i \in 1..n
    <2>1. i \in 0..Len(cycle) /\ i # 0
        OBVIOUS
    <2> QED BY <1>0, <1>8, <2>1, Zenon DEF Summed
<1>11. \A i \in 0..n : sum[i] \in Int
    <2> PICK T : T = {i \in 0..n : sum[i] \in Int}
        OBVIOUS
    <2>1. 0 \in T
        BY <1>9
    <2>2. \A i \in 1..n : i - 1 \in T => i \in T
        <3> SUFFICES ASSUME NEW i \in 1..n, i - 1 \in T PROVE i \in T
            OBVIOUS
        <3>1. sum[i - 1] \in Int /\ here[i] \in Int /\ there[i] \in Int
            BY <1>1
        <3> QED BY <1>10, <3>1
    <2>3. \A i \in 0..n : i \in T
        BY <2>1, <2>2, Induction, Zenon
    <2> QED BY <2>3
<1>12. \A m \in 1..n : DeltaOf(cycle, m) = DeltaOf(cycle, m - 1)
                                        + Change(graph.edges[cycle[m]].effect)
                                        + Change(graph.arrive[graph.edges[cycle[m]].dst])
    BY <1>0, <1>7, <1>10
<1> QED BY <1>7, <1>9, <1>11, <1>12

-----------------------------------------------------------------------------
(* Unique keeps the first of equal entries, so at least one.               *)
Firsts(s, f) ==
    f = [i \in 0..Len(s) |->
            IF i = 0 THEN <<>>
            ELSE IF s[i] \in ToSet(f[i - 1]) THEN f[i - 1] ELSE Append(f[i - 1], s[i])]

(* What Unique leaves of a list has the same kind of entries, and is empty *)
(* only for the empty list.                                                *)
LEMMA UniqueKeepsOne ==
    ASSUME NEW S, NEW s \in Seq(S)
    PROVE  Unique(s) \in Seq(S) /\ (Unique(s) = <<>> => s = <<>>)
<1> PICK n \in Nat : n = Len(s)
    OBVIOUS
<1>0. PICK step : step = [q \in Seq(S) \X (1..n) |->
                            IF s[q[2]] \in ToSet(q[1]) THEN q[1] ELSE Append(q[1], s[q[2]])]
    OBVIOUS
<1>1. step \in [Seq(S) \X (1..n) -> Seq(S)]
    <2>1. \A q \in Seq(S) \X (1..n) : Append(q[1], s[q[2]]) \in Seq(S) /\ q[1] \in Seq(S)
        OBVIOUS
    <2> QED BY <1>0, <2>1
<1>2. PICK f \in [0..n -> Seq(S)] : Unfolds(f, n, <<>>, step)
    <2>1. <<>> \in Seq(S)
        OBVIOUS
    <2> QED BY <1>1, <2>1, Recursion
<1>3. Firsts(s, f)
    <2>1. \A i \in 1..n : f[i] = IF s[i] \in ToSet(f[i - 1]) THEN f[i - 1]
                                 ELSE Append(f[i - 1], s[i])
        <3> TAKE i \in 1..n
        <3>1. i - 1 \in 0..n
            OBVIOUS
        <3>2. f[i - 1] \in Seq(S)
            BY <1>2, <3>1, Zenon
        <3>3. PICK q : q = <<f[i - 1], i>>
            OBVIOUS
        <3>4. q \in Seq(S) \X (1..n) /\ q[1] = f[i - 1] /\ q[2] = i
            BY <3>2, <3>3
        <3>5. f[i] = step[q]
            BY <1>2, <3>3 DEF Unfolds
        <3> QED BY <1>0, <3>4, <3>5
    <2>2. f = [i \in 0..n |-> f[i]]
        BY <1>2
    <2>3. \A i \in 0..n : i = 0 \/ i \in 1..n
        OBVIOUS
    <2>4. \A i \in 1..n : i # 0
        OBVIOUS
    <2>5. \A i \in 0..n : f[i] = IF i = 0 THEN <<>>
                ELSE IF s[i] \in ToSet(f[i - 1]) THEN f[i - 1] ELSE Append(f[i - 1], s[i])
        BY <1>2, <2>1, <2>3, <2>4, Zenon DEF Unfolds
    <2> QED BY <2>2, <2>5, Zenon DEF Firsts
<1> DEFINE kept == CHOOSE g : Firsts(s, g)
<1>4. Unique(s) = kept[n]
    BY DEF Unique, Firsts
<1>5. Firsts(s, kept)
    BY <1>3
<1> HIDE DEF kept
<1> PICK T : T = {i \in 0..n : kept[i] \in Seq(S) /\ (i > 0 => kept[i] # <<>>)}
    OBVIOUS
<1>6. 0 \in T
    <2>1. kept[0] = <<>>
        BY <1>5, 0 \in 0..Len(s), Zenon DEF Firsts
    <2>2. <<>> \in Seq(S)
        OBVIOUS
    <2>3. 0 \in 0..n /\ ~(0 > 0)
        OBVIOUS
    <2> QED BY <2>1, <2>2, <2>3, Zenon
<1>7. ASSUME NEW i \in 1..n, i - 1 \in T PROVE i \in T
    <2>1. i \in 0..Len(s) /\ i # 0 /\ kept[i - 1] \in Seq(S) /\ s[i] \in S
        BY <1>7
    <2>2. kept[i] = IF s[i] \in ToSet(kept[i - 1]) THEN kept[i - 1] ELSE Append(kept[i - 1], s[i])
        BY <1>5, <2>1, Zenon DEF Firsts
    <2>3. CASE s[i] \in ToSet(kept[i - 1])
        <3>1. kept[i - 1] # <<>>
            BY <2>3 DEF ToSet
        <3> QED BY <2>1, <2>2, <2>3, <3>1
    <2>4. CASE s[i] \notin ToSet(kept[i - 1])
        <3>1. kept[i] = Append(kept[i - 1], s[i])
            BY <2>2, <2>4
        <3>2. kept[i] \in Seq(S) /\ Len(kept[i]) = Len(kept[i - 1]) + 1
            BY <2>1, <3>1
        <3>3. kept[i] # <<>>
            BY <2>1, <3>2
        <3> QED BY <3>2, <3>3
    <2> QED BY <2>3, <2>4
<1>8. \A i \in 1..n : i - 1 \in T => i \in T
    BY <1>7
<1>9. \A i \in 0..n : i \in T
    BY <1>6, <1>8, Induction, Zenon
<1>10. n \in T
    BY <1>9
<1> QED BY <1>4, <1>10
-----------------------------------------------------------------------------
(* The cycle of a loop leads from its first node along loop edges back to  *)
(* it.                                                                     *)
Along(g, start, f) ==
    f = [i \in 0..Cardinality(Nodes) |-> IF i = 0 THEN {start} ELSE AlongLoop(g, f[i - 1])]

IsLoop(g, start, cycle) ==
    /\ cycle \in Seq(Edges(g)) /\ Len(cycle) \in Nat \ {0}
    /\ \A i \in 1..Len(cycle) :
          /\ g.edges[cycle[i]].resolved
          /\ g.edges[cycle[i]].src = IF i = 1 THEN start ELSE g.edges[cycle[i - 1]].dst
    /\ g.edges[cycle[Len(cycle)]].dst = start

(* A single loop edge of a node leaves it for a node.                      *)
LEMMA LoopEdgeIsOne ==
    ASSUME NEW g, IsGraph(g), NEW n, Cardinality(LoopEdges(g, n)) = 1
    PROVE  /\ OnlyLoopEdge(g, n) \in Edges(g)
           /\ g.edges[OnlyLoopEdge(g, n)].src = n /\ g.edges[OnlyLoopEdge(g, n)].resolved
           /\ g.edges[OnlyLoopEdge(g, n)].dst \in Nodes
<1>1. LoopEdges(g, n) # {}
    BY FS_EmptySet
<1>2. OnlyLoopEdge(g, n) \in LoopEdges(g, n)
    BY <1>1 DEF OnlyLoopEdge
<1> QED BY <1>2 DEF LoopEdges, From, IsGraph

(* _exact_structural_loop_cycle returns a closed walk from the node it     *)
(* starts at.                                                              *)
LEMMA CycleIsLoop ==
    ASSUME NEW g, IsGraph(g), NEW start \in Nodes, StructuralCycle(g, start) # <<>>
    PROVE  IsLoop(g, start, StructuralCycle(g, start))
<1>0. PICK n \in Nat : n = Cardinality(Nodes)
    BY GraphAssumption, FS_CardinalityType
<1>1. \A X : AlongLoop(g, X) \in SUBSET Nodes
    BY LoopEdgeIsOne DEF AlongLoop
<1>2. PICK step : step = [q \in (SUBSET Nodes) \X (1..n) |-> AlongLoop(g, q[1])]
    OBVIOUS
<1>3. step \in [(SUBSET Nodes) \X (1..n) -> SUBSET Nodes]
    BY <1>1, <1>2
<1>4. PICK f \in [0..n -> SUBSET Nodes] : Unfolds(f, n, {start}, step)
    BY <1>3, {start} \in SUBSET Nodes, Recursion
<1>5. Along(g, start, f)
    <2>1. \A i \in 1..n : f[i] = AlongLoop(g, f[i - 1])
        <3> TAKE i \in 1..n
        <3>1. PICK q : q = <<f[i - 1], i>>
            OBVIOUS
        <3>2. i - 1 \in 0..n
            OBVIOUS
        <3>3. q \in (SUBSET Nodes) \X (1..n) /\ q[1] = f[i - 1]
            BY <1>4, <3>1, <3>2
        <3>4. f[i] = step[q]
            BY <1>4, <3>1 DEF Unfolds
        <3> QED BY <1>2, <3>3, <3>4
    <2>2. f = [i \in 0..n |-> f[i]]
        BY <1>4
    <2>3. \A i \in 0..n : i = 0 \/ i \in 1..n
        OBVIOUS
    <2>4. \A i \in 1..n : i # 0
        OBVIOUS
    <2>5. \A i \in 0..n : f[i] = IF i = 0 THEN {start} ELSE AlongLoop(g, f[i - 1])
        BY <1>4, <2>1, <2>3, <2>4, Zenon DEF Unfolds
    <2> QED BY <1>0, <2>2, <2>5, Zenon DEF Along
<1> DEFINE at == CHOOSE h : Along(g, start, h)
           returns == {i \in 1..Cardinality(Nodes) : at[i] = {start}}
           length == CHOOSE i \in returns : \A j \in returns : i <= j
           cycle == StructuralCycle(g, start)
<1>6. cycle = IF returns = {} THEN <<>>
              ELSE [i \in 1..length |-> OnlyLoopEdge(g, CHOOSE x \in at[i - 1] : TRUE)]
    BY DEF StructuralCycle, Along
<1>7. Along(g, start, at)
    BY <1>5
<1> HIDE DEF at
<1>8. returns # {} /\ returns \in SUBSET Nat
    BY <1>0, <1>6
<1>9. length \in returns
    <2>1. \E i \in returns : \A j \in returns : i <= j
        BY <1>8, LeastNatural
    <2> QED BY <2>1, Zenon
<1>10. length \in 1..n /\ at[length] = {start}
    BY <1>0, <1>9
<1> HIDE DEF returns, length
<1>11. at[0] = {start}
    <2>1. 0 \in 0..Cardinality(Nodes)
        BY <1>0
    <2> QED BY <1>7, <2>1, Zenon DEF Along
<1>12. \A i \in 1..n : at[i] = AlongLoop(g, at[i - 1])
    <2> TAKE i \in 1..n
    <2>1. i \in 0..Cardinality(Nodes) /\ i # 0
        BY <1>0
    <2> QED BY <1>7, <2>1, Zenon DEF Along
<1>13. ASSUME NEW i \in 1..n, NEW x, at[i - 1] = {x}, at[i] # {}
       PROVE  Cardinality(LoopEdges(g, x)) = 1 /\ at[i] = {g.edges[OnlyLoopEdge(g, x)].dst}
    BY <1>12, <1>13 DEF AlongLoop
<1>14. \A i \in 1..n : at[i - 1] = {} => at[i] = {}
    BY <1>12 DEF AlongLoop
<1>15. \A i \in 0..length : at[i] # {}
    <2> PICK T : T = {i \in 0..length : at[length - i] # {}}
        OBVIOUS
    <2>1. 0 \in T
        <3>1. 0 \in 0..length /\ length - 0 = length /\ {start} # {}
            BY <1>10
        <3> QED BY <1>10, <3>1
    <2>2. ASSUME NEW i \in 1..length, i - 1 \in T PROVE i \in T
        <3>1. length - (i - 1) \in 1..n /\ (length - (i - 1)) - 1 = length - i
            BY <1>10
        <3>2. at[length - (i - 1)] # {}
            BY <2>2
        <3>3. at[length - i] # {}
            BY <1>14, <3>1, <3>2
        <3> QED BY <3>3
    <2>3. \A i \in 1..length : i - 1 \in T => i \in T
        BY <2>2
    <2>4. length \in Nat
        BY <1>10
    <2>5. \A i \in 0..length : i \in T
        BY <2>1, <2>3, <2>4, Induction, Zenon
    <2> TAKE i \in 0..length
    <2>6. length - i \in 0..length /\ length - (length - i) = i
        BY <1>10
    <2> QED BY <2>5, <2>6
<1>16. \A i \in 0..length : \E x : at[i] = {x}
    <2> PICK T : T = {i \in 0..length : \E x : at[i] = {x}}
        OBVIOUS
    <2>1. 0 \in T
        <3>1. 0 \in 0..length
            BY <1>10
        <3> QED BY <1>11, <3>1, Zenon
    <2>2. ASSUME NEW i \in 1..length, i - 1 \in T PROVE i \in T
        <3>1. PICK x : at[i - 1] = {x}
            BY <2>2
        <3>2. i \in 1..n /\ i \in 0..length
            BY <1>10
        <3> QED BY <1>13, <1>15, <3>1, <3>2
    <2>3. \A i \in 1..length : i - 1 \in T => i \in T
        BY <2>2
    <2>4. length \in Nat
        BY <1>10
    <2>5. \A i \in 0..length : i \in T
        BY <2>1, <2>3, <2>4, Induction, Zenon
    <2> QED BY <2>5
<1>17. cycle = [i \in 1..length |-> OnlyLoopEdge(g, CHOOSE x \in at[i - 1] : TRUE)]
    BY <1>6, <1>8
<1> HIDE DEF cycle
<1>18. ASSUME NEW i \in 1..length
       PROVE  /\ cycle[i] \in Edges(g) /\ g.edges[cycle[i]].resolved
              /\ at[i - 1] = {g.edges[cycle[i]].src} /\ at[i] = {g.edges[cycle[i]].dst}
    <2>1. i - 1 \in 0..length /\ i \in 0..length /\ i \in 1..n
        BY <1>10
    <2>2. PICK x : at[i - 1] = {x}
        BY <1>16, <2>1
    <2>3. (CHOOSE y \in at[i - 1] : TRUE) = x
        BY <2>2
    <2>4. cycle[i] = OnlyLoopEdge(g, x)
        BY <1>17, <2>3
    <2>5. Cardinality(LoopEdges(g, x)) = 1 /\ at[i] = {g.edges[OnlyLoopEdge(g, x)].dst}
        BY <1>13, <1>15, <2>1, <2>2
    <2> QED BY <2>2, <2>4, <2>5, LoopEdgeIsOne
<1>19. cycle \in Seq(Edges(g)) /\ Len(cycle) = length
    <2>1. length \in Nat
        BY <1>10
    <2>2. cycle = [i \in 1..length |-> cycle[i]]
        BY <1>17
    <2>3. cycle \in [1..length -> Edges(g)]
        BY <1>18, <2>2
    <2> QED BY <2>1, <2>3
<1>20. ASSUME NEW i \in 1..length
       PROVE  g.edges[cycle[i]].src = IF i = 1 THEN start ELSE g.edges[cycle[i - 1]].dst
    <2>1. CASE i = 1
        BY <1>11, <1>18, <2>1
    <2>2. CASE i # 1
        <3>1. i - 1 \in 1..length
            BY <1>10, <2>2
        <3> QED BY <1>18, <2>2, <3>1
    <2> QED BY <2>1, <2>2
<1>21. g.edges[cycle[length]].dst = start
    <2>1. length \in 1..length
        BY <1>10
    <2>2. at[length] = {g.edges[cycle[length]].dst}
        BY <1>18, <2>1
    <2> QED BY <1>10, <2>2
<1> QED BY <1>10, <1>18, <1>19, <1>20, <1>21 DEF IsLoop, cycle

-----------------------------------------------------------------------------
(* Positions in a path of laps. *)
LEMMA QuotientIsUnique ==
    ASSUME NEW d \in Nat \ {0}, NEW q \in Int, NEW p \in Int,
           NEW r \in 0..(d - 1), NEW t \in 0..(d - 1), d * q + r = d * p + t
    PROVE  q = p /\ r = t
<1>1. ~(q < p)
    <2> SUFFICES ASSUME q < p PROVE FALSE
        OBVIOUS
    <2>1. d * q \in Int /\ d * p \in Int /\ d * q + d <= d * p
        BY ProductSteps
    <2> QED BY <2>1
<1>2. ~(p < q)
    <2> SUFFICES ASSUME p < q PROVE FALSE
        OBVIOUS
    <2>1. d * q \in Int /\ d * p \in Int /\ d * p + d <= d * q
        BY ProductSteps
    <2> QED BY <2>1
<1>3. q = p
    BY <1>1, <1>2
<1>4. d * q \in Int
    OBVIOUS
<1> QED BY <1>3, <1>4

(* Counting on by one counts on in the lap, or begins the next one.        *)
LEMMA NextPosition ==
    ASSUME NEW d \in Nat \ {0}, NEW k \in Nat
    PROVE  /\ k \div d \in Nat /\ k % d \in 0..(d - 1)
           /\ (k % d) + 1 < d => (k + 1) % d = (k % d) + 1 /\ (k + 1) \div d = k \div d
           /\ (k % d) + 1 = d => (k + 1) % d = 0 /\ (k + 1) \div d = (k \div d) + 1
<1>1. PICK q \in Int, r \in 0..(d - 1) : q = k \div d /\ r = k % d /\ k = d * q + r
    OBVIOUS
<1>2. PICK p \in Int, t \in 0..(d - 1) :
            p = (k + 1) \div d /\ t = (k + 1) % d /\ k + 1 = d * p + t
    OBVIOUS
<1>3. d * q \in Int /\ d * p \in Int /\ d * (q + 1) = d * q + d
    OBVIOUS
<1>4. CASE r + 1 < d
    <2>1. r + 1 \in 0..(d - 1) /\ d * q + (r + 1) = d * p + t
        BY <1>1, <1>2, <1>3, <1>4
    <2>2. q = p /\ r + 1 = t
        BY <2>1, QuotientIsUnique
    <2> QED BY <1>1, <1>2, <1>4, <2>2
<1>5. CASE r + 1 = d
    <2>1. 0 \in 0..(d - 1) /\ d * (q + 1) + 0 = d * p + t
        BY <1>1, <1>2, <1>3, <1>5
    <2>2. q + 1 = p /\ 0 = t
        BY <2>1, QuotientIsUnique
    <2> QED BY <1>1, <1>2, <1>5, <2>2
<1>6. q >= 0
    <2> SUFFICES ASSUME q < 0 PROVE FALSE
        OBVIOUS
    <2>1. d * q + d <= d * 0
        BY ProductSteps
    <2> QED BY <1>1, <1>3, <2>1
<1> QED BY <1>1, <1>4, <1>5, <1>6

-----------------------------------------------------------------------------
(* A route played edge by edge: at[i] are the values after i edges.        *)
Steps == [edge : Edges(graph), group : Edges(graph) \cup {None}]

NodeAt(path, i) == IF i = 0 THEN Root ELSE graph.edges[path[i].edge].dst

Leads(path, at, i) ==
    /\ path[i].edge \in Edges(graph)
    /\ graph.edges[path[i].edge].src = NodeAt(path, i - 1)
    /\ \A v \in at[i - 1] : GateHolds(graph.edges[path[i].edge].gate, v)
    /\ at[i] = Over(graph, path[i].edge, at[i - 1]) /\ at[i] # {}

Played(path, at) ==
    /\ at \in [0..Len(path) -> SUBSET Int]
    /\ at[0] = Effects(graph.arrive[Root], StartValues(graph)) /\ at[0] # {}
    /\ \A i \in 1..Len(path) : Leads(path, at, i)

(* What is played one edge further.                                        *)
LEMMA PlayedOn ==
    ASSUME NEW path \in Seq(Steps), NEW at, Played(path, at), NEW step \in Steps,
           graph.edges[step.edge].src = NodeAt(path, Len(path)),
           \A v \in at[Len(path)] : GateHolds(graph.edges[step.edge].gate, v),
           NEW vs \in SUBSET Int, vs = Over(graph, step.edge, at[Len(path)]), vs # {}
    PROVE  \E on : /\ Played(Append(path, step), on) /\ on[Len(path) + 1] = vs
                   /\ NodeAt(Append(path, step), Len(path) + 1) = graph.edges[step.edge].dst
<1>1. PICK n \in Nat : n = Len(path)
    OBVIOUS
<1>2. PICK further : further = Append(path, step)
    OBVIOUS
<1>3. /\ Len(further) = n + 1 /\ further[n + 1] = step
      /\ \A i \in 1..n : further[i] = path[i]
    BY <1>1, <1>2
<1>4. PICK on : on = [i \in 0..(n + 1) |-> IF i = n + 1 THEN vs ELSE at[i]]
    OBVIOUS
<1>5. at \in [0..n -> SUBSET Int] /\ at[0] = Effects(graph.arrive[Root], StartValues(graph))
      /\ at[0] # {}
    BY <1>1 DEF Played
<1>6. /\ on \in [0..(n + 1) -> SUBSET Int] /\ on[n + 1] = vs
      /\ \A i \in 0..n : on[i] = at[i]
    BY <1>4, <1>5
<1>7. \A i \in 0..n : NodeAt(further, i) = NodeAt(path, i)
    BY <1>3 DEF NodeAt
<1>8. ASSUME NEW i \in 1..n PROVE Leads(further, on, i)
    <2>1. Leads(path, at, i)
        BY <1>1 DEF Played
    <2>2. i \in 0..n /\ i - 1 \in 0..n
        OBVIOUS
    <2> QED BY <1>3, <1>6, <1>7, <2>1, <2>2 DEF Leads
<1>9. Leads(further, on, n + 1)
    <2>1. n \in 0..n /\ (n + 1) - 1 = n
        OBVIOUS
    <2>2. on[(n + 1) - 1] = at[n] /\ NodeAt(further, (n + 1) - 1) = NodeAt(path, n)
        BY <1>6, <1>7, <2>1
    <2>3. further[n + 1].edge = step.edge /\ step.edge \in Edges(graph)
        BY <1>3 DEF Steps
    <2> QED BY <1>1, <1>6, <2>2, <2>3 DEF Leads
<1>10. Played(further, on)
    <2>1. \A i \in 1..(n + 1) : i \in 1..n \/ i = n + 1
        OBVIOUS
    <2>2. \A i \in 1..Len(further) : Leads(further, on, i)
        BY <1>3, <1>8, <1>9, <2>1
    <2>3. on[0] = at[0]
        BY <1>6
    <2> QED BY <1>3, <1>5, <1>6, <2>2, <2>3 DEF Played
<1>11. NodeAt(further, n + 1) = graph.edges[step.edge].dst
    BY <1>3 DEF NodeAt
<1> QED BY <1>1, <1>2, <1>6, <1>10, <1>11

(* What is played is walkable.                                             *)
Walks(g, path, f) ==
    f = [i \in 0..Len(path) |->
            IF i = 0 THEN Effects(g.arrive[Root], StartValues(g)) ELSE Over(g, path[i], f[i - 1])]

(* The values of a played route are those that Walkable computes.          *)
LEMMA PlayedIsWalkable ==
    ASSUME NEW s, s.path \in Seq(Steps), NEW at, Played(s.path, at)
    PROVE  Walkable(graph, PathEdges(s))
<1>1. PICK path, n : path = PathEdges(s) /\ n = Len(s.path)
    OBVIOUS
<1>2. /\ n \in Nat /\ path = [i \in 1..n |-> s.path[i].edge]
      /\ Len(path) = n /\ DOMAIN path = 1..n
    <2>1. n \in Nat /\ DOMAIN s.path = 1..n
        BY <1>1
    <2>2. path = [i \in 1..n |-> s.path[i].edge]
        BY <1>1, <2>1 DEF PathEdges
    <2>3. \A i \in 1..n : s.path[i].edge \in Edges(graph)
        <3> TAKE i \in 1..n
        <3>1. s.path[i] \in Steps
            BY <1>1
        <3> QED BY <3>1 DEF Steps
    <2>4. path \in Seq(Edges(graph)) /\ DOMAIN path = 1..n
        BY <2>1, <2>2, <2>3
    <2> QED BY <2>1, <2>2, <2>4
<1>3. /\ at \in [0..n -> SUBSET Int] /\ at[0] = Effects(graph.arrive[Root], StartValues(graph))
      /\ \A i \in 1..n : Leads(s.path, at, i)
    BY <1>1 DEF Played
<1>4. \A i \in 1..n : at[i] = Over(graph, path[i], at[i - 1])
    BY <1>2, <1>3 DEF Leads
<1>5. Walks(graph, path, at)
    <2>1. at = [i \in 0..n |-> at[i]]
        BY <1>3
    <2>2. \A i \in 0..n : i = 0 \/ i \in 1..n
        BY <1>2
    <2>3. \A i \in 1..n : i # 0
        BY <1>2
    <2>4. \A i \in 0..n : at[i] = IF i = 0 THEN Effects(graph.arrive[Root], StartValues(graph))
                                  ELSE Over(graph, path[i], at[i - 1])
        BY <1>3, <1>4, <2>2, <2>3, Zenon
    <2> QED BY <1>2, <2>1, <2>4, Zenon DEF Walks
<1> DEFINE f == CHOOSE h : Walks(graph, path, h)
           end(i) == IF i = 0 THEN Root ELSE graph.edges[path[i]].dst
<1>6. Walkable(graph, path) <=>
        \A i \in DOMAIN path :
            /\ graph.edges[path[i]].src = end(i - 1)
            /\ \A v \in f[i - 1] : GateHolds(graph.edges[path[i]].gate, v)
            /\ f[i] # {}
    BY DEF Walkable, Walks
<1>7. Walks(graph, path, f)
    BY <1>5
<1> HIDE DEF f
<1>8. \A i \in 0..n : f[i] = at[i]
    <2> PICK T : T = {i \in 0..n : f[i] = at[i]}
        OBVIOUS
    <2>1. 0 \in T
        <3>1. 0 \in 0..Len(path) /\ 0 \in 0..n
            BY <1>2
        <3>2. f[0] = at[0]
            BY <1>3, <1>7, <3>1, Zenon DEF Walks
        <3> QED BY <3>1, <3>2
    <2>2. ASSUME NEW i \in 1..n, i - 1 \in T PROVE i \in T
        <3>1. i \in 0..Len(path) /\ i # 0 /\ i \in 0..n
            BY <1>2
        <3>2. f[i] = Over(graph, path[i], f[i - 1])
            BY <1>7, <3>1, Zenon DEF Walks
        <3>3. f[i - 1] = at[i - 1]
            BY <2>2
        <3> QED BY <1>4, <3>1, <3>2, <3>3
    <2>3. \A i \in 1..n : i - 1 \in T => i \in T
        BY <2>2
    <2>4. \A i \in 0..n : i \in T
        BY <1>2, <2>1, <2>3, Induction, Zenon
    <2> QED BY <2>4
<1>9. ASSUME NEW i \in 1..n
      PROVE  /\ graph.edges[path[i]].src = end(i - 1)
             /\ \A v \in f[i - 1] : GateHolds(graph.edges[path[i]].gate, v)
             /\ f[i] # {}
    <2>1. Leads(s.path, at, i) /\ path[i] = s.path[i].edge
        BY <1>2, <1>3
    <2>2. i - 1 \in 0..n /\ i \in 0..n
        BY <1>2
    <2>3. NodeAt(s.path, i - 1) = end(i - 1)
        BY <1>2, <2>2 DEF NodeAt
    <2> QED BY <1>8, <2>1, <2>2, <2>3 DEF Leads
<1> QED BY <1>1, <1>2, <1>6, <1>9

-----------------------------------------------------------------------------
(* Partial routes: what the solver knows of the value is so.               *)
IsRecord(s) ==
    s = [node |-> s.node, value |-> s.value, source |-> s.source, constraint |-> s.constraint,
         path |-> s.path, requirements |-> s.requirements, warnings |-> s.warnings,
         loops |-> s.loops, suppressed |-> s.suppressed, id |-> s.id]

IsState(s) ==
    /\ IsRecord(s)
    /\ s.node \in Nodes /\ s.value \in Int \cup {Unknown} /\ s.path \in Seq(Steps)
    /\ \E T : s.warnings \in Seq(T)
    /\ ~Relevant(graph) => s.value = Unknown

Allows(value, vs) == vs \in SUBSET Int /\ vs # {} /\ (value # Unknown => vs = {value})

(* On arrival at a node, its own effect is still to come ...               *)
Follows(s) ==
    s.warnings = <<>> =>
        \E at, vs : /\ Played(s.path, at) /\ NodeAt(s.path, Len(s.path)) = s.node
                    /\ at[Len(s.path)] = Effects(graph.arrive[s.node], vs)
                    /\ Allows(s.value, vs)

(* ... until it is expanded.                                               *)
Stands(s) ==
    s.warnings = <<>> =>
        \E at : /\ Played(s.path, at) /\ NodeAt(s.path, Len(s.path)) = s.node
                /\ Allows(s.value, at[Len(s.path)])

(* An effect leaves values, and a known value known unless the write is    *)
(* not understood.                                                         *)
LEMMA EffectsAllow ==
    ASSUME NEW effect \in Effect, NEW value, NEW vs, Allows(value, vs)
    PROVE  /\ Effects(effect, vs) \in SUBSET Int /\ Effects(effect, vs) # {}
           /\ effect.op = "none" => Effects(effect, vs) = vs
           /\ effect.op = "set" => Effects(effect, vs) = {effect.value} /\ effect.value \in Int
           /\ effect.op = "add" /\ value # Unknown
                => /\ Effects(effect, vs) = {value + effect.value}
                   /\ value \in Int /\ value + effect.value \in Int
           /\ effect.op \in {"none", "set", "add", "other"}
<1>1. effect.op \in {"none", "set", "add", "other"} /\ effect.value \in Int
    BY DEF Effect, NoEffect
<1>2. CASE effect.op = "none"
    BY <1>2 DEF Effects, Allows
<1>3. CASE effect.op = "set"
    BY <1>1, <1>3 DEF Effects, Allows
<1>4. CASE effect.op = "add"
    <2>1. Effects(effect, vs) = {v + effect.value : v \in vs}
        BY <1>4 DEF Effects
    <2>2. value # Unknown => vs = {value} /\ value \in Int
        BY DEF Allows
    <2>3. vs # {} /\ vs \in SUBSET Int
        BY DEF Allows
    <2>4. Effects(effect, vs) \in SUBSET Int /\ Effects(effect, vs) # {}
        <3>1. PICK c \in Int : c = effect.value
            BY <1>1
        <3>2. \A x \in Effects(effect, vs) : \E v \in vs : x = v + c
            BY <2>1, <3>1
        <3>3. PICK v \in vs : TRUE
            BY <2>3
        <3>4. v + c \in Effects(effect, vs)
            BY <2>1, <3>1
        <3>5. \A w \in vs : w + c \in Int
            BY <2>3
        <3>6. \A x \in Effects(effect, vs) : x \in Int
            BY <3>2, <3>5
        <3> QED BY <3>4, <3>6
    <2>5. value # Unknown => /\ Effects(effect, vs) = {value + effect.value}
                             /\ value \in Int /\ value + effect.value \in Int
        BY <1>1, <2>1, <2>2
    <2> QED BY <1>1, <1>4, <2>4, <2>5
<1>5. CASE effect.op = "other"
    <2>1. Effects(effect, vs) = -Horizon..Horizon
        BY <1>5 DEF Effects, Values
    <2>2. 0 \in -Horizon..Horizon
        BY GraphAssumption
    <2>3. -Horizon..Horizon \in SUBSET Int
        BY GraphAssumption
    <2> QED BY <1>5, <2>1, <2>2, <2>3
<1> QED BY <1>1, <1>2, <1>3, <1>4, <1>5

(* What the solver does to the value is what the effect does.              *)
LEMMA EffectIsTaken ==
    ASSUME NEW s, IsState(s), NEW effect \in Effect, NEW fact, NEW t, t = WithEffect(s, effect, fact)
    PROVE  /\ IsState(t) /\ t.node = s.node /\ t.path = s.path
           /\ t.warnings = <<>> => s.warnings = <<>>
           /\ t.loops = s.loops /\ t.suppressed = s.suppressed /\ t.id = s.id
           /\ t.requirements = s.requirements
           /\ \A vs : Allows(s.value, vs) => Allows(t.value, Effects(effect, vs))
<1>1. effect.op \in {"none", "set", "add", "other"} /\ effect.value \in Int
    BY DEF Effect, NoEffect
<1>2. CASE effect.op = "none" \/ ~Relevant(graph)
    <2>1. t = s
        BY <1>2 DEF WithEffect
    <2>2. ASSUME NEW vs, Allows(s.value, vs) PROVE Allows(s.value, Effects(effect, vs))
        <3>1. CASE effect.op = "none"
            BY <2>2, <3>1, EffectsAllow
        <3>2. CASE ~Relevant(graph)
            BY <2>2, <3>2, EffectsAllow DEF Allows, IsState
        <3> QED BY <1>2, <3>1, <3>2
    <2> QED BY <2>1, <2>2
<1>3. CASE effect.op = "set" /\ Relevant(graph)
    <2>1. PICK v, source, constraint : t = [s EXCEPT !.value = v, !.source = source,
                                                     !.constraint = constraint]
                                       /\ v = effect.value
        BY <1>3 DEF WithEffect
    <2>2. /\ IsRecord(t) /\ t.node = s.node /\ t.path = s.path /\ t.warnings = s.warnings
          /\ t.loops = s.loops /\ t.suppressed = s.suppressed /\ t.id = s.id
          /\ t.requirements = s.requirements
          /\ t.value = effect.value
        BY <2>1 DEF IsState, IsRecord
    <2>3. ASSUME NEW vs, Allows(s.value, vs) PROVE Allows(t.value, Effects(effect, vs))
        BY <1>3, <2>2, <2>3, EffectsAllow DEF Allows
    <2> QED BY <1>1, <1>3, <2>2, <2>3 DEF IsState
<1>4. CASE effect.op = "add" /\ Relevant(graph) /\ s.value # Unknown
    <2>1. PICK v, source, constraint : t = [s EXCEPT !.value = v, !.source = source,
                                                     !.constraint = constraint]
                                       /\ v = s.value + effect.value
        BY <1>4 DEF WithEffect
    <2>2. /\ IsRecord(t) /\ t.node = s.node /\ t.path = s.path /\ t.warnings = s.warnings
          /\ t.loops = s.loops /\ t.suppressed = s.suppressed /\ t.id = s.id
          /\ t.requirements = s.requirements
          /\ t.value = s.value + effect.value
        BY <2>1 DEF IsState, IsRecord
    <2>3. s.value \in Int /\ s.value + effect.value \in Int
        <3>1. s.value \in Int
            BY <1>4 DEF IsState
        <3> QED BY <1>1, <3>1
    <2>4. ASSUME NEW vs, Allows(s.value, vs) PROVE Allows(t.value, Effects(effect, vs))
        <3>1. Effects(effect, vs) = {s.value + effect.value}
            BY <1>4, <2>4, EffectsAllow
        <3> QED BY <2>2, <2>3, <3>1 DEF Allows
    <2> QED BY <1>4, <2>2, <2>3, <2>4 DEF IsState
<1>5. CASE /\ (effect.op = "add" /\ s.value = Unknown) \/ effect.op = "other"
           /\ Relevant(graph)
    <2>1. PICK source, constraint, warnings :
            /\ t = [s EXCEPT !.value = Unknown, !.source = source, !.constraint = constraint,
                             !.warnings = warnings]
            /\ warnings = s.warnings \/ warnings = Append(s.warnings, <<"effect", fact>>)
        <3>1. CASE effect.op = "add"
            <4>1. t = [s EXCEPT !.value = Unknown, !.source = NoSource,
                                !.constraint = NoConstraint]
                BY <1>5, <3>1 DEF WithEffect
            <4>2. t = [s EXCEPT !.value = Unknown, !.source = NoSource,
                                !.constraint = NoConstraint, !.warnings = s.warnings]
                BY <4>1 DEF IsState, IsRecord
            <4> QED BY <4>2
        <3>2. CASE effect.op = "other"
            <4>1. PICK u : u = [s EXCEPT !.value = Unknown, !.source = NoSource,
                                         !.constraint = NoConstraint]
                OBVIOUS
            <4>2. t = [u EXCEPT !.warnings = Append(@, <<"effect", fact>>)]
                BY <1>5, <3>2, <4>1 DEF WithEffect
            <4>3. t = [s EXCEPT !.value = Unknown, !.source = NoSource,
                                !.constraint = NoConstraint,
                                !.warnings = Append(s.warnings, <<"effect", fact>>)]
                BY <4>1, <4>2 DEF IsState, IsRecord
            <4> QED BY <4>3
        <3> QED BY <1>5, <3>1, <3>2
    <2>2. /\ IsRecord(t) /\ t.node = s.node /\ t.path = s.path /\ t.warnings = warnings
          /\ t.loops = s.loops /\ t.suppressed = s.suppressed /\ t.id = s.id
          /\ t.requirements = s.requirements
          /\ t.value = Unknown
        BY <2>1 DEF IsState, IsRecord
    <2>3. (\E T : warnings \in Seq(T)) /\ (warnings = <<>> => s.warnings = <<>>)
        <3>1. PICK T : s.warnings \in Seq(T)
            BY DEF IsState
        <3>2. PICK x : x = <<"effect", fact>>
            OBVIOUS
        <3>3. s.warnings \in Seq(T \cup {x})
            BY <3>1
        <3>4. PICK longer : longer = Append(s.warnings, x)
            OBVIOUS
        <3>5. longer \in Seq(T \cup {x}) /\ Len(longer) = Len(s.warnings) + 1
            BY <3>3, <3>4
        <3>6. Len(s.warnings) \in Nat
            BY <3>1
        <3>7. longer # <<>>
            BY <3>5, <3>6
        <3> QED BY <2>1, <3>1, <3>2, <3>4, <3>5, <3>7
    <2>4. ASSUME NEW vs, Allows(s.value, vs) PROVE Allows(t.value, Effects(effect, vs))
        BY <2>2, <2>4, EffectsAllow DEF Allows
    <2> QED BY <1>5, <2>2, <2>3, <2>4 DEF IsState
<1> QED BY <1>1, <1>2, <1>3, <1>4, <1>5

(* The effect of a node taken on arrival (_apply_effect) leaves what is    *)
(* known of the value so.                                                  *)
LEMMA ArrivedStands ==
    ASSUME IsGraph(graph), NEW s, IsState(s), Follows(s)
    PROVE  /\ IsState(Arrived(s)) /\ Stands(Arrived(s))
<1>1. PICK effect : effect = graph.arrive[s.node]
    OBVIOUS
<1>2. effect \in Effect
    BY <1>1 DEF IsGraph, IsState
<1>3. PICK t : t = WithEffect(s, effect, s.node)
    OBVIOUS
<1>4. /\ IsState(t) /\ t.node = s.node /\ t.path = s.path
      /\ t.warnings = <<>> => s.warnings = <<>>
      /\ \A vs : Allows(s.value, vs) => Allows(t.value, Effects(effect, vs))
    BY <1>2, <1>3, EffectIsTaken
<1>5. PICK u, warnings : u = Arrived(s) /\ warnings = Unique(t.warnings)
    OBVIOUS
<1>6. u = [t EXCEPT !.warnings = warnings]
    BY <1>1, <1>3, <1>5 DEF Arrived
<1>7. /\ IsRecord(u) /\ u.node = t.node /\ u.path = t.path /\ u.value = t.value
      /\ u.warnings = warnings
    BY <1>4, <1>6 DEF IsState, IsRecord
<1>8. (\E T : warnings \in Seq(T)) /\ (warnings = <<>> => t.warnings = <<>>)
    BY <1>4, <1>5, UniqueKeepsOne DEF IsState
<1>9. IsState(u)
    BY <1>4, <1>7, <1>8 DEF IsState
<1>10. Stands(u)
    <2> SUFFICES ASSUME u.warnings = <<>>
                 PROVE  \E at : /\ Played(u.path, at) /\ NodeAt(u.path, Len(u.path)) = u.node
                                /\ Allows(u.value, at[Len(u.path)])
        BY DEF Stands
    <2>1. s.warnings = <<>>
        BY <1>4, <1>7, <1>8
    <2>2. PICK at, vs : /\ Played(s.path, at) /\ NodeAt(s.path, Len(s.path)) = s.node
                        /\ at[Len(s.path)] = Effects(graph.arrive[s.node], vs)
                        /\ Allows(s.value, vs)
        BY <2>1 DEF Follows
    <2>3. Allows(t.value, at[Len(s.path)])
        BY <1>1, <1>4, <2>2
    <2> QED BY <1>4, <1>7, <2>2, <2>3
<1> QED BY <1>5, <1>9, <1>10

(* A warning never goes away.                                              *)
LEMMA Longer ==
    ASSUME NEW s, NEW S, s \in Seq(S), NEW x, NEW t, t = s \/ t = Append(s, x)
    PROVE  (\E T : t \in Seq(T)) /\ (t = <<>> => t = s)
<1>1. s \in Seq(S \cup {x}) /\ Len(s) \in Nat
    OBVIOUS
<1>2. PICK longer : longer = Append(s, x)
    OBVIOUS
<1>3. longer \in Seq(S \cup {x}) /\ Len(longer) = Len(s) + 1
    BY <1>1, <1>2
<1>4. longer # <<>>
    BY <1>1, <1>3
<1> QED BY <1>1, <1>2, <1>3, <1>4

(* A gate that holds for every value lets all of them through.             *)
LEMMA OpenGate ==
    ASSUME NEW e, NEW vs, vs # {}, \A v \in vs : GateHolds(graph.edges[e].gate, v)
    PROVE  Over(graph, e, vs) = Effects(graph.arrive[graph.edges[e].dst],
                                        Effects(graph.edges[e].effect, vs))
<1>1. {v \in vs : GateHolds(graph.edges[e].gate, v)} = vs
    OBVIOUS
<1> QED BY <1>1 DEF Over

(* A partial route that passes the gate of an edge, and makes its effect.  *)
Gated(s, e) ==
    [s EXCEPT
        !.constraint = AllNarrowed(@, SupportedTerms(graph.edges[e].gate), e),
        !.requirements = Unique(@ \o Attributions(s, e)),
        !.warnings = IF graph.edges[e].gate # NoGate /\ s.value = Unknown
                     THEN Append(@, <<"gate", graph.edges[e].gate>>) ELSE @]

Taken(s, e) == WithEffect(Gated(s, e), graph.edges[e].effect, e)

(* What becomes of a partial route on an edge, part by part.               *)
LEMMA PassedParts ==
    ASSUME IsGraph(graph), NEW s, IsState(s), NEW e \in From(graph, s.node)
    PROVE  /\ IsState(Gated(s, e)) /\ Gated(s, e).value = s.value
           /\ Gated(s, e).constraint
                = AllNarrowed(s.constraint, SupportedTerms(graph.edges[e].gate), e)
           /\ Gated(s, e).suppressed = s.suppressed /\ Gated(s, e).source = s.source
           /\ \A vs : Allows(s.value, vs)
                => Allows(Taken(s, e).value, Effects(graph.edges[e].effect, vs))
           /\ IsState(Passed(s, e)) /\ Passed(s, e).node = graph.edges[e].dst
           /\ Passed(s, e).value = Taken(s, e).value
           /\ Passed(s, e).constraint = Taken(s, e).constraint
           /\ Passed(s, e).source = Taken(s, e).source
           /\ Passed(s, e).requirements = Unique(s.requirements \o Attributions(s, e))
           /\ s.suppressed = None => Passed(s, e).suppressed = None
           /\ Passed(s, e).path = Append(s.path, [edge |-> e, group |-> None])
           /\ Passed(s, e).warnings = <<>>
                => s.warnings = <<>> /\ (graph.edges[e].gate = NoGate \/ s.value # Unknown)
<1> DEFINE edge == graph.edges[e]
           after == Gated(s, e)
           written == Taken(s, e)
           u == Passed(s, e)
<1>2. e \in Edges(graph) /\ edge.src = s.node /\ edge.dst \in Nodes /\ edge.effect \in Effect
    BY DEF From, IsGraph
<1>3. PICK w : w = IF edge.gate # NoGate /\ s.value = Unknown
                   THEN Append(s.warnings, <<"gate", edge.gate>>) ELSE s.warnings
    OBVIOUS
<1>4. PICK constraint, requirements :
        /\ constraint = AllNarrowed(s.constraint, SupportedTerms(edge.gate), e)
        /\ requirements = Unique(s.requirements \o Attributions(s, e))
    OBVIOUS
<1>5. after = [s EXCEPT !.constraint = constraint, !.requirements = requirements, !.warnings = w]
    BY <1>3, <1>4, Zenon DEF Gated
<1> HIDE DEF after, written
<1>6. /\ IsRecord(after) /\ after.node = s.node /\ after.path = s.path /\ after.value = s.value
      /\ after.warnings = w /\ after.constraint = constraint /\ after.suppressed = s.suppressed
      /\ after.source = s.source /\ after.requirements = requirements
    BY <1>5 DEF IsState, IsRecord
<1>7. (\E T : w \in Seq(T)) /\ (w = <<>> => w = s.warnings)
    <2>1. PICK S : s.warnings \in Seq(S)
        BY DEF IsState
    <2>2. w = s.warnings \/ w = Append(s.warnings, <<"gate", edge.gate>>)
        BY <1>3
    <2> QED BY <2>1, <2>2, Longer
<1>8. IsState(after)
    BY <1>6, <1>7 DEF IsState
<1>9. w = <<>> => edge.gate = NoGate \/ s.value # Unknown
    <2> SUFFICES ASSUME w = <<>>, edge.gate # NoGate, s.value = Unknown PROVE FALSE
        OBVIOUS
    <2>1. w = Append(s.warnings, <<"gate", edge.gate>>)
        BY <1>3
    <2>2. PICK T : s.warnings \in Seq(T)
        BY DEF IsState
    <2>3. Append(s.warnings, <<"gate", edge.gate>>) \in Seq(T \cup {<<"gate", edge.gate>>})
          /\ Len(Append(s.warnings, <<"gate", edge.gate>>)) = Len(s.warnings) + 1
        BY <2>2
    <2> QED BY <2>1, <2>2, <2>3
<1>10. /\ IsState(written) /\ written.node = s.node /\ written.path = s.path
       /\ written.warnings = <<>> => w = <<>>
       /\ written.suppressed = s.suppressed /\ written.requirements = requirements
       /\ \A vs : Allows(s.value, vs) => Allows(written.value, Effects(edge.effect, vs))
    BY <1>2, <1>6, <1>8, EffectIsTaken DEF written, after, Taken
<1>11. PICK x : x = IF edge.resolved THEN written.warnings
                    ELSE Append(written.warnings, <<"edge", e>>)
    OBVIOUS
<1>12. (\E T : x \in Seq(T)) /\ (x = <<>> => x = written.warnings)
    <2>1. PICK S : written.warnings \in Seq(S)
        BY <1>10 DEF IsState
    <2>2. x = written.warnings \/ x = Append(written.warnings, <<"edge", e>>)
        BY <1>11
    <2> QED BY <2>1, <2>2, Longer
<1>13. PICK warnings : warnings = Unique(x)
    OBVIOUS
<1>14. (\E T : warnings \in Seq(T)) /\ (warnings = <<>> => x = <<>>)
    BY <1>12, <1>13, UniqueKeepsOne
<1>15. PICK step : step = [edge |-> e, group |-> None]
    OBVIOUS
<1>16. step \in Steps
    BY <1>2, <1>15 DEF Steps
<1>17. PICK path : path = Append(s.path, step)
    OBVIOUS
<1>18. path \in Seq(Steps)
    BY <1>16, <1>17 DEF IsState
<1>19. PICK suppressed : suppressed = IF written.suppressed # None
                                /\ graph.edges[written.suppressed].src = edge.src
                            THEN None ELSE written.suppressed
    OBVIOUS
<1>20. PICK loops :
        u = [written EXCEPT !.node = edge.dst, !.warnings = warnings, !.path = path,
                            !.loops = loops, !.suppressed = suppressed, !.id = prefixes]
    <2>1. u = [written EXCEPT
            !.node = edge.dst,
            !.warnings = Unique(IF edge.resolved THEN @ ELSE Append(@, <<"edge", e>>)),
            !.path = Append(@, [edge |-> e, group |-> None]),
            !.loops = @ + (IF RepetitionsOf(s, e) > 0 THEN 1 ELSE 0),
            !.suppressed = IF @ # None /\ graph.edges[@].src = edge.src THEN None ELSE @,
            !.id = prefixes]
        BY Zenon DEF Passed, written, Taken, Gated
    <2>2. PICK loops : loops = written.loops + (IF RepetitionsOf(s, e) > 0 THEN 1 ELSE 0)
        OBVIOUS
    <2>3. u = [written EXCEPT !.node = edge.dst, !.warnings = warnings,
                              !.path = Append(written.path, step),
                              !.loops = loops, !.suppressed = suppressed, !.id = prefixes]
        BY <1>11, <1>13, <1>15, <1>19, <2>1, <2>2, Zenon
    <2> QED BY <1>10, <1>17, <2>3
<1>21. /\ IsRecord(u) /\ u.node = edge.dst /\ u.path = path /\ u.value = written.value
       /\ u.warnings = warnings /\ u.constraint = written.constraint /\ u.suppressed = suppressed
       /\ u.source = written.source /\ u.requirements = written.requirements
    BY <1>10, <1>20 DEF IsState, IsRecord
<1>22. IsState(u)
    BY <1>2, <1>10, <1>14, <1>18, <1>21 DEF IsState
<1>23. u.warnings = <<>> => s.warnings = <<>> /\ (edge.gate = NoGate \/ s.value # Unknown)
    BY <1>7, <1>9, <1>10, <1>12, <1>14, <1>21
<1>24. s.suppressed = None => u.suppressed = None
    BY <1>10, <1>19, <1>21
<1> HIDE DEF u
<1>25. u.path = Append(s.path, [edge |-> e, group |-> None])
    BY <1>15, <1>17, <1>21
<1> QED BY <1>4, <1>6, <1>8, <1>10, <1>21, <1>22, <1>23, <1>24, <1>25 DEF after, written, u

(* _traverse_edge: an edge whose gate does not refuse is passed by every   *)
(* play that got so far, unless a warning says that the value is not       *)
(* known.                                                                  *)
LEMMA PassedFollows ==
    ASSUME IsGraph(graph), NEW s, IsState(s), Stands(s),
           NEW e \in From(graph, s.node), ~GateRefuses(s, e)
    PROVE  IsState(Passed(s, e)) /\ Follows(Passed(s, e))
<1> DEFINE edge == graph.edges[e]
           written == Taken(s, e)
           u == Passed(s, e)
<1>1. /\ IsState(u) /\ u.node = edge.dst /\ u.value = written.value
      /\ u.path = Append(s.path, [edge |-> e, group |-> None])
      /\ u.warnings = <<>> => s.warnings = <<>> /\ (edge.gate = NoGate \/ s.value # Unknown)
      /\ \A vs : Allows(s.value, vs) => Allows(written.value, Effects(edge.effect, vs))
    BY PassedParts
<1>2. /\ e \in Edges(graph) /\ edge.src = s.node /\ edge.dst \in Nodes
      /\ edge.effect \in Effect /\ graph.arrive[edge.dst] \in Effect
    BY DEF From, IsGraph
<1>15. PICK step : step = [edge |-> e, group |-> None]
    OBVIOUS
<1>16. step \in Steps /\ step.edge = e
    BY <1>2, <1>15 DEF Steps
<1>17. PICK path : path = Append(s.path, step)
    OBVIOUS
<1>18. path \in Seq(Steps) /\ Len(path) = Len(s.path) + 1
    BY <1>16, <1>17 DEF IsState
<1>21. u.path = path
    BY <1>1, <1>15, <1>17
<1> HIDE DEF u, written
<1>23. Follows(u)
    <2> SUFFICES ASSUME u.warnings = <<>>
                 PROVE  \E at, vs : /\ Played(path, at) /\ NodeAt(path, Len(path)) = edge.dst
                                    /\ at[Len(path)] = Effects(graph.arrive[edge.dst], vs)
                                    /\ Allows(written.value, vs)
        BY <1>1, <1>21 DEF Follows
    <2>1. s.warnings = <<>>
        BY <1>1
    <2>2. edge.gate = NoGate \/ s.value # Unknown
        BY <1>1
    <2>3. PICK at : /\ Played(s.path, at) /\ NodeAt(s.path, Len(s.path)) = s.node
                    /\ Allows(s.value, at[Len(s.path)])
        BY <2>1 DEF Stands
    <2>4. PICK vs : vs = at[Len(s.path)]
        OBVIOUS
    <2>5. \A v \in vs : GateHolds(edge.gate, v)
        <3>1. CASE edge.gate = NoGate
            BY <3>1 DEF NoGate, GateHolds
        <3>2. CASE s.value # Unknown
            BY <2>3, <2>4, <3>2 DEF GateRefuses, Allows
        <3> QED BY <2>2, <3>1, <3>2
    <2>6. PICK then, on : then = Effects(edge.effect, vs)
                          /\ on = Effects(graph.arrive[edge.dst], then)
        OBVIOUS
    <2>7. Allows(written.value, then)
        BY <1>1, <2>3, <2>4, <2>6
    <2>8. on \in SUBSET Int /\ on # {}
        BY <1>2, <2>6, <2>7, EffectsAllow
    <2>9. vs # {}
        BY <2>3, <2>4 DEF Allows
    <2>10. Over(graph, e, vs) = on
        BY <2>5, <2>6, <2>9, OpenGate
    <2>11. \E further : /\ Played(path, further) /\ further[Len(s.path) + 1] = on
                        /\ NodeAt(path, Len(s.path) + 1) = edge.dst
        <3>1. s.path \in Seq(Steps)
            BY DEF IsState
        <3>2. graph.edges[step.edge].src = NodeAt(s.path, Len(s.path))
            BY <1>2, <1>16, <2>3
        <3>3. \A v \in at[Len(s.path)] : GateHolds(graph.edges[step.edge].gate, v)
            BY <1>16, <2>4, <2>5
        <3>4. on = Over(graph, step.edge, at[Len(s.path)])
            BY <1>16, <2>4, <2>10
        <3>5. \E further : /\ Played(Append(s.path, step), further)
                           /\ further[Len(s.path) + 1] = on
                           /\ NodeAt(Append(s.path, step), Len(s.path) + 1)
                                = graph.edges[step.edge].dst
            <4>1. step \in Steps /\ Played(s.path, at) /\ on \in SUBSET Int /\ on # {}
                BY <1>16, <2>3, <2>8
            <4> HIDE DEF edge, u
            <4>2. \A vvs \in SUBSET Int :
                    vvs = Over(graph, step.edge, at[Len(s.path)]) /\ vvs # {} =>
                   \E further : /\ Played(Append(s.path, step), further)
                           /\ further[Len(s.path) + 1] = vvs
                           /\ NodeAt(Append(s.path, step), Len(s.path) + 1)
                                = graph.edges[step.edge].dst
                BY <4>1, <3>1, <3>2, <3>3, PlayedOn, Zenon
            <4> QED BY <4>1, <3>4, <4>2, Zenon
        <3> QED BY <1>16, <1>17, <3>5
    <2> QED BY <1>18, <2>6, <2>7, <2>11
<1> QED BY <1>1, <1>23 DEF u

-----------------------------------------------------------------------------
(* A loop repeated: the value after k of its edges.                        *)
LapValue(cycle, v, k) ==
    v + Delta(cycle) * (k \div Len(cycle)) + DeltaOf(cycle, k % Len(cycle))

LapEdge(cycle, k) == cycle[(k % Len(cycle)) + 1]

Adds(effect) == effect = NoEffect \/ effect.op = "add"

(* The loops the solver jumps through: free of gates, and only adding.     *)
IsLap(cycle) ==
    \A i \in 1..Len(cycle) :
        LET edge == graph.edges[cycle[i]]
        IN  edge.gate = NoGate /\ Adds(edge.effect) /\ Adds(graph.arrive[edge.dst])

(* One edge further round the loop adds what this edge and its end add.    *)
LEMMA LapValues ==
    ASSUME IsGraph(graph), NEW start, NEW cycle, IsLoop(graph, start, cycle),
           NEW v \in Int, NEW k \in Nat
    PROVE  /\ LapValue(cycle, v, k) \in Int
           /\ LapValue(cycle, v, k + 1) =
                LapValue(cycle, v, k) + Change(graph.edges[LapEdge(cycle, k)].effect)
                    + Change(graph.arrive[graph.edges[LapEdge(cycle, k)].dst])
<1>1. PICK d \in Nat \ {0} : d = Len(cycle)
    BY DEF IsLoop
<1>2. PICK q \in Nat, r \in 0..(d - 1) : q = k \div d /\ r = k % d
    BY NextPosition
<1>3. cycle \in Seq(Edges(graph))
    BY DEF IsLoop
<1>4. PICK c : c = Change(graph.edges[cycle[r + 1]].effect)
    OBVIOUS
<1>5. PICK b : b = Change(graph.arrive[graph.edges[cycle[r + 1]].dst])
    OBVIOUS
<1>6. r + 1 \in 1..d /\ r \in 0..d /\ (r + 1) - 1 = r /\ d \in 0..d
    OBVIOUS
<1>7. c \in Int /\ b \in Int
    <2>1. cycle[r + 1] \in Edges(graph)
        BY <1>1, <1>3, <1>6
    <2>2. /\ graph.edges[cycle[r + 1]].effect \in Effect
          /\ graph.arrive[graph.edges[cycle[r + 1]].dst] \in Effect
        BY <2>1 DEF IsGraph
    <2>3. \A x \in Effect : Change(x) \in Int
        BY DEF Effect, NoEffect, Change
    <2> QED BY <1>4, <1>5, <2>2, <2>3
<1>8. PICK h \in Int, m \in Int, w \in Int :
        h = DeltaOf(cycle, r) /\ m = DeltaOf(cycle, r + 1) /\ w = DeltaOf(cycle, d)
    BY <1>1, <1>3, <1>6, DeltaUnfolds
<1>9. m = h + c + b
    BY <1>1, <1>3, <1>4, <1>5, <1>6, <1>8, DeltaUnfolds
<1>10. LapValue(cycle, v, k) = v + w * q + h
    BY <1>1, <1>2, <1>8 DEF LapValue, Delta
<1>11. w * q \in Int /\ w * (q + 1) = w * q + w
    OBVIOUS
<1>12. LapValue(cycle, v, k + 1) = v + w * q + h + c + b
    <2>1. CASE r + 1 < d
        <3>1. (k + 1) % d = r + 1 /\ (k + 1) \div d = q
            BY <1>2, <2>1, NextPosition
        <3>2. LapValue(cycle, v, k + 1) = v + w * q + m
            BY <1>1, <1>8, <3>1 DEF LapValue, Delta
        <3> QED BY <1>7, <1>9, <1>11, <3>2
    <2>2. CASE r + 1 = d
        <3>1. (k + 1) % d = 0 /\ (k + 1) \div d = q + 1
            BY <1>2, <2>2, NextPosition
        <3>2. DeltaOf(cycle, 0) = 0
            BY <1>3, DeltaUnfolds
        <3>3. LapValue(cycle, v, k + 1) = v + w * (q + 1) + 0
            BY <1>1, <1>8, <3>1, <3>2 DEF LapValue, Delta
        <3>4. w = m
            BY <1>8, <2>2
        <3> QED BY <1>7, <1>9, <1>11, <3>3, <3>4
    <2> QED BY <1>6, <2>1, <2>2
<1>13. LapEdge(cycle, k) = cycle[r + 1]
    BY <1>1, <1>2 DEF LapEdge
<1>14. v + w * q + h \in Int /\ v + w * q + h + c + b = (v + w * q + h) + c + b
    BY <1>7, <1>11
<1> QED BY <1>4, <1>5, <1>10, <1>12, <1>13, <1>14

(* After whole laps the value has changed by so many times the change of   *)
(* one.                                                                    *)
LEMMA WholeLaps ==
    ASSUME IsGraph(graph), NEW start, NEW cycle, IsLoop(graph, start, cycle),
           NEW v \in Int, NEW n \in Nat
    PROVE  /\ LapValue(cycle, v, n * Len(cycle)) = v + Delta(cycle) * n
           /\ (n * Len(cycle)) % Len(cycle) = 0
<1>1. PICK d \in Nat \ {0} : d = Len(cycle)
    BY DEF IsLoop
<1>2. PICK q \in Int, r \in 0..(d - 1) :
            q = (n * d) \div d /\ r = (n * d) % d /\ n * d = d * q + r
    <2>1. n * d \in Int
        OBVIOUS
    <2> QED BY <2>1
<1>3. d * q + r = d * n + 0 /\ 0 \in 0..(d - 1)
    BY <1>2
<1>4. q = n /\ r = 0
    BY <1>3, QuotientIsUnique
<1>5. cycle \in Seq(Edges(graph))
    BY DEF IsLoop
<1>6. DeltaOf(cycle, 0) = 0 /\ Delta(cycle) \in Int
    <2>1. d \in 0..d
        OBVIOUS
    <2> QED BY <1>1, <1>5, <2>1, DeltaUnfolds DEF Delta
<1>7. LapValue(cycle, v, n * d) = v + Delta(cycle) * n + 0
    BY <1>1, <1>2, <1>4, <1>6 DEF LapValue
<1>8. Delta(cycle) * n \in Int
    BY <1>6
<1> QED BY <1>1, <1>2, <1>4, <1>7, <1>8

(* Each edge of the laps begins where the one before it ends.              *)
LEMMA LapNodes ==
    ASSUME NEW start, NEW cycle, IsLoop(graph, start, cycle), NEW k \in Nat
    PROVE  /\ LapEdge(cycle, k) \in Edges(graph)
           /\ graph.edges[LapEdge(cycle, 0)].src = start
           /\ graph.edges[LapEdge(cycle, k + 1)].src = graph.edges[LapEdge(cycle, k)].dst
           /\ (k + 1) % Len(cycle) = 0 => graph.edges[LapEdge(cycle, k)].dst = start
<1>1. PICK d \in Nat \ {0} : d = Len(cycle)
    BY DEF IsLoop
<1>2. PICK r \in 0..(d - 1) : r = k % d
    BY NextPosition
<1>3. /\ cycle \in Seq(Edges(graph)) /\ graph.edges[cycle[d]].dst = start
      /\ \A i \in 1..d : graph.edges[cycle[i]].src =
                            IF i = 1 THEN start ELSE graph.edges[cycle[i - 1]].dst
    BY <1>1 DEF IsLoop
<1>4. LapEdge(cycle, k) = cycle[r + 1] /\ LapEdge(cycle, k + 1) = cycle[((k + 1) % d) + 1]
    BY <1>1, <1>2 DEF LapEdge
<1>5. LapEdge(cycle, k) \in Edges(graph)
    BY <1>1, <1>3, <1>4
<1>6. graph.edges[LapEdge(cycle, 0)].src = start
    <2>1. 0 % d = 0 /\ 0 + 1 = 1 /\ 1 \in 1..d
        OBVIOUS
    <2>2. LapEdge(cycle, 0) = cycle[1]
        BY <1>1, <2>1 DEF LapEdge
    <2> QED BY <1>3, <2>1, <2>2
<1>7. CASE r + 1 < d
    <2>1. (k + 1) % d = r + 1
        BY <1>2, <1>7, NextPosition
    <2>2. r + 2 \in 1..d /\ r + 2 # 1 /\ (r + 1) + 1 = r + 2 /\ (r + 2) - 1 = r + 1
        BY <1>7
    <2>3. graph.edges[cycle[r + 2]].src = graph.edges[cycle[r + 1]].dst
        BY <1>3, <2>2
    <2>4. r + 1 # 0
        OBVIOUS
    <2> QED BY <1>1, <1>2, <1>4, <1>5, <1>6, <2>1, <2>2, <2>3, <2>4
<1>8. CASE r + 1 = d
    <2>1. (k + 1) % d = 0
        BY <1>2, <1>8, NextPosition
    <2>2. 1 \in 1..d
        OBVIOUS
    <2>3. graph.edges[cycle[0 + 1]].src = start /\ graph.edges[cycle[r + 1]].dst = start
        <3>1. graph.edges[cycle[1]].src = start /\ 0 + 1 = 1
            BY <1>3, <2>2
        <3>2. graph.edges[cycle[r + 1]].dst = start
            BY <1>3, <1>8, Zenon
        <3> QED BY <3>1, <3>2
    <2> QED BY <1>1, <1>2, <1>4, <1>5, <1>6, <2>1, <2>3
<1> QED BY <1>7, <1>8

(* Without a gate, the value changes by what the edge and its end add.     *)
LEMMA AddsUp ==
    ASSUME NEW effect \in Effect, Adds(effect), NEW x \in Int
    PROVE  Effects(effect, {x}) = {x + Change(effect)} /\ x + Change(effect) \in Int
<1>1. CASE effect = NoEffect
    <2>1. Effects(effect, {x}) = {x} /\ Change(effect) = 0
        BY <1>1 DEF NoEffect, Effects, Change
    <2> QED BY <2>1
<1>2. CASE effect.op = "add"
    <2>1. Change(effect) = effect.value /\ effect.value \in Int
        BY <1>2 DEF Change, Effect, NoEffect
    <2>2. Effects(effect, {x}) = {w + effect.value : w \in {x}}
        BY <1>2 DEF Effects
    <2>3. PICK c \in Int : c = effect.value
        BY <2>1
    <2>4. \A y : y \in Effects(effect, {x}) <=> y = x + c
        BY <2>2, <2>3
    <2>5. Effects(effect, {x}) = {x + c} /\ x + c \in Int
        BY <2>4
    <2>6. Change(effect) = c
        BY <2>1, <2>3
    <2> QED BY <2>5, <2>6, Zenon
<1> QED BY <1>1, <1>2 DEF Adds

(* An edge without a gate that only adds leads every value to its sum.     *)
LEMMA FreeStep ==
    ASSUME IsGraph(graph), NEW e \in Edges(graph), NEW x \in Int,
           graph.edges[e].gate = NoGate, Adds(graph.edges[e].effect),
           Adds(graph.arrive[graph.edges[e].dst])
    PROVE  /\ \A v \in {x} : GateHolds(graph.edges[e].gate, v)
           /\ Over(graph, e, {x}) = {x + Change(graph.edges[e].effect)
                                       + Change(graph.arrive[graph.edges[e].dst])}
<1>1. PICK here, there : here = graph.edges[e].effect
                         /\ there = graph.arrive[graph.edges[e].dst]
    OBVIOUS
<1>2. here \in Effect /\ there \in Effect
    BY <1>1 DEF IsGraph
<1>3. \A v \in {x} : GateHolds(graph.edges[e].gate, v)
    BY DEF NoGate, GateHolds
<1>4. Over(graph, e, {x}) = Effects(there, Effects(here, {x}))
    <2>1. {x} # {}
        OBVIOUS
    <2> QED BY <1>1, <1>3, <2>1, OpenGate
<1>5. Effects(here, {x}) = {x + Change(here)} /\ x + Change(here) \in Int
    BY <1>1, <1>2, AddsUp
<1>6. Effects(there, {x + Change(here)}) = {x + Change(here) + Change(there)}
    BY <1>1, <1>2, <1>5, AddsUp
<1> QED BY <1>1, <1>3, <1>4, <1>5, <1>6

-----------------------------------------------------------------------------
(* A jump through a loop repeats it a whole number of times, at least once. *)
LEMMA ExitsRepeat ==
    ASSUME IsGraph(graph), NEW s, s.value \in Int, NEW cycle \in Seq(Edges(graph)),
           NEW x \in StoppingExits(s, cycle)
    PROVE  x.repetitions \in Nat \ {0}
<1> DEFINE phaseOf(e) == CHOOSE i \in DOMAIN cycle :
                            graph.edges[cycle[i]].src = graph.edges[e].src
           valueAt(e) == s.value + DeltaOf(cycle, phaseOf(e) - 1)
           terms(e) == graph.edges[e].gate.terms
           needed(e) == {MinimumRepetitions(terms(e)[i], valueAt(e), Delta(cycle)) :
                            i \in DOMAIN terms(e)}
           exits == {e \in Edges(graph) \ ToSet(cycle) :
                        /\ \E i \in DOMAIN cycle : graph.edges[e].src = graph.edges[cycle[i]].src
                        /\ graph.edges[e].dst \in TargetCone(graph)
                        /\ graph.edges[e].resolved
                        /\ graph.edges[e].gate.shape = "and"}
           stops(e, n) ==
                /\ ~GateHolds(graph.edges[e].gate, valueAt(e))
                /\ {} \notin needed(e)
                /\ \A m \in UNION needed(e) : m <= n
                /\ n >= 1
                /\ GateHolds(graph.edges[e].gate, valueAt(e) + Delta(cycle) * n)
           found(e) == {[edge |-> e, phase |-> phaseOf(e), repetitions |-> n,
                         emitted |-> n * Len(cycle) + phaseOf(e) - 1] :
                            n \in {m \in UNION needed(e) : stops(e, m)}}
<1>1. StoppingExits(s, cycle) = UNION {found(e) : e \in exits}
    BY DEF StoppingExits
<1>2. PICK e \in exits : x \in found(e)
    <2> HIDE DEF found, exits
    <2> QED BY <1>1
<1>3. PICK n \in UNION needed(e) :
            /\ n >= 1
            /\ x = [edge |-> e, phase |-> phaseOf(e), repetitions |-> n,
                    emitted |-> n * Len(cycle) + phaseOf(e) - 1]
    <2> HIDE DEF needed, phaseOf, valueAt
    <2> QED BY <1>2
<1>4. PICK i \in DOMAIN terms(e) :
            n \in MinimumRepetitions(terms(e)[i], valueAt(e), Delta(cycle))
    <2> HIDE DEF valueAt, terms
    <2> QED BY <1>3
<1>5. terms(e)[i] \in Term
    <2>1. graph.edges[e].gate \in Gate /\ graph.edges[e].gate.shape = "and"
        BY <1>2 DEF IsGraph
    <2>2. graph.edges[e].gate.terms \in Seq(Term)
        BY <2>1 DEF Gate, NoGate
    <2> QED BY <1>4, <2>2
<1>6. phaseOf(e) \in DOMAIN cycle
    <2>1. \E j \in DOMAIN cycle : graph.edges[cycle[j]].src = graph.edges[e].src
        BY <1>2
    <2> QED BY <2>1, Zenon
<1>7. valueAt(e) \in Int /\ Delta(cycle) \in Int
    <2> HIDE DEF phaseOf
    <2>1. PICK d \in Nat : d = Len(cycle)
        OBVIOUS
    <2>2. phaseOf(e) - 1 \in 0..d /\ d \in 0..d
        BY <1>6, <2>1
    <2> QED BY <2>1, <2>2, DeltaUnfolds DEF Delta
<1>8. n \in Nat
    <2> HIDE DEF terms, valueAt
    <2> QED BY <1>4, <1>5, <1>7, RepetitionsAreLeast
<1> QED BY <1>3, <1>8

LapsFrom(s, a) ==
    /\ s.node \in graph.loops /\ s.value \in Int
    /\ IsLoop(graph, s.node, a.cycle) /\ IsLap(a.cycle)
    /\ a.repetitions \in Nat \ {0}

(* _exact_loop_acceleration: what it returns are whole laps of a loop      *)
(* without gates that only adds.                                           *)
LEMMA JumpIsLaps ==
    ASSUME IsGraph(graph), NEW s, IsState(s), NEW a \in Acceleration(s)
    PROVE  LapsFrom(s, a)
<1> DEFINE cycle == StructuralCycle(graph, s.node)
           written == UNION {{graph.edges[cycle[i]].effect, graph.arrive[graph.edges[cycle[i]].dst]} :
                                i \in DOMAIN cycle}
           writes == written \ {NoEffect}
<1>1. /\ cycle # <<>> /\ s.node \in graph.loops /\ s.value # Unknown
      /\ \A i \in DOMAIN cycle : graph.edges[cycle[i]].gate = NoGate
      /\ \A effect \in writes : effect.op = "add"
      /\ \E exit \in EarliestExits(StoppingExits(s, cycle)) :
            a = [cycle |-> cycle, repetitions |-> exit.repetitions,
                 suppressed |-> cycle[exit.phase]]
    <2> HIDE DEF cycle, writes
    <2> QED BY DEF Acceleration, cycle, writes
<1>2. PICK exit \in StoppingExits(s, cycle) :
            a.cycle = cycle /\ a.repetitions = exit.repetitions
    <2> HIDE DEF cycle
    <2> QED BY <1>1 DEF EarliestExits
<1>3. s.value \in Int /\ s.node \in Nodes
    BY <1>1 DEF IsState
<1>4. IsLoop(graph, s.node, cycle)
    BY <1>1, <1>3, CycleIsLoop
<1>5. cycle \in Seq(Edges(graph))
    BY <1>4 DEF IsLoop
<1>6. exit.repetitions \in Nat \ {0}
    BY <1>3, <1>5, ExitsRepeat
<1>7. ASSUME NEW i \in 1..Len(cycle)
      PROVE  /\ graph.edges[cycle[i]].gate = NoGate /\ Adds(graph.edges[cycle[i]].effect)
             /\ Adds(graph.arrive[graph.edges[cycle[i]].dst])
    <2> HIDE DEF cycle
    <2>1. i \in DOMAIN cycle
        BY <1>5
    <2>2. PICK x, y : x = graph.edges[cycle[i]].effect
                      /\ y = graph.arrive[graph.edges[cycle[i]].dst]
        OBVIOUS
    <2>3. (x # NoEffect => x \in writes) /\ (y # NoEffect => y \in writes)
        <3> DEFINE both(j) == {graph.edges[cycle[j]].effect,
                               graph.arrive[graph.edges[cycle[j]].dst]}
        <3>1. x \in both(i) /\ y \in both(i)
            BY <2>2
        <3>2. written = UNION {both(j) : j \in DOMAIN cycle}
            OBVIOUS
        <3> HIDE DEF both, written, cycle
        <3>3. PICK B : B = {both(j) : j \in DOMAIN cycle}
            OBVIOUS
        <3>4. both(i) \in B
            BY <2>1, <3>3, Zenon
        <3>5. x \in UNION B /\ y \in UNION B
            BY <3>1, <3>4, Zenon
        <3>6. written = UNION B
            BY <3>2, <3>3, Zenon
        <3> QED BY <3>5, <3>6
    <2> HIDE DEF writes
    <2> QED BY <1>1, <2>1, <2>2, <2>3 DEF Adds
<1>8. IsLap(cycle)
    BY <1>7 DEF IsLap
<1> QED BY <1>1, <1>2, <1>3, <1>4, <1>6, <1>8 DEF LapsFrom

(* _traverse_accelerated_loop appends the edges of the cycle, in their     *)
(* order, so many times over.                                              *)
LEMMA LapsAreSteps ==
    ASSUME NEW start, NEW cycle, IsLoop(graph, start, cycle), NEW reps \in Nat \ {0}
    PROVE  /\ Laps(cycle, reps) \in Seq(Steps) /\ Len(Laps(cycle, reps)) = reps * Len(cycle)
           /\ reps * Len(cycle) \in Nat \ {0}
           /\ \A k \in 0..(reps * Len(cycle) - 1) :
                    Laps(cycle, reps)[k + 1].edge = LapEdge(cycle, k)
<1>1. PICK d \in Nat \ {0} : d = Len(cycle)
    BY DEF IsLoop
<1>2. PICK more \in Nat \ {0} : more = reps * d
    OBVIOUS
<1>3. cycle \in Seq(Edges(graph))
    BY DEF IsLoop
<1>4. PICK laps : laps = Laps(cycle, reps)
    OBVIOUS
<1>5. laps = [k \in 1..more |-> [edge |-> cycle[((k - 1) % d) + 1], group |-> Head(cycle)]]
    BY <1>1, <1>2, <1>4 DEF Laps
<1>6. ASSUME NEW k \in 0..(more - 1)
      PROVE  laps[k + 1] \in Steps /\ laps[k + 1].edge = LapEdge(cycle, k)
    <2>1. k + 1 \in 1..more /\ (k + 1) - 1 = k /\ k \in Nat
        BY <1>2
    <2>2. laps[k + 1] = [edge |-> LapEdge(cycle, k), group |-> Head(cycle)]
        BY <1>1, <1>5, <2>1 DEF LapEdge
    <2>3. LapEdge(cycle, k) \in Edges(graph)
        BY <2>1, LapNodes
    <2>4. Head(cycle) \in Edges(graph)
        BY <1>1, <1>3
    <2> QED BY <2>2, <2>3, <2>4 DEF Steps
<1>7. laps \in Seq(Steps) /\ Len(laps) = more
    <2>1. \A k \in 1..more : laps[k] \in Steps
        <3> TAKE k \in 1..more
        <3>1. k - 1 \in 0..(more - 1) /\ (k - 1) + 1 = k
            BY <1>2
        <3> QED BY <1>6, <3>1
    <2>2. laps \in [1..more -> Steps]
        BY <1>5, <2>1
    <2> QED BY <1>2, <2>2
<1> QED BY <1>1, <1>2, <1>4, <1>6, <1>7

(* Concatenation, entry by entry.                                          *)
LEMMA Joined ==
    ASSUME NEW S, NEW a \in Seq(S), NEW b \in Seq(S)
    PROVE  /\ a \o b \in Seq(S) /\ Len(a \o b) = Len(a) + Len(b)
           /\ \A i \in 1..Len(a) : (a \o b)[i] = a[i]
           /\ \A i \in 1..Len(b) : (a \o b)[Len(a) + i] = b[i]
OBVIOUS

(* A route that is played to a node, with one value there.                 *)
PlayedTo(path, node, v) ==
    /\ path \in Seq(Steps)
    /\ \E at : /\ Played(path, at) /\ NodeAt(path, Len(path)) = node
               /\ at[Len(path)] = {v}

(* A route that is played to a node where a lap begins is played through   *)
(* all the laps of a jump.                                                 *)
LEMMA LapsArePlayed ==
    ASSUME IsGraph(graph), NEW start, NEW cycle, IsLoop(graph, start, cycle), IsLap(cycle),
           NEW reps \in Nat \ {0}, NEW v \in Int,
           NEW path, PlayedTo(path, start, v)
    PROVE  PlayedTo(path \o Laps(cycle, reps), start, v + Delta(cycle) * reps)
<1>0. PICK at : /\ Played(path, at) /\ path \in Seq(Steps)
                /\ NodeAt(path, Len(path)) = start /\ at[Len(path)] = {v}
    BY DEF PlayedTo
<1>1. PICK d \in Nat \ {0} : d = Len(cycle)
    BY DEF IsLoop
<1>2. PICK n \in Nat : n = Len(path)
    BY <1>0
<1>3. PICK more \in Nat \ {0} : more = reps * d
    OBVIOUS
<1>4. cycle \in Seq(Edges(graph))
    BY DEF IsLoop
<1>5. PICK laps : laps = Laps(cycle, reps)
    OBVIOUS
<1>7. \A k \in 0..(more - 1) : laps[k + 1].edge = LapEdge(cycle, k)
    BY <1>1, <1>3, <1>5, LapsAreSteps
<1>8. laps \in Seq(Steps) /\ Len(laps) = more
    BY <1>1, <1>3, <1>5, LapsAreSteps
<1>9. PICK longer : longer = path \o laps
    OBVIOUS
<1>10. /\ longer \in Seq(Steps) /\ Len(longer) = n + more
       /\ \A i \in 1..n : longer[i] = path[i]
       /\ \A k \in 1..more : longer[n + k] = laps[k]
    <2>1. path \in Seq(Steps)
        BY <1>0
    <2>2. laps \in Seq(Steps) /\ Len(laps) = more /\ Len(path) = n
        BY <1>2, <1>8
    <2>3. /\ longer \in Seq(Steps) /\ Len(longer) = Len(path) + Len(laps)
          /\ \A i \in 1..Len(path) : longer[i] = path[i]
          /\ \A i \in 1..Len(laps) : longer[Len(path) + i] = laps[i]
        <3>1. PICK S : S = Steps
            OBVIOUS
        <3>2. path \in Seq(S) /\ laps \in Seq(S)
            BY <2>1, <2>2, <3>1
        <3>3. /\ path \o laps \in Seq(S) /\ Len(path \o laps) = Len(path) + Len(laps)
              /\ \A i \in 1..Len(path) : (path \o laps)[i] = path[i]
              /\ \A i \in 1..Len(laps) : (path \o laps)[Len(path) + i] = laps[i]
            BY <3>2, Joined
        <3> QED BY <1>9, <3>1, <3>3
    <2> QED BY <2>2, <2>3
<1>11. PICK on : on = [i \in 0..(n + more) |->
                        IF i <= n THEN at[i] ELSE {LapValue(cycle, v, i - n)}]
    OBVIOUS
<1>12. /\ at \in [0..n -> SUBSET Int] /\ at[0] # {}
       /\ at[0] = Effects(graph.arrive[Root], StartValues(graph))
       /\ \A i \in 1..n : Leads(path, at, i)
    BY <1>0, <1>2 DEF Played
<1>13. \A k \in Nat : LapValue(cycle, v, k) \in Int
    BY LapValues
<1>14. LapValue(cycle, v, 0) = v
    <2>1. LapValue(cycle, v, 0 * Len(cycle)) = v + Delta(cycle) * 0
        BY WholeLaps
    <2>2. Delta(cycle) \in Int
        <3>1. d \in 0..Len(cycle)
            BY <1>1
        <3> QED BY <1>1, <1>4, <3>1, DeltaUnfolds DEF Delta
    <2>3. Delta(cycle) * 0 = 0 /\ 0 * Len(cycle) = 0
        BY <1>1, <2>2
    <2> QED BY <2>1, <2>3
<1>15. /\ \A i \in 0..n : on[i] = at[i]
       /\ \A k \in 0..more : on[n + k] = {LapValue(cycle, v, k)}
    <2>1. \A i \in 0..n : on[i] = at[i]
        BY <1>11
    <2>2. ASSUME NEW k \in 0..more PROVE on[n + k] = {LapValue(cycle, v, k)}
        <3>1. CASE k = 0
            BY <1>0, <1>2, <1>14, <2>1, <3>1
        <3>2. CASE k # 0
            <4>1. n + k \in 0..(n + more) /\ ~(n + k <= n) /\ (n + k) - n = k
                BY <3>2
            <4> QED BY <1>11, <4>1
        <3> QED BY <3>1, <3>2
    <2> QED BY <2>1, <2>2
<1>16. on \in [0..(n + more) -> SUBSET Int]
    <2>1. ASSUME NEW i \in 0..(n + more) PROVE on[i] \in SUBSET Int
        <3>1. CASE i <= n
            <4>1. i \in 0..n
                BY <3>1
            <4> QED BY <1>12, <1>15, <4>1
        <3>2. CASE ~(i <= n)
            <4>1. i - n \in 0..more /\ n + (i - n) = i /\ i - n \in Nat
                BY <3>2
            <4>2. on[i] = {LapValue(cycle, v, i - n)}
                BY <1>15, <4>1
            <4> QED BY <1>13, <4>1, <4>2
        <3> QED BY <3>1, <3>2
    <2>2. on = [i \in 0..(n + more) |-> on[i]]
        BY <1>11
    <2> QED BY <2>1, <2>2
<1>17. \A i \in 0..n : NodeAt(longer, i) = NodeAt(path, i)
    BY <1>10 DEF NodeAt
<1>18. \A k \in 1..more : NodeAt(longer, n + k) = graph.edges[LapEdge(cycle, k - 1)].dst
    <2> TAKE k \in 1..more
    <2>1. n + k # 0 /\ k - 1 \in 0..(more - 1) /\ (k - 1) + 1 = k
        BY <1>3
    <2>2. laps[k].edge = LapEdge(cycle, k - 1)
        BY <1>7, <2>1
    <2>3. longer[n + k] = laps[k]
        BY <1>10
    <2> QED BY <2>1, <2>2, <2>3 DEF NodeAt
<1>19. ASSUME NEW i \in 1..n PROVE Leads(longer, on, i)
    <2>1. Leads(path, at, i) /\ longer[i] = path[i]
        BY <1>10, <1>12
    <2>2. i - 1 \in 0..n /\ i \in 0..n
        OBVIOUS
    <2>3. on[i] = at[i] /\ on[i - 1] = at[i - 1] /\ NodeAt(longer, i - 1) = NodeAt(path, i - 1)
        BY <1>15, <1>17, <2>2
    <2> QED BY <2>1, <2>3 DEF Leads
<1>20. ASSUME NEW k \in 0..(more - 1) PROVE Leads(longer, on, n + k + 1)
    <2>1. k \in Nat /\ k \in 0..more /\ k + 1 \in 0..more /\ k + 1 \in 1..more
        BY <1>3
    <2>2. PICK e : e = LapEdge(cycle, k)
        OBVIOUS
    <2>3. longer[n + k + 1].edge = e
        <3>1. longer[n + (k + 1)] = laps[k + 1] /\ n + (k + 1) = n + k + 1
            BY <1>10, <2>1
        <3> QED BY <1>7, <2>2, <3>1
    <2>4. e \in Edges(graph)
        BY <2>1, <2>2, LapNodes
    <2>5. graph.edges[e].src = NodeAt(longer, n + k)
        <3>1. CASE k = 0
            <4>2. graph.edges[e].src = start
                BY <2>1, <2>2, <3>1, LapNodes
            <4>3. NodeAt(longer, n + k) = NodeAt(path, n)
                BY <1>17, <3>1
            <4> QED BY <1>0, <1>2, <4>2, <4>3
        <3>2. CASE k # 0
            <4>1. k \in 1..more /\ k - 1 \in Nat /\ (k - 1) + 1 = k
                BY <2>1, <3>2
            <4>2. graph.edges[LapEdge(cycle, (k - 1) + 1)].src
                    = graph.edges[LapEdge(cycle, k - 1)].dst
                BY <4>1, LapNodes
            <4> QED BY <1>18, <2>2, <4>1, <4>2
        <3> QED BY <3>1, <3>2
    <2>6. PICK x \in Int : x = LapValue(cycle, v, k)
        BY <1>13, <2>1
    <2>7. LapValue(cycle, v, k + 1) = x + Change(graph.edges[e].effect)
                                        + Change(graph.arrive[graph.edges[e].dst])
        BY <2>1, <2>2, <2>6, LapValues
    <2>8. /\ graph.edges[e].gate = NoGate /\ Adds(graph.edges[e].effect)
          /\ Adds(graph.arrive[graph.edges[e].dst])
        <3>1. k % d \in 0..(d - 1)
            BY <2>1, NextPosition
        <3>2. (k % d) + 1 \in 1..d
            BY <3>1
        <3>3. e = cycle[(k % d) + 1]
            BY <1>1, <2>2 DEF LapEdge
        <3> QED BY <1>1, <3>2, <3>3 DEF IsLap
    <2>9. /\ \A w \in {x} : GateHolds(graph.edges[e].gate, w)
          /\ Over(graph, e, {x}) = {x + Change(graph.edges[e].effect)
                                      + Change(graph.arrive[graph.edges[e].dst])}
        BY <2>4, <2>8, FreeStep
    <2>10. on[n + k] = {x} /\ on[n + k + 1] = {LapValue(cycle, v, k + 1)}
        <3>1. on[n + (k + 1)] = {LapValue(cycle, v, k + 1)} /\ n + (k + 1) = n + k + 1
            BY <1>15, <2>1
        <3> QED BY <1>15, <2>1, <2>6, <3>1
    <2>11. (n + k + 1) - 1 = n + k
        BY <2>1
    <2>12. on[n + k + 1] = Over(graph, e, on[n + k]) /\ on[n + k + 1] # {}
        BY <2>7, <2>9, <2>10
    <2> QED BY <2>3, <2>4, <2>5, <2>9, <2>10, <2>11, <2>12 DEF Leads
<1>21. Played(longer, on)
    <2>1. ASSUME NEW i \in 1..(n + more) PROVE Leads(longer, on, i)
        <3>1. CASE i <= n
            BY <1>19, <3>1
        <3>2. CASE ~(i <= n)
            <4>1. i - n - 1 \in 0..(more - 1) /\ n + (i - n - 1) + 1 = i
                BY <3>2
            <4> QED BY <1>20, <4>1
        <3> QED BY <3>1, <3>2
    <2>2. on[0] = at[0]
        <3>1. 0 \in 0..n
            OBVIOUS
        <3> QED BY <1>15, <3>1
    <2> QED BY <1>10, <1>12, <1>16, <2>1, <2>2 DEF Played
<1>22. NodeAt(longer, n + more) = start /\ on[n + more] = {v + Delta(cycle) * reps}
    <2>1. more % d = 0 /\ LapValue(cycle, v, more) = v + Delta(cycle) * reps
        BY <1>1, <1>3, WholeLaps
    <2>2. more - 1 \in Nat /\ (more - 1) + 1 = more /\ more \in 1..more /\ more \in 0..more
        BY <1>3
    <2>3. ((more - 1) + 1) % Len(cycle) = 0
        BY <1>1, <2>1, <2>2
    <2>4. graph.edges[LapEdge(cycle, more - 1)].dst = start
        BY <2>2, <2>3, LapNodes
    <2>5. NodeAt(longer, n + more) = start
        BY <1>18, <2>2, <2>4
    <2> QED BY <1>15, <2>1, <2>2, <2>5
<1> QED BY <1>5, <1>9, <1>10, <1>21, <1>22 DEF PlayedTo

(* No loop that the solver may jump through is entered at a node that      *)
(* changes the variable itself: such a change is made once for the laps    *)
(* and once more when the partial route behind them is expanded.           *)
QuietEntry(g) == \A n \in g.loops : g.arrive[n] = NoEffect

(* A jump leads to what playing its laps leads to.                         *)
LEMMA AcceleratedFollows ==
    ASSUME IsGraph(graph), QuietEntry(graph), NEW s, IsState(s), Stands(s),
           NEW a, LapsFrom(s, a)
    PROVE  IsState(Accelerated(s, a)) /\ Follows(Accelerated(s, a))
<1>1. PICK u : u = Accelerated(s, a)
    OBVIOUS
<1>2. PICK cycle, reps : cycle = a.cycle /\ reps = a.repetitions
    OBVIOUS
<1>3. /\ s.node \in graph.loops /\ s.value \in Int
      /\ IsLoop(graph, s.node, cycle) /\ IsLap(cycle) /\ reps \in Nat \ {0}
    BY <1>2 DEF LapsFrom
<1>4. PICK value, longer : /\ value = s.value + Delta(cycle) * reps
                           /\ longer = s.path \o Laps(cycle, reps)
    OBVIOUS
<1>5. PICK source, constraint, loops, id :
        u = [s EXCEPT !.value = value, !.source = source, !.constraint = constraint,
                      !.path = longer, !.loops = loops, !.suppressed = a.suppressed, !.id = id]
    <2>1. PICK source : source = AllApplied(s.source, CycleEffects(a.cycle), a.repetitions)
        OBVIOUS
    <2>2. PICK constraint, loops, id :
            /\ constraint = ExactConstraint(value, ToSet(source.order))
            /\ loops = s.loops + a.repetitions - 1
            /\ id = prefixes + Len(a.cycle) * a.repetitions - 1
        OBVIOUS
    <2>3. u = [s EXCEPT !.value = value, !.source = source, !.constraint = constraint,
                        !.path = longer, !.loops = loops, !.suppressed = a.suppressed, !.id = id]
        BY <1>1, <1>2, <1>4, <2>1, <2>2, Zenon DEF Accelerated
    <2> QED BY <2>3
<1>6. /\ IsRecord(u) /\ u.node = s.node /\ u.value = value /\ u.path = longer
      /\ u.warnings = s.warnings
    BY <1>5 DEF IsState, IsRecord
<1>7. value \in Int
    <2>1. PICK d \in Nat : d = Len(cycle) /\ cycle \in Seq(Edges(graph))
        BY <1>3 DEF IsLoop
    <2>2. d \in 0..Len(cycle)
        BY <2>1
    <2>3. Delta(cycle) \in Int
        BY <2>1, <2>2, DeltaUnfolds DEF Delta
    <2> QED BY <1>3, <1>4, <2>3
<1>8. longer \in Seq(Steps)
    <2>1. Laps(cycle, reps) \in Seq(Steps)
        BY <1>3, LapsAreSteps
    <2> QED BY <1>4, <2>1 DEF IsState
<1>9. Relevant(graph)
    BY <1>3, UnknownAssumption DEF IsState
<1>10. IsState(u)
    BY <1>6, <1>7, <1>8, <1>9 DEF IsState
<1>11. Follows(u)
    <2> SUFFICES ASSUME s.warnings = <<>>
                 PROVE  \E at, vs : /\ Played(longer, at) /\ NodeAt(longer, Len(longer)) = s.node
                                    /\ at[Len(longer)] = Effects(graph.arrive[s.node], vs)
                                    /\ Allows(value, vs)
        BY <1>6 DEF Follows
    <2>1. PICK at : /\ Played(s.path, at) /\ NodeAt(s.path, Len(s.path)) = s.node
                    /\ Allows(s.value, at[Len(s.path)])
        BY DEF Stands
    <2>2. at[Len(s.path)] = {s.value}
        BY <1>3, <2>1, UnknownAssumption DEF Allows
    <2>3. s.path \in Seq(Steps)
        BY DEF IsState
    <2>4. \E on : /\ Played(longer, on) /\ NodeAt(longer, Len(longer)) = s.node
                  /\ on[Len(longer)] = {value}
        <3>1. PlayedTo(s.path, s.node, s.value)
            BY <2>1, <2>2, <2>3 DEF PlayedTo
        <3>2. PlayedTo(s.path \o Laps(cycle, reps), s.node, s.value + Delta(cycle) * reps)
            BY <1>3, <3>1, LapsArePlayed, Zenon
        <3> QED BY <1>4, <3>2, Zenon DEF PlayedTo
    <2>5. Allows(value, {value})
        BY <1>7 DEF Allows
    <2>6. Effects(graph.arrive[s.node], {value}) = {value}
        BY <1>3 DEF QuietEntry, NoEffect, Effects
    <2> QED BY <2>4, <2>5, <2>6
<1> QED BY <1>1, <1>10, <1>11

(* The empty route, with the start value the request gives.                *)
LEMMA StartFollows ==
    ASSUME IsGraph(graph)
    PROVE  IsState(StartState(graph)) /\ Follows(StartState(graph))
<1> DEFINE known == Relevant(graph) /\ graph.init.kind # "unknown"
<1>1. PICK s : s = StartState(graph)
    OBVIOUS
<1>2. /\ IsRecord(s) /\ s.node = Root /\ s.path = <<>> /\ s.warnings = <<>>
      /\ s.value = IF known THEN graph.init.value ELSE Unknown
    BY <1>1 DEF StartState, IsRecord
<1>3. graph.init.value \in Int
    BY DEF IsGraph
<1>4. IsState(s)
    <2>1. s.warnings \in Seq({}) /\ s.path \in Seq(Steps)
        BY <1>2
    <2> QED BY <1>2, <1>3, <2>1, GraphAssumption DEF IsState
<1>5. PICK vs : vs = StartValues(graph)
    OBVIOUS
<1>6. Allows(s.value, vs)
    <2>1. CASE graph.init.kind = "unknown"
        <3>1. vs = -Horizon..Horizon
            BY <1>5, <2>1 DEF StartValues, Values
        <3>2. 0 \in vs /\ vs \in SUBSET Int
            BY <3>1, GraphAssumption
        <3> QED BY <1>2, <2>1, <3>2 DEF Allows
    <2>2. CASE graph.init.kind # "unknown"
        <3>1. vs = {graph.init.value}
            BY <1>5, <2>2 DEF StartValues
        <3> QED BY <1>2, <1>3, <3>1 DEF Allows
    <2> QED BY <2>1, <2>2
<1>7. PICK first : first = Effects(graph.arrive[Root], vs)
    OBVIOUS
<1>8. first \in SUBSET Int /\ first # {}
    <2>1. graph.arrive[Root] \in Effect
        BY GraphAssumption DEF IsGraph
    <2> QED BY <1>6, <1>7, <2>1, EffectsAllow
<1>9. PICK at : at = [i \in 0..0 |-> first]
    OBVIOUS
<1>10. at \in [0..0 -> SUBSET Int] /\ at[0] = first
    <2>1. 0 \in 0..0
        OBVIOUS
    <2>2. \A i \in 0..0 : first \in SUBSET Int
        BY <1>8
    <2> QED BY <1>9, <2>1, <2>2, Zenon
<1>11. Played(<<>>, at) /\ NodeAt(<<>>, Len(<<>>)) = Root
    <2>1. Len(<<>>) = 0 /\ \A i \in 1..0 : FALSE
        OBVIOUS
    <2> QED BY <1>5, <1>7, <1>8, <1>10, <2>1 DEF Played, NodeAt
<1>12. Follows(s)
    <2>1. at[Len(<<>>)] = Effects(graph.arrive[Root], vs)
        BY <1>7, <1>10
    <2> QED BY <1>2, <1>6, <1>11, <2>1 DEF Follows
<1> QED BY <1>1, <1>4, <1>12

-----------------------------------------------------------------------------
(* The search keeps it so.                                                 *)
Walk(all) == \A c \in all : c.warnings = <<>> => Walkable(graph, c.path)

Sound(s) == IsState(s) /\ Follows(s)

May(s, way) ==
    /\ way.jump = {} => way.edge \in From(graph, s.node)
    /\ \A a \in way.jump : LapsFrom(s, a)

GraphIsAsked == graph \in {r.graph : r \in Requests}
FrontierIsSound == \A s \in frontier : Sound(s)
WaysAreOpen ==
    options # {} => \E s : /\ s = current /\ IsState(s) /\ Stands(s)
                           /\ \A way \in options : May(s, way)

RouteInv ==
    GraphIsAsked /\ FrontierIsSound /\ WaysAreOpen /\ Walk(candidates) /\ ConfirmedIsWalkable

(* The graph of the search is one of those asked about.                    *)
LEMMA AskedGraph ==
    ASSUME GraphIsAsked
    PROVE  IsGraph(graph)
BY RequestAssumption DEF GraphIsAsked

(* record_candidates keeps routes that can be played.                      *)
LEMMA CandidateWalks ==
    ASSUME NEW all, Walk(all), NEW s, IsState(s), Follows(s) \/ Stands(s)
    PROVE  Walk(WithCandidate(all, s))
<1>1. PICK new : new = Candidate(s)
    OBVIOUS
<1>2. new.warnings = s.warnings /\ new.path = PathEdges(s)
    BY <1>1 DEF Candidate
<1>3. \A c \in WithCandidate(all, s) : c \in all \/ c = new
    BY <1>1 DEF WithCandidate
<1>4. s.warnings = <<>> => Walkable(graph, PathEdges(s))
    <2> SUFFICES ASSUME s.warnings = <<>> PROVE Walkable(graph, PathEdges(s))
        OBVIOUS
    <2>1. PICK at : Played(s.path, at)
        BY DEF Follows, Stands
    <2>2. s.path \in Seq(Steps)
        BY DEF IsState
    <2> QED BY <2>1, <2>2, PlayedIsWalkable
<1>5. \A c \in WithCandidate(all, s) : c.warnings = <<>> => Walkable(graph, c.path)
    BY <1>2, <1>3, <1>4, Zenon DEF Walk
<1> QED BY <1>5, Zenon DEF Walk

(* A graph stays the same, and with it what is known of a partial route.   *)
LEMMA SameStory ==
    ASSUME graph' = graph
    PROVE  /\ \A s : IsState(s) => IsState(s)'
           /\ \A s : Follows(s) => Follows(s)'
           /\ \A s : Stands(s) => Stands(s)'
           /\ \A s, way : May(s, way) => May(s, way)'
           /\ \A all : Walk(all) => Walk(all)'
<1>1. Steps' = Steps
    BY DEF Steps
<1>2. \A path, i : NodeAt(path, i)' = NodeAt(path, i)
    BY DEF NodeAt
<1>3. \A path, at, i : Leads(path, at, i) => Leads(path, at, i)'
    BY <1>2 DEF Leads
<1>4. \A path, at : Played(path, at) => Played(path, at)'
    BY <1>3 DEF Played
<1>5. \A s : IsState(s) => IsState(s)'
    BY <1>1 DEF IsState, IsRecord
<1>6. \A s : Follows(s) => Follows(s)'
    BY <1>2, <1>4 DEF Follows
<1>7. \A s : Stands(s) => Stands(s)'
    BY <1>2, <1>4 DEF Stands
<1>8. \A cycle : IsLap(cycle) => IsLap(cycle)'
    BY DEF IsLap
<1>9. \A s, a : LapsFrom(s, a) => LapsFrom(s, a)'
    BY <1>8 DEF LapsFrom
<1>10. \A s, way : May(s, way) => May(s, way)'
    BY <1>9 DEF May
<1>11. \A all : Walk(all) => Walk(all)'
    BY DEF Walk
<1> QED BY <1>5, <1>6, <1>7, <1>10, <1>11

(* The invariant holds at first.                                           *)
LEMMA InitialRoute == Init => RouteInv
<1> SUFFICES ASSUME Init PROVE RouteInv
    OBVIOUS
<1>1. GraphIsAsked
    BY DEF Init, GraphIsAsked
<1>2. FrontierIsSound
    <2>1. Sound(StartState(graph))
        BY <1>1, AskedGraph, StartFollows DEF Sound
    <2> QED BY <2>1 DEF Init, FrontierIsSound
<1>3. WaysAreOpen /\ Walk(candidates) /\ ConfirmedIsWalkable
    BY DEF Init, WaysAreOpen, Walk, ConfirmedIsWalkable, Answered
<1> QED BY <1>1, <1>2, <1>3 DEF RouteInv

(* The ways on from a partial route that has arrived.                      *)
LEMMA WaysOpen ==
    ASSUME IsGraph(graph), NEW s, IsState(s), NEW way \in OptionsFrom(s)
    PROVE  May(s, way)
<1>1. CASE way.jump = {} /\ way.edge \in From(graph, s.node)
    BY <1>1 DEF May
<1>2. CASE \E a \in Acceleration(s) : way = [edge |-> Head(a.cycle), jump |-> {a}]
    <2>1. PICK a \in Acceleration(s) : way = [edge |-> Head(a.cycle), jump |-> {a}]
        BY <1>2
    <2>2. LapsFrom(s, a)
        BY JumpIsLaps
    <2>3. way.jump = {a}
        BY <2>1
    <2> QED BY <2>2, <2>3 DEF May
<1> QED BY <1>1, <1>2 DEF OptionsFrom

(* A dominated partial route is dropped: nothing new is claimed.           *)
LEMMA DiscardKeeps ==
    ASSUME RouteInv, NEW best \in frontier, Discard(best)
    PROVE  RouteInv'
<1>1. graph' = graph /\ options' = options /\ current' = current /\ candidates' = candidates
      /\ frontier' \subseteq frontier /\ phase' = "search"
    BY DEF Discard, request
<1>2. GraphIsAsked'
    BY <1>1 DEF RouteInv, GraphIsAsked
<1>3. FrontierIsSound'
    BY <1>1, SameStory DEF RouteInv, FrontierIsSound, Sound
<1>4. WaysAreOpen'
    BY <1>1, SameStory, Zenon DEF RouteInv, WaysAreOpen
<1>5. Walk(candidates)'
    BY <1>1 DEF RouteInv, Walk
<1>6. ConfirmedIsWalkable'
    BY <1>1 DEF ConfirmedIsWalkable, Answered
<1> QED BY <1>2, <1>3, <1>4, <1>5, <1>6 DEF RouteInv

(* A partial route is expanded: it arrives, and its ways on are those of   *)
(* the graph or jumps.                                                     *)
LEMMA ExpandKeeps ==
    ASSUME RouteInv, NEW best \in frontier, Expand(best)
    PROVE  RouteInv'
<1>1. PICK s : s = Arrived(best)
    OBVIOUS
<1>2. IsGraph(graph) /\ IsState(s) /\ Stands(s)
    BY <1>1, AskedGraph, ArrivedStands DEF RouteInv, FrontierIsSound, Sound
<1>3. /\ graph' = graph /\ current' = s /\ frontier' \subseteq frontier
      /\ candidates' \in {candidates, WithCandidate(candidates, s)}
      /\ options' \in {{}, OptionsFrom(s)} /\ phase' # "done"
    BY <1>1 DEF Expand, request
<1>4. GraphIsAsked'
    BY <1>3 DEF RouteInv, GraphIsAsked
<1>5. FrontierIsSound'
    BY <1>3, SameStory DEF RouteInv, FrontierIsSound, Sound
<1>6. WaysAreOpen'
    <2>1. \A way \in options' : May(s, way)
        BY <1>2, <1>3, WaysOpen
    <2>2. IsState(s)' /\ Stands(s)' /\ \A way \in options' : May(s, way)'
        BY <1>2, <1>3, <2>1, SameStory
    <2> QED BY <1>3, <2>2, Zenon DEF WaysAreOpen
<1>7. Walk(candidates)'
    <2>1. PICK all : all = candidates'
        OBVIOUS
    <2>2. Walk(all)
        BY <1>2, <1>3, <2>1, CandidateWalks DEF RouteInv
    <2> QED BY <1>3, <2>1, <2>2 DEF Walk
<1>8. ConfirmedIsWalkable'
    BY <1>3 DEF ConfirmedIsWalkable, Answered
<1> QED BY <1>4, <1>5, <1>6, <1>7, <1>8 DEF RouteInv

(* A way on is gone, and what it led to is sound.                          *)
LEMMA WayKeeps ==
    ASSUME RouteInv, graph' = graph, current' = current, options' \subseteq options,
           phase' # "done",
           \A s \in frontier' : s \in frontier \/ Sound(s),
           \A c \in candidates' : c.warnings = <<>> => Walkable(graph, c.path)
    PROVE  RouteInv'
<1>1. GraphIsAsked'
    BY DEF RouteInv, GraphIsAsked
<1>2. FrontierIsSound'
    BY SameStory DEF RouteInv, FrontierIsSound, Sound
<1>3. WaysAreOpen'
    <2> SUFFICES ASSUME options' # {} PROVE WaysAreOpen'
        BY DEF WaysAreOpen
    <2>1. PICK s : /\ s = current /\ IsState(s) /\ Stands(s)
                   /\ \A way \in options : May(s, way)
        BY DEF RouteInv, WaysAreOpen
    <2>2. IsState(s)' /\ Stands(s)' /\ \A way \in options' : May(s, way)'
        BY <2>1, SameStory
    <2> QED BY <2>1, <2>2, Zenon DEF WaysAreOpen
<1>4. Walk(candidates)'
    BY DEF Walk
<1>5. ConfirmedIsWalkable'
    BY DEF ConfirmedIsWalkable, Answered
<1> QED BY <1>1, <1>2, <1>3, <1>4, <1>5 DEF RouteInv

(* A way that a limit or a gate cuts is only forgotten.                    *)
LEMMA BlockedKeeps ==
    ASSUME RouteInv, NEW way \in options, NEW bounded, NEW contradicts,
           Blocked(way, bounded, contradicts)
    PROVE  RouteInv'
<1>1. /\ graph' = graph /\ current' = current /\ options' \subseteq options
      /\ phase' # "done" /\ frontier' = frontier /\ candidates' = candidates
    BY DEF Blocked, Done, request
<1> QED BY <1>1, WayKeeps DEF RouteInv, Walk

(* A sound new partial route is a candidate or joins the frontier.         *)
LEMMA AdvanceKeeps ==
    ASSUME RouteInv, NEW way \in options, NEW s, Sound(s), NEW records,
           Advance(way, s, records)
    PROVE  RouteInv'
<1>1. /\ graph' = graph /\ current' = current /\ options' \subseteq options
      /\ phase' # "done"
      /\ frontier' \subseteq frontier \cup {s}
      /\ candidates' \in {candidates, WithCandidate(candidates, s)}
    BY DEF Advance, Done, request
<1>2. Walk(candidates')
    BY <1>1, CandidateWalks DEF RouteInv, Sound
<1> QED BY <1>1, <1>2, WayKeeps DEF Walk

(* A single edge is taken.                                                 *)
LEMMA TakeEdgeKeeps ==
    ASSUME RouteInv, NEW way \in options, TakeEdge(way)
    PROVE  RouteInv'
<1>1. PICK s : /\ s = current /\ IsState(s) /\ Stands(s) /\ May(s, way)
    BY DEF RouteInv, WaysAreOpen
<1>2. PICK e : e = way.edge
    OBVIOUS
<1>3. e \in From(graph, s.node)
    BY <1>1, <1>2 DEF TakeEdge, May
<1>4. CASE \E bounded, contradicts : Blocked(way, bounded, contradicts)
    BY <1>4, BlockedKeeps
<1>5. CASE ~GateRefuses(s, e) /\ Advance(way, Passed(s, e), 1)
    <2>1. PICK u : u = Passed(s, e)
        OBVIOUS
    <2>2. IsGraph(graph)
        BY AskedGraph DEF RouteInv
    <2>3. Sound(u)
        BY <1>1, <1>3, <1>5, <2>1, <2>2, PassedFollows DEF Sound
    <2>4. Advance(way, u, 1)
        BY <1>5, <2>1, Zenon
    <2> QED BY <2>3, <2>4, AdvanceKeeps
<1> QED BY <1>1, <1>2, <1>4, <1>5, Zenon DEF TakeEdge

(* A loop is jumped through, from a node that changes nothing itself.      *)
LEMMA RepeatLoopKeeps ==
    ASSUME QuietEntry(graph), RouteInv, NEW way \in options, RepeatLoop(way)
    PROVE  RouteInv'
<1>1. PICK s : /\ s = current /\ IsState(s) /\ Stands(s) /\ May(s, way)
    BY DEF RouteInv, WaysAreOpen
<1>2. PICK a \in way.jump :
        \/ \E bounded, contradicts : Blocked(way, bounded, contradicts)
        \/ \E needed : Advance(way, Accelerated(s, a), needed)
    BY <1>1, Zenon DEF RepeatLoop
<1>3. CASE \E bounded, contradicts : Blocked(way, bounded, contradicts)
    BY <1>3, BlockedKeeps
<1>4. CASE \E needed : Advance(way, Accelerated(s, a), needed)
    <2>1. PICK u, needed : u = Accelerated(s, a) /\ Advance(way, Accelerated(s, a), needed)
        BY <1>4
    <2>2. IsGraph(graph)
        BY AskedGraph DEF RouteInv
    <2>3. LapsFrom(s, a)
        BY <1>1 DEF May
    <2>4. Sound(u)
        BY <1>1, <2>1, <2>2, <2>3, AcceleratedFollows DEF Sound
    <2>5. Advance(way, u, needed)
        BY <2>1, Zenon
    <2> QED BY <2>4, <2>5, AdvanceKeeps
<1> QED BY <1>2, <1>3, <1>4

(* What is confirmed is a candidate without a warning.                     *)
LEMMA FinishKeeps ==
    ASSUME RouteInv, Finish
    PROVE  RouteInv'
<1>1. /\ graph' = graph /\ options' = options /\ current' = current
      /\ candidates' = candidates /\ frontier' = frontier
    BY DEF Finish, request
<1>2. GraphIsAsked'
    BY <1>1 DEF RouteInv, GraphIsAsked
<1>3. FrontierIsSound'
    BY <1>1, SameStory DEF RouteInv, FrontierIsSound, Sound
<1>4. WaysAreOpen'
    BY <1>1, SameStory, Zenon DEF RouteInv, WaysAreOpen
<1>5. Walk(candidates)'
    BY <1>1 DEF RouteInv, Walk
<1>6. ConfirmedIsWalkable'
    <2> SUFFICES ASSUME result'.status = "confirmed", NEW c \in result'.recommended
                 PROVE  Walkable(graph, c.path)
        BY <1>1 DEF ConfirmedIsWalkable
    <2>1. c \in candidates /\ StatusOf(c) = "confirmed"
        BY DEF Finish, StatusOfNone, Recommendable
    <2>2. c.warnings = <<>>
        BY <2>1 DEF StatusOf
    <2> QED BY <2>1, <2>2 DEF RouteInv, Walk
<1> QED BY <1>2, <1>3, <1>4, <1>5, <1>6 DEF RouteInv

(* A cancelled search claims nothing.                                      *)
LEMMA NothingElseKeeps ==
    ASSUME RouteInv, Cancel \/ UNCHANGED vars
    PROVE  RouteInv'
<1>1. /\ graph' = graph /\ options' = options /\ current' = current
      /\ candidates' = candidates /\ frontier' = frontier
      /\ phase' = "cancelled" \/ (phase' = phase /\ result' = result)
    BY DEF Cancel, vars, request
<1>2. GraphIsAsked'
    BY <1>1 DEF RouteInv, GraphIsAsked
<1>3. FrontierIsSound'
    BY <1>1, SameStory DEF RouteInv, FrontierIsSound, Sound
<1>4. WaysAreOpen'
    BY <1>1, SameStory, Zenon DEF RouteInv, WaysAreOpen
<1>5. Walk(candidates)'
    BY <1>1 DEF RouteInv, Walk
<1>6. ConfirmedIsWalkable'
    BY <1>1 DEF RouteInv, ConfirmedIsWalkable, Answered
<1> QED BY <1>2, <1>3, <1>4, <1>5, <1>6 DEF RouteInv

(* A route the solver confirms can be played edge by edge, whatever the    *)
(* story, the request and its limits are and however many laps of a loop   *)
(* are in it; the loops that may be jumped through are entered at nodes    *)
(* that change nothing themselves. It is the gates and the value tracked   *)
(* that confirm it, so nothing the search prunes matters here.             *)
THEOREM ConfirmedRoutesAreWalkable ==
    Spec => [](QuietEntry(graph) => ConfirmedIsWalkable)
<1> DEFINE Inv == QuietEntry(graph) => RouteInv
<1>1. Init => Inv
    BY InitialRoute
<1>2. Inv /\ [Next]_vars => Inv'
    <2> SUFFICES ASSUME Inv, [Next]_vars, QuietEntry(graph') PROVE RouteInv'
        OBVIOUS
    <2>1. graph' = graph
        BY DEF Next, Discard, Expand, TakeEdge, RepeatLoop, Blocked, Advance, Finish, Cancel,
               vars, request
    <2>2. RouteInv /\ QuietEntry(graph)
        BY <2>1
    <2>3. CASE \E s \in frontier : Discard(s) \/ Expand(s)
        BY <2>2, <2>3, DiscardKeeps, ExpandKeeps
    <2>4. CASE \E way \in options : TakeEdge(way) \/ RepeatLoop(way)
        BY <2>2, <2>4, TakeEdgeKeeps, RepeatLoopKeeps
    <2>5. CASE Finish
        BY <2>2, <2>5, FinishKeeps
    <2>6. CASE Cancel \/ UNCHANGED vars
        BY <2>2, <2>6, NothingElseKeeps
    <2> QED BY <2>3, <2>4, <2>5, <2>6 DEF Next
<1>3. Inv => (QuietEntry(graph) => ConfirmedIsWalkable)
    BY DEF RouteInv
<1> QED BY <1>1, <1>2, <1>3, PTL DEF Spec

-----------------------------------------------------------------------------
(* The repetitions a requirement reports. What a route writes, in order,   *)
(* and how often a fact is among it since the variable was last assigned.  *)
Writers == Edges(graph) \cup Nodes \cup {InitFact}
Writes == [fact : Writers, effect : Effect]

Kept(w) == {i \in DOMAIN w : \A j \in DOMAIN w : w[j].effect.op = "set" => j <= i}
Tally(w, f) == Cardinality({i \in Kept(w) : w[i].fact = f})

One(x, f) == IF x.fact = f THEN 1 ELSE 0

(* How often a fact is among the first n writes of a list.                 *)
Times(w, n, f) == Cardinality({i \in 1..n : w[i].fact = f})

(* One write more: an assignment forgets those before it.                  *)
LEMMA OneMore ==
    ASSUME NEW w \in Seq(Writes), NEW x \in Writes, NEW f
    PROVE  /\ Tally(w, f) \in Nat
           /\ x.effect.op = "set" => Tally(Append(w, x), f) = One(x, f)
           /\ x.effect.op # "set" => Tally(Append(w, x), f) = Tally(w, f) + One(x, f)
<1>1. PICK n \in Nat : n = Len(w)
    OBVIOUS
<1>2. PICK v : v = Append(w, x)
    OBVIOUS
<1>3. /\ DOMAIN w = 1..n /\ DOMAIN v = 1..(n + 1) /\ v[n + 1] = x
      /\ \A i \in 1..n : v[i] = w[i]
    BY <1>1, <1>2
<1>4. PICK A : A = {i \in Kept(w) : w[i].fact = f}
    OBVIOUS
<1>5. PICK B : B = {i \in Kept(v) : v[i].fact = f}
    OBVIOUS
<1>6. A \subseteq 1..n /\ IsFiniteSet(A) /\ Cardinality(A) \in Nat
    <2>1. A \subseteq 1..n
        BY <1>3, <1>4 DEF Kept
    <2>2. IsFiniteSet(1..n)
        BY FS_Interval
    <2> QED BY <2>1, <2>2, FS_Subset, FS_CardinalityType
<1>7. n + 1 \in B <=> x.fact = f
    BY <1>3, <1>5 DEF Kept
<1>8. CASE x.effect.op = "set"
    <2>1. \A i \in B : i = n + 1
        BY <1>3, <1>5, <1>8 DEF Kept
    <2>2. B = IF x.fact = f THEN {n + 1} ELSE {}
        BY <1>7, <2>1
    <2>3. Cardinality(B) = One(x, f)
        BY <2>2, FS_Singleton, FS_EmptySet DEF One
    <2> QED BY <1>2, <1>4, <1>5, <1>6, <1>8, <2>3 DEF Tally
<1>9. CASE x.effect.op # "set"
    <2>1. \A i \in 1..n : i \in Kept(v) <=> i \in Kept(w)
        BY <1>3, <1>9 DEF Kept
    <2>2. \A i \in 1..n : i \in B <=> i \in A
        BY <1>3, <1>4, <1>5, <2>1
    <2>3. B \subseteq 1..(n + 1)
        BY <1>3, <1>5 DEF Kept
    <2>4. B = IF x.fact = f THEN A \cup {n + 1} ELSE A
        <3>1. \A i \in B : i \in 1..n \/ i = n + 1
            BY <2>3
        <3>2. CASE x.fact = f
            BY <1>6, <1>7, <2>2, <3>1, <3>2
        <3>3. CASE x.fact # f
            <4>1. \A i : i \in B <=> i \in A
                BY <1>6, <1>7, <2>2, <3>1, <3>3
            <4> QED BY <3>3, <4>1
        <3> QED BY <3>2, <3>3
    <2>5. n + 1 \notin A
        BY <1>6
    <2>6. Cardinality(B) = Cardinality(A) + One(x, f)
        <3>1. Cardinality(A \cup {n + 1}) = Cardinality(A) + 1
            BY <1>6, <2>5, FS_AddElement
        <3> QED BY <1>6, <2>4, <3>1 DEF One
    <2> QED BY <1>2, <1>4, <1>5, <1>6, <1>9, <2>6 DEF Tally
<1> QED BY <1>8, <1>9

(* A fact is among the first n writes as often as among the n - 1 before,  *)
(* and once more if it is the n-th.                                        *)
LEMMA TimesUnfolds ==
    ASSUME NEW w, NEW f
    PROVE  /\ Times(w, 0, f) = 0
           /\ \A n \in Nat : Times(w, n, f) \in Nat
           /\ \A n \in Nat \ {0} : Times(w, n, f) = Times(w, n - 1, f) + One(w[n], f)
<1> DEFINE Of(n) == {i \in 1..n : w[i].fact = f}
<1>1. ASSUME NEW n \in Nat PROVE IsFiniteSet(Of(n)) /\ Cardinality(Of(n)) \in Nat
    <2>1. IsFiniteSet(1..n) /\ Of(n) \subseteq 1..n
        BY FS_Interval
    <2> QED BY <2>1, FS_Subset, FS_CardinalityType
<1>2. Of(0) = {}
    OBVIOUS
<1>3. ASSUME NEW n \in Nat \ {0}
      PROVE  Cardinality(Of(n)) = Cardinality(Of(n - 1)) + One(w[n], f)
    <2>1. n \notin Of(n - 1) /\ n - 1 \in Nat
        OBVIOUS
    <2>2. Of(n) = IF w[n].fact = f THEN Of(n - 1) \cup {n} ELSE Of(n - 1)
        OBVIOUS
    <2>3. IsFiniteSet(Of(n - 1)) /\ Cardinality(Of(n - 1)) \in Nat
        BY <1>1, <2>1
    <2> HIDE DEF Of
    <2>4. Cardinality(Of(n - 1) \cup {n}) = Cardinality(Of(n - 1)) + 1
        BY <2>1, <2>3, FS_AddElement
    <2> QED BY <2>2, <2>3, <2>4 DEF One
<1>4. Cardinality(Of(0)) = 0
    BY <1>2, FS_EmptySet
<1> QED BY <1>1, <1>3, <1>4 DEF Times

(* A function on the first numbers is a sequence.                          *)
LEMMA SequenceOf ==
    ASSUME NEW S, NEW k \in Nat, NEW g \in [1..k -> S]
    PROVE  g \in Seq(S) /\ Len(g) = k
OBVIOUS

(* Writes of which none is an assignment are added to those before.        *)
LEMMA MoreWrites ==
    ASSUME NEW w \in Seq(Writes), NEW more \in Seq(Writes), NEW f,
           \A i \in 1..Len(more) : more[i].effect.op # "set"
    PROVE  Tally(w \o more, f) = Tally(w, f) + Times(more, Len(more), f)
<1>0. PICK n \in Nat : n = Len(w)
    OBVIOUS
<1>1. PICK m \in Nat : n = Len(w) /\ m = Len(more)
    BY <1>0
<1> DEFINE upTo(i) == [j \in 1..(n + i) |-> IF j <= n THEN w[j] ELSE more[j - n]]
<1>2. /\ \A j \in 1..n : w[j] \in Writes
      /\ \A j \in 1..m : more[j] \in Writes
    BY <1>1
<1>3. ASSUME NEW i \in 0..m
      PROVE  /\ upTo(i) \in Seq(Writes) /\ Len(upTo(i)) = n + i /\ DOMAIN upTo(i) = 1..(n + i)
             /\ \A j \in 1..(n + i) : j <= n => upTo(i)[j] = w[j]
             /\ \A j \in 1..(n + i) : ~(j <= n) => upTo(i)[j] = more[j - n]
    <2>1. \A j \in 1..(n + i) : j \in 1..n \/ (~(j <= n) /\ j - n \in 1..m)
        BY <1>1
    <2>2. \A j \in 1..(n + i) : (IF j <= n THEN w[j] ELSE more[j - n]) \in Writes
        BY <1>2, <2>1
    <2>3. upTo(i) \in [1..(n + i) -> Writes] /\ n + i \in Nat
        BY <1>1, <2>2
    <2> HIDE DEF upTo
    <2>4. upTo(i) \in Seq(Writes) /\ Len(upTo(i)) = n + i
        <3>1. PICK k \in Nat : k = n + i
            BY <2>3
        <3>2. PICK g \in [1..k -> Writes] : g = upTo(i)
            BY <2>3, <3>1
        <3>3. g \in Seq(Writes) /\ Len(g) = k
            BY SequenceOf
        <3> QED BY <3>1, <3>2, <3>3
    <2> QED BY <2>3, <2>4 DEF upTo
<1>4. upTo(0) = w
    <2>1. w = [j \in 1..n |-> w[j]]
        BY <1>1
    <2>2. n + 0 = n /\ \A j \in 1..n : j <= n
        BY <1>1
    <2>3. upTo(0) = [j \in 1..n |-> w[j]]
        BY <2>2
    <2> QED BY <2>1, <2>3
<1>5. ASSUME NEW i \in 1..m PROVE upTo(i) = Append(upTo(i - 1), more[i])
    <2>1. /\ i \in 0..m /\ i - 1 \in 0..m /\ n + i \in Nat /\ ~(n + i <= n)
          /\ (n + i) - n = i /\ (n + (i - 1)) + 1 = n + i
        BY <1>1
    <2>2. PICK a, b : a = upTo(i) /\ b = upTo(i - 1)
        OBVIOUS
    <2>3. /\ a \in Seq(Writes) /\ Len(a) = n + i
          /\ b \in Seq(Writes) /\ Len(b) = n + (i - 1)
        BY <1>3, <2>1, <2>2
    <2>4. \A j \in 1..(n + (i - 1)) : a[j] = b[j]
        <3> HIDE DEF upTo
        <3> TAKE j \in 1..(n + (i - 1))
        <3>1. j \in 1..(n + i)
            BY <1>1
        <3>2. CASE j <= n
            BY <1>3, <2>1, <2>2, <3>1, <3>2
        <3>3. CASE ~(j <= n)
            BY <1>3, <2>1, <2>2, <3>1, <3>3
        <3> QED BY <3>2, <3>3
    <2>5. a[n + i] = more[i]
        <3> HIDE DEF upTo
        <3>1. n + i \in 1..(n + i)
            BY <1>1
        <3> QED BY <1>3, <2>1, <2>2, <3>1
    <2>6. more[i] \in Writes
        BY <1>2
    <2> HIDE DEF upTo
    <2>7. a = Append(b, more[i])
        <3>1. PICK c : c = Append(b, more[i])
            OBVIOUS
        <3>2. /\ c \in Seq(Writes) /\ Len(c) = n + i /\ c[n + i] = more[i]
              /\ \A j \in 1..(n + (i - 1)) : c[j] = b[j]
            BY <2>1, <2>3, <2>6, <3>1
        <3>3. \A j \in 1..(n + i) : j \in 1..(n + (i - 1)) \/ j = n + i
            <4>1. i \in Nat /\ n \in Nat
                BY <1>1
            <4> QED BY <4>1
        <3>4. \A j \in 1..(n + i) : a[j] = c[j]
            BY <2>4, <2>5, <3>2, <3>3
        <3>5. a = [j \in 1..(n + i) |-> a[j]] /\ c = [j \in 1..(n + i) |-> c[j]]
            BY <2>3, <3>2
        <3> QED BY <3>1, <3>4, <3>5
    <2> QED BY <2>2, <2>7
<1>6. upTo(m) = w \o more
    <2>1. PICK a, b : a = upTo(m) /\ b = w \o more
        OBVIOUS
    <2>2. m \in 0..m
        BY <1>1
    <2> HIDE DEF upTo
    <2>3. a \in Seq(Writes) /\ b \in Seq(Writes) /\ Len(a) = n + m /\ Len(b) = n + m
        BY <1>1, <1>3, <2>1, <2>2
    <2>4. \A j \in 1..(n + m) : a[j] = b[j]
        <3> TAKE j \in 1..(n + m)
        <3>1. CASE j <= n
            <4>1. b[j] = w[j]
                BY <1>1, <2>1, <3>1
            <4> QED BY <1>3, <2>1, <2>2, <3>1, <4>1
        <3>2. CASE ~(j <= n)
            <4>1. b[j] = more[j - n]
                BY <1>1, <2>1, <3>2
            <4> QED BY <1>3, <2>1, <2>2, <3>2, <4>1
        <3> QED BY <3>1, <3>2
    <2>5. a = [j \in 1..(n + m) |-> a[j]] /\ b = [j \in 1..(n + m) |-> b[j]]
        BY <2>3
    <2> QED BY <2>1, <2>4, <2>5
<1> HIDE DEF upTo
<1>7. PICK T : T = {i \in 0..m : Tally(upTo(i), f) = Tally(w, f) + Times(more, i, f)}
    OBVIOUS
<1>8. Tally(w, f) \in Nat
    <2>1. PICK x : x = [fact |-> InitFact, effect |-> NoEffect]
        OBVIOUS
    <2>2. x \in Writes
        BY <2>1 DEF Writes, Writers, Effect
    <2> QED BY <2>2, OneMore
<1>9. 0 \in T
    BY <1>1, <1>4, <1>7, <1>8, TimesUnfolds
<1>10. ASSUME NEW i \in 1..m, i - 1 \in T PROVE i \in T
    <2>1. i - 1 \in 0..m /\ i \in 0..m /\ i \in Nat \ {0} /\ i - 1 \in Nat
        BY <1>1
    <2>2. upTo(i - 1) \in Seq(Writes) /\ more[i] \in Writes /\ more[i].effect.op # "set"
        BY <1>1, <1>2, <1>3, <2>1
    <2>3. Tally(upTo(i), f) = Tally(upTo(i - 1), f) + One(more[i], f)
        BY <1>5, <2>2, OneMore
    <2>4. Times(more, i, f) = Times(more, i - 1, f) + One(more[i], f)
        BY <2>1, TimesUnfolds
    <2>5. Times(more, i - 1, f) \in Nat /\ One(more[i], f) \in Nat
        BY <2>1, TimesUnfolds DEF One
    <2>6. Tally(upTo(i - 1), f) = Tally(w, f) + Times(more, i - 1, f)
        BY <1>7, <1>10
    <2>7. Tally(upTo(i), f) = Tally(w, f) + Times(more, i, f)
        BY <1>8, <2>3, <2>4, <2>5, <2>6
    <2> QED BY <1>7, <2>1, <2>7
<1>11. \A i \in 0..m : i \in T
    <2>1. \A i \in 1..m : i - 1 \in T => i \in T
        BY <1>10
    <2> QED BY <1>1, <1>9, <2>1, Induction, Zenon
<1>12. m \in T
    BY <1>1, <1>11
<1> QED BY <1>1, <1>6, <1>7, <1>12

(* The writes of a path, edge by edge.                                     *)
Written(path, g) ==
    g = [i \in 0..Len(path) |-> IF i = 0 THEN <<>> ELSE g[i - 1] \o WritesOver(path[i])]

(* An edge makes its own effect and that of its end.                       *)
LEMMA EdgeWrites ==
    ASSUME IsGraph(graph)
    PROVE  /\ \A f \in Writers, x \in Effect : Write(f, x) \in Seq(Writes)
           /\ \A e \in Edges(graph) : WritesOver(e) \in Seq(Writes)
<1>1. ASSUME NEW f \in Writers, NEW x \in Effect PROVE Write(f, x) \in Seq(Writes)
    <2>1. [fact |-> f, effect |-> x] \in Writes
        BY DEF Writes
    <2> QED BY <2>1 DEF Write
<1>2. ASSUME NEW e \in Edges(graph) PROVE WritesOver(e) \in Seq(Writes)
    <2>1. PICK n : n = graph.edges[e].dst
        OBVIOUS
    <2>2. e \in Writers /\ n \in Writers /\ graph.edges[e].effect \in Effect /\ graph.arrive[n] \in Effect
        BY <2>1 DEF IsGraph, Writers
    <2>3. Write(e, graph.edges[e].effect) \in Seq(Writes) /\ Write(n, graph.arrive[n]) \in Seq(Writes)
        BY <1>1, <2>2
    <2> QED BY <2>1, <2>3 DEF WritesOver
<1> QED BY <1>1, <1>2

(* What a path writes are the writes of its edges, one after another.      *)
LEMMA WrittenUnfolds ==
    ASSUME IsGraph(graph), NEW path \in Seq(Edges(graph))
    PROVE  \E g \in [0..Len(path) -> Seq(Writes)] :
              /\ g[0] = <<>> /\ CycleEffects(path) = g[Len(path)]
              /\ \A i \in 1..Len(path) : g[i] = g[i - 1] \o WritesOver(path[i])
<1>1. PICK n \in Nat : n = Len(path)
    OBVIOUS
<1>2. PICK step : step = [q \in Seq(Writes) \X (1..n) |-> q[1] \o WritesOver(path[q[2]])]
    OBVIOUS
<1>3. step \in [Seq(Writes) \X (1..n) -> Seq(Writes)]
    <2>1. \A i \in 1..n : WritesOver(path[i]) \in Seq(Writes)
        BY <1>1, EdgeWrites
    <2>2. \A q \in Seq(Writes) \X (1..n) : q[1] \o WritesOver(path[q[2]]) \in Seq(Writes)
        <3> TAKE q \in Seq(Writes) \X (1..n)
        <3>1. q[1] \in Seq(Writes) /\ WritesOver(path[q[2]]) \in Seq(Writes)
            BY <2>1
        <3> QED BY <3>1
    <2> QED BY <1>2, <2>2
<1>4. PICK g \in [0..n -> Seq(Writes)] : Unfolds(g, n, <<>>, step)
    <2>1. <<>> \in Seq(Writes)
        OBVIOUS
    <2> QED BY <1>3, <2>1, Recursion
<1>5. \A i \in 1..n : g[i] = g[i - 1] \o WritesOver(path[i])
    <2> TAKE i \in 1..n
    <2>1. PICK q : q = <<g[i - 1], i>>
        OBVIOUS
    <2>2. q \in Seq(Writes) \X (1..n) /\ q[1] = g[i - 1] /\ q[2] = i
        BY <1>4, <2>1
    <2>3. g[i] = step[q]
        BY <1>4, <2>1 DEF Unfolds
    <2> QED BY <1>2, <2>2, <2>3
<1>6. Written(path, g)
    <2>1. g = [i \in 0..n |-> g[i]]
        BY <1>4
    <2>2. \A i \in 0..n : i = 0 \/ (i \in 1..n /\ i # 0)
        OBVIOUS
    <2>3. \A i \in 0..n : g[i] = IF i = 0 THEN <<>> ELSE g[i - 1] \o WritesOver(path[i])
        BY <1>4, <1>5, <2>2, Zenon DEF Unfolds
    <2> QED BY <1>1, <2>1, <2>3, Zenon DEF Written
<1> DEFINE made == CHOOSE h : Written(path, h)
<1>7. CycleEffects(path) = made[Len(path)]
    BY DEF CycleEffects, Written
<1>8. Written(path, made)
    BY <1>6
<1> HIDE DEF made
<1>9. made[0] = <<>>
    BY <1>8, 0 \in 0..Len(path), Zenon DEF Written
<1>10. ASSUME NEW i \in 1..n PROVE made[i] = made[i - 1] \o WritesOver(path[i])
    <2>1. i \in 0..Len(path) /\ i # 0
        BY <1>1
    <2> QED BY <1>8, <2>1, Zenon DEF Written
<1>11. \A i \in 0..n : made[i] = g[i]
    <2> PICK T : T = {i \in 0..n : made[i] = g[i]}
        OBVIOUS
    <2>1. 0 \in T
        BY <1>4, <1>9 DEF Unfolds
    <2>2. \A i \in 1..n : i - 1 \in T => i \in T
        <3> TAKE i \in 1..n
        <3>1. i \in 0..n
            OBVIOUS
        <3> QED BY <1>5, <1>10, <3>1
    <2>3. \A i \in 0..n : i \in T
        BY <2>1, <2>2, Induction, Zenon
    <2> QED BY <2>3
<1>12. CycleEffects(path) = g[n]
    <2>1. n \in 0..n
        OBVIOUS
    <2> QED BY <1>1, <1>7, <1>11, <2>1
<1> QED BY <1>1, <1>4, <1>5, <1>12 DEF Unfolds

(* Joining is associative, and nothing is nothing to join.                 *)
LEMMA Associative ==
    ASSUME NEW a \in Seq(Writes), NEW b \in Seq(Writes), NEW c \in Seq(Writes)
    PROVE  (a \o b) \o c = a \o (b \o c) /\ a \o <<>> = a /\ <<>> \o a = a
OBVIOUS

(* The writes of two paths in a row.                                       *)
LEMMA WritesJoin ==
    ASSUME IsGraph(graph), NEW p \in Seq(Edges(graph)), NEW q \in Seq(Edges(graph))
    PROVE  /\ CycleEffects(p) \in Seq(Writes)
           /\ CycleEffects(p \o q) = CycleEffects(p) \o CycleEffects(q)
<1>1. PICK n \in Nat : n = Len(p)
    OBVIOUS
<1>2. PICK m \in Nat : m = Len(q)
    OBVIOUS
<1>3. PICK pq : pq = p \o q
    OBVIOUS
<1>4. /\ pq \in Seq(Edges(graph)) /\ Len(pq) = n + m
      /\ \A i \in 1..n : pq[i] = p[i]
      /\ \A i \in 1..m : pq[n + i] = q[i]
    BY <1>1, <1>2, <1>3, Joined
<1>5. PICK f \in [0..n -> Seq(Writes)] :
            /\ f[0] = <<>> /\ CycleEffects(p) = f[n]
            /\ \A i \in 1..n : f[i] = f[i - 1] \o WritesOver(p[i])
    BY <1>1, WrittenUnfolds
<1>6. PICK g \in [0..m -> Seq(Writes)] :
            /\ g[0] = <<>> /\ CycleEffects(q) = g[m]
            /\ \A i \in 1..m : g[i] = g[i - 1] \o WritesOver(q[i])
    BY <1>2, WrittenUnfolds
<1>7. PICK h \in [0..(n + m) -> Seq(Writes)] :
            /\ h[0] = <<>> /\ CycleEffects(pq) = h[n + m]
            /\ \A i \in 1..(n + m) : h[i] = h[i - 1] \o WritesOver(pq[i])
    <2>1. PICK k : k = Len(pq)
        OBVIOUS
    <2>2. \E h \in [0..k -> Seq(Writes)] :
            /\ h[0] = <<>> /\ CycleEffects(pq) = h[k]
            /\ \A i \in 1..k : h[i] = h[i - 1] \o WritesOver(pq[i])
        BY <1>4, <2>1, WrittenUnfolds
    <2>3. k = n + m
        BY <1>4, <2>1
    <2> QED BY <2>2, <2>3
<1>8. \A i \in 0..n : h[i] = f[i]
    <2> PICK T : T = {i \in 0..n : h[i] = f[i]}
        OBVIOUS
    <2>1. 0 \in T
        BY <1>5, <1>7
    <2>2. \A i \in 1..n : i - 1 \in T => i \in T
        <3> TAKE i \in 1..n
        <3>1. i \in 0..n /\ i \in 1..(n + m)
            OBVIOUS
        <3> QED BY <1>4, <1>5, <1>7, <3>1
    <2>3. \A i \in 0..n : i \in T
        BY <2>1, <2>2, Induction, Zenon
    <2> QED BY <2>3
<1>9. f[n] \in Seq(Writes) /\ h[n] = f[n]
    <2>1. n \in 0..n
        OBVIOUS
    <2> QED BY <1>5, <1>8, <2>1
<1>10. \A i \in 0..m : h[n + i] = f[n] \o g[i]
    <2> PICK T : T = {i \in 0..m : h[n + i] = f[n] \o g[i]}
        OBVIOUS
    <2>1. 0 \in T
        <3>1. f[n] \o <<>> = f[n]
            BY <1>9, Associative
        <3>2. n + 0 = n /\ 0 \in 0..m
            OBVIOUS
        <3> QED BY <1>6, <1>9, <3>1, <3>2
    <2>2. \A i \in 1..m : i - 1 \in T => i \in T
        <3> SUFFICES ASSUME NEW i \in 1..m, i - 1 \in T PROVE i \in T
            OBVIOUS
        <3>1. /\ i \in 0..m /\ n + i \in 1..(n + m) /\ (n + i) - 1 = n + (i - 1)
              /\ i - 1 \in 0..m
            OBVIOUS
        <3>2. PICK w : w = WritesOver(q[i])
            OBVIOUS
        <3>3. h[n + i] = (f[n] \o g[i - 1]) \o w
            BY <1>4, <1>7, <3>1, <3>2
        <3>4. w \in Seq(Writes) /\ g[i - 1] \in Seq(Writes)
            <4>1. q[i] \in Edges(graph)
                BY <1>2
            <4>2. w \in Seq(Writes)
                BY <3>2, <4>1, EdgeWrites
            <4> QED BY <1>6, <3>1, <4>2
        <3>5. (f[n] \o g[i - 1]) \o w = f[n] \o (g[i - 1] \o w)
            BY <1>9, <3>4, Associative
        <3> QED BY <1>6, <3>1, <3>2, <3>3, <3>5
    <2>3. \A i \in 0..m : i \in T
        BY <2>1, <2>2, Induction, Zenon
    <2> QED BY <2>3
<1>11. h[n + m] = f[n] \o g[m]
    <2>1. m \in 0..m
        OBVIOUS
    <2> QED BY <1>10, <2>1
<1> QED BY <1>3, <1>5, <1>6, <1>7, <1>9, <1>11

(* The empty path writes nothing, one edge its own writes.                 *)
LEMMA NoWrites ==
    ASSUME IsGraph(graph)
    PROVE  /\ CycleEffects(<<>>) = <<>>
           /\ \A e \in Edges(graph) : CycleEffects(<<e>>) = WritesOver(e)
<1>1. CycleEffects(<<>>) = <<>>
    <2>1. <<>> \in Seq(Edges(graph)) /\ Len(<<>>) = 0
        OBVIOUS
    <2> QED BY <2>1, WrittenUnfolds
<1>2. ASSUME NEW e \in Edges(graph) PROVE CycleEffects(<<e>>) = WritesOver(e)
    <2>1. PICK p : p = <<e>>
        OBVIOUS
    <2>2. p \in Seq(Edges(graph)) /\ Len(p) = 1 /\ p[1] = e
        BY <2>1
    <2>3. PICK g : /\ g[0] = <<>> /\ CycleEffects(p) = g[1]
                   /\ \A i \in 1..1 : g[i] = g[i - 1] \o WritesOver(p[i])
        <3>1. \E g : /\ g[0] = <<>> /\ CycleEffects(p) = g[Len(p)]
                     /\ \A i \in 1..Len(p) : g[i] = g[i - 1] \o WritesOver(p[i])
            BY <2>2, WrittenUnfolds
        <3> QED BY <2>2, <3>1
    <2>4. g[1] = <<>> \o WritesOver(e)
        <3>1. 1 \in 1..1 /\ 1 - 1 = 0
            OBVIOUS
        <3> QED BY <2>2, <2>3, <3>1
    <2>5. WritesOver(e) \in Seq(Writes)
        BY EdgeWrites
    <2> QED BY <2>1, <2>3, <2>4, <2>5, Associative
<1> QED BY <1>1, <1>2

(* How often a value source says a fact was applied.                       *)
Counts == UNION {[D -> Nat] : D \in SUBSET Writers}
Sources == [order : Seq(Writers), count : Counts, last : Writers \cup {None}, entry : BOOLEAN]

Counted(source, f) == IF f \in DOMAIN source.count THEN source.count[f] ELSE 0
Listed(source) == ToSet(source.order) \subseteq DOMAIN source.count

(* An effect that is applied so many times counts so many times more.      *)
LEMMA AppliedCounts ==
    ASSUME NEW source \in Sources, NEW fact \in Writers, NEW times \in Nat,
           NEW t, t = Applied(source, fact, times)
    PROVE  /\ t \in Sources /\ (Listed(source) => Listed(t))
           /\ \A f : Counted(t, f) = Counted(source, f) + (IF f = fact THEN times ELSE 0)
           /\ \A f : Counted(source, f) \in Nat
<1>1. PICK D \in SUBSET Writers : source.count \in [D -> Nat]
    BY DEF Sources, Counts
<1>2. PICK order : order = IF fact \in ToSet(source.order) THEN source.order
                           ELSE Append(source.order, fact)
    OBVIOUS
<1>3. PICK count : count = [f \in D \cup {fact} |->
                               (IF f \in D THEN source.count[f] ELSE 0)
                                    + (IF f = fact THEN times ELSE 0)]
    OBVIOUS
<1>4. /\ source = [order |-> source.order, count |-> source.count,
                   last |-> source.last, entry |-> source.entry]
      /\ source.order \in Seq(Writers) /\ source.entry \in BOOLEAN
    BY DEF Sources
<1>5. t = [source EXCEPT !.order = order, !.count = count, !.last = fact]
    <2>1. DOMAIN source.count = D
        BY <1>1
    <2> QED BY <1>2, <1>3, <2>1 DEF Applied
<1>6. t = [order |-> order, count |-> count, last |-> fact, entry |-> source.entry]
    BY <1>4, <1>5
<1>7. order \in Seq(Writers) /\ ToSet(order) \subseteq ToSet(source.order) \cup {fact}
    <2>1. CASE fact \in ToSet(source.order)
        BY <1>2, <1>4, <2>1
    <2>2. CASE fact \notin ToSet(source.order)
        <3>1. order = Append(source.order, fact)
            BY <1>2, <2>2
        <3>2. order \in Seq(Writers) /\ Len(order) = Len(source.order) + 1
              /\ \A i \in 1..Len(order) : order[i] = fact
                    \/ (i \in 1..Len(source.order) /\ order[i] = source.order[i])
            BY <1>4, <3>1
        <3> QED BY <1>4, <3>2 DEF ToSet
    <2> QED BY <2>1, <2>2
<1>8. \A f \in D : source.count[f] \in Nat
    BY <1>1
<1>9. count \in [(D \cup {fact}) -> Nat] /\ D \cup {fact} \in SUBSET Writers
    BY <1>3, <1>8
<1>10. t \in Sources
    <2>1. count \in Counts
        BY <1>9 DEF Counts
    <2> QED BY <1>4, <1>6, <1>7, <2>1 DEF Sources
<1>11. Listed(source) => Listed(t)
    BY <1>1, <1>6, <1>7, <1>9 DEF Listed
<1>12. ASSUME NEW f
       PROVE  /\ Counted(source, f) \in Nat
              /\ Counted(t, f) = Counted(source, f) + (IF f = fact THEN times ELSE 0)
    <2>1. /\ DOMAIN source.count = D /\ DOMAIN t.count = D \cup {fact}
          /\ t.count = count
        BY <1>1, <1>6, <1>9
    <2> QED BY <1>3, <1>8, <2>1 DEF Counted
<1> QED BY <1>10, <1>11, <1>12

AppliedInOrder(source, writes, times, g) ==
    g = [i \in 0..Len(writes) |->
            IF i = 0 THEN source ELSE Applied(g[i - 1], writes[i].fact, times)]

(* What is applied of a list of writes is each of them, in order, so many  *)
(* times.                                                                  *)
LEMMA AllAppliedCount ==
    ASSUME NEW source \in Sources, Listed(source), NEW writes \in Seq(Writes),
           NEW times \in Nat, NEW t, t = AllApplied(source, writes, times)
    PROVE  /\ t \in Sources /\ Listed(t)
           /\ \A f : Counted(t, f) = Counted(source, f) + times * Times(writes, Len(writes), f)
<1>1. PICK n \in Nat : n = Len(writes)
    OBVIOUS
<1>2. \A i \in 1..n : writes[i].fact \in Writers
    <2>1. \A i \in 1..n : writes[i] \in Writes
        BY <1>1
    <2> QED BY <2>1 DEF Writes
<1>3. PICK step : step = [q \in Sources \X (1..n) |-> Applied(q[1], writes[q[2]].fact, times)]
    OBVIOUS
<1>4. step \in [Sources \X (1..n) -> Sources]
    <2>1. \A q \in Sources \X (1..n) : Applied(q[1], writes[q[2]].fact, times) \in Sources
        <3> TAKE q \in Sources \X (1..n)
        <3>1. q[1] \in Sources /\ q[2] \in 1..n
            OBVIOUS
        <3> QED BY <1>2, <3>1, AppliedCounts
    <2> QED BY <1>3, <2>1
<1>5. PICK g \in [0..n -> Sources] : Unfolds(g, n, source, step)
    BY <1>4, Recursion
<1>6. \A i \in 1..n : g[i] = Applied(g[i - 1], writes[i].fact, times)
    <2> TAKE i \in 1..n
    <2>1. PICK q : q = <<g[i - 1], i>>
        OBVIOUS
    <2>2. q \in Sources \X (1..n) /\ q[1] = g[i - 1] /\ q[2] = i
        BY <1>5, <2>1
    <2>3. g[i] = step[q]
        BY <1>5, <2>1 DEF Unfolds
    <2> QED BY <1>3, <2>2, <2>3
<1>7. AppliedInOrder(source, writes, times, g)
    <2>1. g = [i \in 0..n |-> g[i]]
        BY <1>5
    <2>2. \A i \in 0..n : i = 0 \/ (i \in 1..n /\ i # 0)
        OBVIOUS
    <2>3. \A i \in 0..n : g[i] = IF i = 0 THEN source
                                 ELSE Applied(g[i - 1], writes[i].fact, times)
        BY <1>5, <1>6, <2>2, Zenon DEF Unfolds
    <2> QED BY <1>1, <2>1, <2>3, Zenon DEF AppliedInOrder
<1> DEFINE made == CHOOSE h : AppliedInOrder(source, writes, times, h)
<1>8. t = made[n]
    BY <1>1 DEF AllApplied, AppliedInOrder
<1>9. AppliedInOrder(source, writes, times, made)
    BY <1>7
<1> HIDE DEF made
<1>10. made[0] = source
    BY <1>9, 0 \in 0..Len(writes), Zenon DEF AppliedInOrder
<1>11. ASSUME NEW i \in 1..n PROVE made[i] = Applied(made[i - 1], writes[i].fact, times)
    <2>1. i \in 0..Len(writes) /\ i # 0
        BY <1>1
    <2> QED BY <1>9, <2>1, Zenon DEF AppliedInOrder
<1> DEFINE Right(i) == /\ made[i] \in Sources /\ Listed(made[i])
                       /\ \A f : Counted(made[i], f)
                                    = Counted(source, f) + times * Times(writes, i, f)
<1>12. Right(0)
    <2>1. \A f : Times(writes, 0, f) = 0 /\ Counted(source, f) \in Nat
        <3>1. PICK fact \in Writers : TRUE
            BY DEF Writers
        <3> QED BY <3>1, TimesUnfolds, AppliedCounts
    <2>2. \A f : Counted(source, f) = Counted(source, f) + times * Times(writes, 0, f)
        BY <2>1
    <2> QED BY <1>10, <2>2
<1>13. ASSUME NEW i \in 1..n, Right(i - 1) PROVE Right(i)
    <2>1. PICK from, to : from = made[i - 1] /\ to = made[i]
        OBVIOUS
    <2>2. PICK fact \in Writers : fact = writes[i].fact
        BY <1>2
    <2>3. from \in Sources /\ Listed(from) /\ to = Applied(from, fact, times)
        BY <1>11, <1>13, <2>1, <2>2
    <2>4. /\ to \in Sources /\ Listed(to)
          /\ \A f : Counted(to, f) = Counted(from, f) + (IF f = fact THEN times ELSE 0)
        BY <2>3, AppliedCounts
    <2>5. ASSUME NEW f
          PROVE  Counted(to, f) = Counted(source, f) + times * Times(writes, i, f)
        <3>1. PICK before \in Nat : before = Times(writes, i - 1, f)
            <4>1. i - 1 \in Nat
                OBVIOUS
            <4> QED BY <4>1, TimesUnfolds
        <3>2. i \in Nat \ {0}
            BY <1>1
        <3>3. Times(writes, i, f) = before + (IF f = fact THEN 1 ELSE 0)
            BY <2>2, <3>1, <3>2, TimesUnfolds DEF One
        <3>4. Counted(from, f) = Counted(source, f) + times * before
            BY <1>13, <2>1, <3>1
        <3>5. Counted(source, f) \in Nat
            BY <2>2, AppliedCounts
        <3>6. times * (before + 1) = times * before + times /\ times * before \in Nat
            OBVIOUS
        <3>7. CASE f = fact
            BY <2>4, <3>3, <3>4, <3>5, <3>6, <3>7
        <3>8. CASE f # fact
            BY <2>4, <3>3, <3>4, <3>5, <3>6, <3>8
        <3> QED BY <3>7, <3>8
    <2> QED BY <2>1, <2>4, <2>5
<1>14. \A i \in 0..n : Right(i)
    <2> HIDE DEF Right
    <2> PICK T : T = {i \in 0..n : Right(i)}
        OBVIOUS
    <2>1. 0 \in T
        BY <1>12
    <2>2. \A i \in 1..n : i - 1 \in T => i \in T
        BY <1>13
    <2>3. \A i \in 0..n : i \in T
        BY <2>1, <2>2, Induction, Zenon
    <2> QED BY <2>3
<1>15. Right(n)
    <2>1. n \in 0..n
        OBVIOUS
    <2> HIDE DEF Right
    <2> QED BY <1>14, <2>1
<1> QED BY <1>1, <1>8, <1>15

(* The edges of n laps.                                                    *)
LapRun(cycle, n) == [k \in 1..(n * Len(cycle)) |-> cycle[((k - 1) % Len(cycle)) + 1]]

(* One lap more.                                                           *)
LEMMA OneLapMore ==
    ASSUME NEW S, NEW cycle \in Seq(S), Len(cycle) > 0, NEW n \in Nat
    PROVE  /\ LapRun(cycle, n) \in Seq(S) /\ Len(LapRun(cycle, n)) = n * Len(cycle)
           /\ LapRun(cycle, 0) = <<>>
           /\ LapRun(cycle, n + 1) = LapRun(cycle, n) \o cycle
<1>1. PICK d \in Nat \ {0} : d = Len(cycle)
    OBVIOUS
<1>2. \A i \in 1..d : cycle[i] \in S
    BY <1>1
<1>3. ASSUME NEW m \in Nat
      PROVE  /\ LapRun(cycle, m) \in Seq(S) /\ Len(LapRun(cycle, m)) = m * d
             /\ LapRun(cycle, m) = [k \in 1..(m * d) |-> cycle[((k - 1) % d) + 1]]
    <2>1. PICK more \in Nat : more = m * d
        OBVIOUS
    <2>2. PICK laps : laps = [k \in 1..more |-> cycle[((k - 1) % d) + 1]]
        OBVIOUS
    <2>3. \A k \in 1..more : cycle[((k - 1) % d) + 1] \in S
        <3> TAKE k \in 1..more
        <3>1. (k - 1) % d \in 0..(d - 1)
            OBVIOUS
        <3>2. ((k - 1) % d) + 1 \in 1..d
            BY <3>1
        <3> QED BY <1>2, <3>2
    <2>4. laps \in [1..more -> S]
        BY <2>2, <2>3
    <2>5. laps \in Seq(S) /\ Len(laps) = more
        BY <2>4
    <2>6. LapRun(cycle, m) = laps
        BY <1>1, <2>1, <2>2 DEF LapRun
    <2> QED BY <2>1, <2>2, <2>5, <2>6
<1>4. LapRun(cycle, 0) = <<>>
    <2>1. 0 * d = 0 /\ LapRun(cycle, 0) \in Seq(S) /\ Len(LapRun(cycle, 0)) = 0 * d
        BY <1>3
    <2> QED BY <2>1
<1>5. LapRun(cycle, n + 1) = LapRun(cycle, n) \o cycle
    <2>1. PICK more \in Nat : more = n * d
        OBVIOUS
    <2>2. (n + 1) * d = more + d /\ n + 1 \in Nat
        BY <2>1
    <2>3. PICK a, b : a = LapRun(cycle, n + 1) /\ b = LapRun(cycle, n) \o cycle
        OBVIOUS
    <2>4. a \in Seq(S) /\ Len(a) = more + d
          /\ a = [k \in 1..(more + d) |-> cycle[((k - 1) % d) + 1]]
        BY <1>3, <2>2, <2>3
    <2>5. PICK r : r = LapRun(cycle, n)
        OBVIOUS
    <2>6. r \in Seq(S) /\ Len(r) = more
          /\ r = [k \in 1..more |-> cycle[((k - 1) % d) + 1]]
        BY <1>3, <2>1, <2>5
    <2>7. b \in Seq(S) /\ Len(b) = more + d
          /\ (\A k \in 1..more : b[k] = r[k]) /\ (\A k \in 1..d : b[more + k] = cycle[k])
        BY <1>1, <2>3, <2>5, <2>6, Joined
    <2>8. ASSUME NEW k \in 1..(more + d) PROVE a[k] = b[k]
        <3>1. a[k] = cycle[((k - 1) % d) + 1]
            BY <2>4
        <3>2. CASE k \in 1..more
            BY <2>6, <2>7, <3>1, <3>2
        <3>3. CASE k \notin 1..more
            <4>1. PICK j \in 1..d : k = more + j
                <5>1. k - more \in 1..d /\ k = more + (k - more)
                    BY <3>3
                <5> QED BY <5>1
            <4>2. PICK q \in Int, t \in 0..(d - 1) : t = (k - 1) % d /\ k - 1 = d * q + t
                <5>1. PICK h \in Nat : h = k - 1
                    BY <2>1
                <5>2. PICK q \in Int, t \in 0..(d - 1) : q = h \div d /\ t = h % d /\ h = d * q + t
                    OBVIOUS
                <5> QED BY <5>1, <5>2
            <4>3. j - 1 \in 0..(d - 1) /\ d * n + (j - 1) = d * q + t /\ n \in Int
                BY <2>1, <4>1, <4>2
            <4>4. j - 1 = t
                BY <4>3, QuotientIsUnique
            <4>5. ((k - 1) % d) + 1 = j
                BY <4>2, <4>4
            <4> QED BY <2>7, <3>1, <4>1, <4>5
        <3> QED BY <3>2, <3>3
    <2>9. a = [k \in 1..(more + d) |-> a[k]] /\ b = [k \in 1..(more + d) |-> b[k]]
        BY <2>4, <2>7
    <2> QED BY <2>3, <2>8, <2>9
<1> QED BY <1>1, <1>3, <1>4, <1>5

(* A lap assigns nothing.                                                  *)
LEMMA LapOnlyAdds ==
    ASSUME IsGraph(graph), NEW cycle \in Seq(Edges(graph)), IsLap(cycle)
    PROVE  \A i \in 1..Len(CycleEffects(cycle)) : CycleEffects(cycle)[i].effect.op # "set"
<1> DEFINE Free(w) == w \in Seq(Writes) /\ \A i \in 1..Len(w) : w[i].effect.op # "set"
<1>1. PICK n \in Nat : n = Len(cycle)
    OBVIOUS
<1>2. PICK g \in [0..n -> Seq(Writes)] :
            /\ g[0] = <<>> /\ CycleEffects(cycle) = g[n]
            /\ \A i \in 1..n : g[i] = g[i - 1] \o WritesOver(cycle[i])
    BY <1>1, WrittenUnfolds
<1>3. ASSUME NEW f \in Writers, NEW x \in Effect, Adds(x) PROVE Free(Write(f, x))
    <2>1. Write(f, x) \in Seq(Writes)
        BY EdgeWrites
    <2>2. CASE x.op = "none"
        <3>1. Write(f, x) = <<>>
            BY <2>2 DEF Write
        <3> QED BY <3>1
    <2>3. CASE x.op # "none"
        <3>1. Write(f, x) = <<[fact |-> f, effect |-> x]>> /\ x.op # "set"
            BY <1>3, <2>3 DEF Write, Adds, NoEffect
        <3>2. Len(Write(f, x)) = 1 /\ Write(f, x)[1].effect.op # "set"
            BY <3>1
        <3> QED BY <2>1, <3>2
    <2> QED BY <2>2, <2>3
<1>4. ASSUME NEW v, NEW w, Free(v), Free(w) PROVE Free(v \o w)
    <2>1. PICK j, k : j = Len(v) /\ k = Len(w)
        OBVIOUS
    <2>2. j \in Nat /\ k \in Nat
        BY <1>4, <2>1
    <2>3. /\ v \o w \in Seq(Writes) /\ Len(v \o w) = j + k
          /\ \A i \in 1..j : (v \o w)[i] = v[i]
          /\ \A i \in 1..k : (v \o w)[j + i] = w[i]
        BY <1>4, <2>1, Joined
    <2>4. ASSUME NEW i \in 1..(j + k) PROVE (v \o w)[i].effect.op # "set"
        <3>1. CASE i \in 1..j
            BY <1>4, <2>1, <2>3, <3>1
        <3>2. CASE i \notin 1..j
            <4>1. i - j \in 1..k /\ j + (i - j) = i
                BY <2>2, <3>2
            <4>2. (v \o w)[i] = w[i - j]
                BY <2>3, <4>1
            <4> QED BY <1>4, <2>1, <4>1, <4>2
        <3> QED BY <3>1, <3>2
    <2> QED BY <2>3, <2>4
<1>5. ASSUME NEW i \in 1..n PROVE Free(WritesOver(cycle[i]))
    <2>1. PICK e \in Edges(graph) : e = cycle[i]
        BY <1>1
    <2>2. PICK m : m = graph.edges[e].dst
        OBVIOUS
    <2>3. e \in Writers /\ m \in Writers /\ graph.edges[e].effect \in Effect /\ graph.arrive[m] \in Effect
        BY <2>1, <2>2 DEF IsGraph, Writers
    <2>4. Adds(graph.edges[e].effect) /\ Adds(graph.arrive[m])
        BY <1>1, <2>1, <2>2 DEF IsLap
    <2>5. Free(Write(e, graph.edges[e].effect)) /\ Free(Write(m, graph.arrive[m]))
        BY <1>3, <2>3, <2>4
    <2> HIDE DEF Free
    <2> QED BY <1>4, <2>1, <2>2, <2>5 DEF WritesOver
<1>6. \A i \in 0..n : Free(g[i])
    <2>1. Free(g[0])
        BY <1>2
    <2> HIDE DEF Free
    <2> PICK T : T = {i \in 0..n : Free(g[i])}
        OBVIOUS
    <2>2. 0 \in T
        BY <2>1
    <2>3. \A i \in 1..n : i - 1 \in T => i \in T
        <3> SUFFICES ASSUME NEW i \in 1..n, i - 1 \in T PROVE i \in T
            OBVIOUS
        <3>1. Free(g[i - 1]) /\ Free(WritesOver(cycle[i]))
            BY <1>5
        <3>2. Free(g[i])
            BY <1>2, <1>4, <3>1
        <3> QED BY <3>2
    <2>4. \A i \in 0..n : i \in T
        BY <2>2, <2>3, Induction, Zenon
    <2> QED BY <2>4
<1>7. Free(g[n])
    <2>1. n \in 0..n
        OBVIOUS
    <2> HIDE DEF Free
    <2> QED BY <1>6, <2>1
<1> QED BY <1>2, <1>7

(* The writes of n laps after a path.                                      *)
LEMMA LapsTally ==
    ASSUME IsGraph(graph), NEW p \in Seq(Edges(graph)), NEW cycle \in Seq(Edges(graph)),
           Len(cycle) > 0, IsLap(cycle), NEW n \in Nat, NEW f
    PROVE  /\ WritesOn(p) \in Seq(Writes) /\ CycleEffects(cycle) \in Seq(Writes)
           /\ WritesOn(p \o LapRun(cycle, n)) \in Seq(Writes)
           /\ Tally(WritesOn(p \o LapRun(cycle, n)), f)
                = Tally(WritesOn(p), f)
                    + n * Times(CycleEffects(cycle), Len(CycleEffects(cycle)), f)
<1> DEFINE After(m) == WritesOn(p \o LapRun(cycle, m))
<1>1. PICK lap : lap = CycleEffects(cycle)
    OBVIOUS
<1>2. lap \in Seq(Writes) /\ \A i \in 1..Len(lap) : lap[i].effect.op # "set"
    BY <1>1, WritesJoin, LapOnlyAdds
<1>3. PICK start : start = Write(Root, graph.arrive[Root])
    OBVIOUS
<1>4. start \in Seq(Writes)
    <2>1. Root \in Writers /\ graph.arrive[Root] \in Effect
        BY GraphAssumption DEF Writers, IsGraph
    <2> QED BY <1>3, <2>1, EdgeWrites
<1>5. ASSUME NEW q \in Seq(Edges(graph))
      PROVE  /\ WritesOn(q) \in Seq(Writes)
             /\ WritesOn(q \o cycle) = WritesOn(q) \o lap
    <2>1. PICK w : w = CycleEffects(q)
        OBVIOUS
    <2>2. w \in Seq(Writes) /\ CycleEffects(q \o cycle) = w \o lap
        BY <1>1, <2>1, WritesJoin
    <2>3. WritesOn(q) = start \o w /\ WritesOn(q \o cycle) = start \o (w \o lap)
        BY <1>3, <2>1, <2>2 DEF WritesOn
    <2>4. start \o w \in Seq(Writes)
        BY <1>4, <2>2
    <2>5. (start \o w) \o lap = start \o (w \o lap)
        BY <1>2, <1>4, <2>2, Associative
    <2> QED BY <2>3, <2>4, <2>5
<1>6. After(0) = WritesOn(p)
    <2>1. LapRun(cycle, 0) = <<>>
        BY OneLapMore
    <2>2. p \o <<>> = p
        OBVIOUS
    <2> QED BY <2>1, <2>2
<1>7. ASSUME NEW m \in Nat
      PROVE  After(m) \in Seq(Writes) /\ After(m + 1) = After(m) \o lap
    <2>1. PICK r : r = LapRun(cycle, m)
        OBVIOUS
    <2>2. r \in Seq(Edges(graph)) /\ LapRun(cycle, m + 1) = r \o cycle
        BY <2>1, OneLapMore
    <2>3. p \o r \in Seq(Edges(graph)) /\ p \o (r \o cycle) = (p \o r) \o cycle
        BY <2>2
    <2> QED BY <1>5, <2>1, <2>2, <2>3
<1> HIDE DEF After
<1>8. PICK c \in Nat : c = Times(lap, Len(lap), f)
    <2>1. Len(lap) \in Nat
        BY <1>2
    <2> QED BY <2>1, TimesUnfolds
<1>9. PICK first : first = Tally(WritesOn(p), f)
    OBVIOUS
<1>10. first \in Nat
    <2>1. PICK x : x = [fact |-> InitFact, effect |-> NoEffect]
        OBVIOUS
    <2>2. x \in Writes
        BY <2>1 DEF Writes, Writers, Effect
    <2> QED BY <1>5, <1>9, <2>2, OneMore
<1>11. PICK T : T = {m \in 0..n : Tally(After(m), f) = first + m * c}
    OBVIOUS
<1>12. 0 \in T
    BY <1>6, <1>9, <1>10, <1>11
<1>13. ASSUME NEW m \in 1..n, m - 1 \in T PROVE m \in T
    <2>1. m - 1 \in Nat /\ (m - 1) + 1 = m /\ m \in 0..n
        OBVIOUS
    <2>2. Tally(After(m), f) = Tally(After(m - 1), f) + c
        <3>1. PICK v : v = After(m - 1)
            OBVIOUS
        <3>2. v \in Seq(Writes) /\ After(m) = v \o lap
            BY <1>7, <2>1, <3>1
        <3>3. Tally(v \o lap, f) = Tally(v, f) + Times(lap, Len(lap), f)
            BY <1>2, <3>2, MoreWrites
        <3> QED BY <1>8, <3>1, <3>2, <3>3
    <2>3. Tally(After(m - 1), f) = first + (m - 1) * c
        BY <1>11, <1>13
    <2>4. (m - 1) * c + c = m * c /\ (m - 1) * c \in Nat /\ m * c \in Nat
        BY <2>1
    <2>5. Tally(After(m), f) = first + m * c
        BY <1>10, <2>2, <2>3, <2>4
    <2> QED BY <1>11, <2>1, <2>5
<1>14. \A m \in 0..n : m \in T
    <2>1. \A m \in 1..n : m - 1 \in T => m \in T
        BY <1>13
    <2> QED BY <1>12, <2>1, Induction, Zenon
<1>15. n \in T
    <2>1. n \in 0..n
        OBVIOUS
    <2> QED BY <1>14, <2>1
<1>16. After(n) \in Seq(Writes)
    BY <1>7
<1> QED BY <1>1, <1>2, <1>5, <1>8, <1>9, <1>11, <1>15, <1>16 DEF After

(* What a value source counts is what these writes did.                    *)
Agrees(source, w) ==
    /\ source \in Sources /\ Listed(source) /\ w \in Seq(Writes)
    /\ \A f : f # InitFact => Counted(source, f) = Tally(w, f)

Known(s, w) == s.value # Unknown => Agrees(s.source, w)

(* A fresh source counts nothing, or one assignment.                       *)
LEMMA FreshAgrees ==
    ASSUME NEW fact \in Writers
    PROVE  /\ Agrees(NoSource, <<>>)
           /\ Agrees([NoSource EXCEPT !.entry = TRUE], <<>>)
           /\ Agrees(FreshSource(InitFact), <<>>)
           /\ \A w \in Seq(Writes), x \in Effect :
                 x.op = "set" => Agrees(FreshSource(fact), w \o Write(fact, x))
<1>1. <<>> \in Seq(Writes) /\ \A f : Tally(<<>>, f) = 0
    <2>1. \A f : {i \in Kept(<<>>) : <<>>[i].fact = f} = {}
        BY DEF Kept
    <2> QED BY <2>1, FS_EmptySet DEF Tally
<1>2. ASSUME NEW f0 \in Writers
      PROVE  /\ FreshSource(f0) \in Sources /\ Listed(FreshSource(f0))
             /\ \A f : Counted(FreshSource(f0), f) = IF f = f0 THEN 1 ELSE 0
    <2>1. PICK count : count = [f \in {f0} |-> 1]
        OBVIOUS
    <2>2. count \in [{f0} -> Nat] /\ DOMAIN count = {f0} /\ count[f0] = 1
        BY <2>1
    <2>3. count \in Counts
        BY <2>2 DEF Counts
    <2>4. PICK t : t = FreshSource(f0)
        OBVIOUS
    <2>5. t = [order |-> <<f0>>, count |-> count, last |-> f0, entry |-> FALSE]
        BY <2>1, <2>4 DEF FreshSource
    <2>6. t \in Sources
        BY <2>3, <2>5 DEF Sources
    <2>7. Listed(t)
        BY <2>2, <2>5 DEF Listed, ToSet
    <2>8. \A f : Counted(t, f) = IF f = f0 THEN 1 ELSE 0
        BY <2>2, <2>5 DEF Counted
    <2> QED BY <2>4, <2>6, <2>7, <2>8
<1>3. ASSUME NEW b \in BOOLEAN
      PROVE  Agrees([order |-> <<>>, count |-> <<>>, last |-> None, entry |-> b], <<>>)
    <2>1. PICK t : t = [order |-> <<>>, count |-> <<>>, last |-> None, entry |-> b]
        OBVIOUS
    <2>2. t.order = <<>> /\ t.count = <<>> /\ t.last = None /\ t.entry = b
        BY <2>1
    <2>3. DOMAIN <<>> = {} /\ <<>> \in [{} -> Nat]
        OBVIOUS
    <2>4. <<>> \in Counts
        <3>1. {} \in SUBSET Writers
            OBVIOUS
        <3> QED BY <2>3, <3>1 DEF Counts
    <2>5. t \in Sources
        BY <2>1, <2>4 DEF Sources
    <2>6. Listed(t)
        BY <2>2 DEF Listed, ToSet
    <2>7. \A f : Counted(t, f) = 0
        BY <2>2, <2>3 DEF Counted
    <2> QED BY <1>1, <2>1, <2>5, <2>6, <2>7 DEF Agrees
<1>4. Agrees(NoSource, <<>>) /\ Agrees([NoSource EXCEPT !.entry = TRUE], <<>>)
    <2>1. PICK c, no, yes : c = <<>> /\ no = FALSE /\ yes = TRUE
        OBVIOUS
    <2>2. \A b \in {no, yes} :
            Agrees([order |-> c, count |-> c, last |-> None, entry |-> b], <<>>)
        BY <1>3, <2>1, Zenon
    <2>3. PICK source : source = NoSource
        OBVIOUS
    <2>4. source = [order |-> c, count |-> c, last |-> None, entry |-> no]
        BY <2>1, <2>3, Zenon DEF NoSource
    <2>5. [source EXCEPT !.entry = yes]
                = [order |-> c, count |-> c, last |-> None, entry |-> yes]
        BY <2>4
    <2>6. [NoSource EXCEPT !.entry = TRUE] = [source EXCEPT !.entry = yes]
        BY <2>1, <2>3, Zenon
    <2> QED BY <2>2, <2>3, <2>4, <2>5, <2>6, Zenon
<1>5. Agrees(FreshSource(InitFact), <<>>)
    <2>1. InitFact \in Writers
        BY DEF Writers
    <2> QED BY <1>1, <1>2, <2>1 DEF Agrees
<1>6. ASSUME NEW w \in Seq(Writes), NEW x \in Effect, x.op = "set"
      PROVE  Agrees(FreshSource(fact), w \o Write(fact, x))
    <2>1. PICK y : y = [fact |-> fact, effect |-> x]
        OBVIOUS
    <2>2. y \in Writes /\ y.effect.op = "set" /\ y.fact = fact
        BY <1>6, <2>1 DEF Writes
    <2>3. Write(fact, x) = <<y>>
        BY <1>6, <2>1 DEF Write
    <2>4. w \o <<y>> = Append(w, y) /\ Append(w, y) \in Seq(Writes)
        BY <2>2
    <2>5. \A f : Tally(Append(w, y), f) = One(y, f)
        BY <2>2, OneMore
    <2> QED BY <1>2, <2>2, <2>3, <2>4, <2>5 DEF Agrees, One
<1> QED BY <1>4, <1>5, <1>6

(* An effect is counted, or the value is not known any more.               *)
LEMMA EffectCounts ==
    ASSUME NEW s, IsState(s), NEW w \in Seq(Writes), Known(s, w),
           NEW effect \in Effect, NEW fact \in Writers,
           NEW t, t = WithEffect(s, effect, fact)
    PROVE  Known(t, w \o Write(fact, effect))
<1>1. effect.op \in {"none", "set", "add", "other"}
    BY DEF Effect, NoEffect
<1>2. CASE effect.op = "none" \/ ~Relevant(graph)
    <2>1. t = s
        BY <1>2 DEF WithEffect
    <2>2. CASE effect.op = "none"
        <3>1. Write(fact, effect) = <<>>
            BY <2>2 DEF Write
        <3> QED BY <2>1, <3>1, Associative
    <2>3. CASE ~Relevant(graph)
        BY <2>1, <2>3 DEF IsState, Known
    <2> QED BY <1>2, <2>2, <2>3
<1>3. CASE effect.op = "set" /\ Relevant(graph)
    <2>1. PICK v, constraint : t = [s EXCEPT !.value = v, !.source = FreshSource(fact),
                                             !.constraint = constraint]
        BY <1>3 DEF WithEffect
    <2>2. t.source = FreshSource(fact)
        BY <2>1 DEF IsState, IsRecord
    <2> QED BY <1>3, <2>2, FreshAgrees DEF Known
<1>4. CASE effect.op = "add" /\ Relevant(graph) /\ s.value # Unknown
    <2>1. PICK source : source = Applied(s.source, fact, 1)
        OBVIOUS
    <2>2. PICK v, constraint : t = [s EXCEPT !.value = v, !.source = source,
                                             !.constraint = constraint]
        BY <1>4, <2>1 DEF WithEffect
    <2>3. t.source = source
        BY <2>2 DEF IsState, IsRecord
    <2>4. Agrees(s.source, w)
        BY <1>4 DEF Known
    <2>5. /\ source \in Sources /\ Listed(source)
          /\ \A f : Counted(source, f) = Counted(s.source, f) + (IF f = fact THEN 1 ELSE 0)
        BY <2>1, <2>4, AppliedCounts DEF Agrees
    <2>6. PICK y : y = [fact |-> fact, effect |-> effect]
        OBVIOUS
    <2>7. y \in Writes /\ y.effect.op # "set" /\ y.fact = fact
        BY <1>4, <2>6 DEF Writes
    <2>8. Write(fact, effect) = <<y>>
        BY <1>4, <2>6 DEF Write
    <2>9. w \o <<y>> = Append(w, y) /\ Append(w, y) \in Seq(Writes)
        BY <2>7
    <2>10. \A f : Tally(Append(w, y), f) = Tally(w, f) + One(y, f)
        BY <2>7, OneMore
    <2>11. \A f : f # InitFact => Counted(source, f) = Tally(Append(w, y), f)
        BY <2>4, <2>5, <2>7, <2>10 DEF Agrees, One
    <2> QED BY <2>3, <2>5, <2>8, <2>9, <2>11 DEF Known, Agrees
<1>5. CASE /\ (effect.op = "add" /\ s.value = Unknown) \/ effect.op = "other"
           /\ Relevant(graph)
    <2>1. PICK u : u = [s EXCEPT !.value = Unknown, !.source = NoSource,
                                 !.constraint = NoConstraint]
        OBVIOUS
    <2>2. t = u \/ t = [u EXCEPT !.warnings = Append(@, <<"effect", fact>>)]
        BY <1>5, <2>1 DEF WithEffect
    <2>3. u.value = Unknown
        BY <2>1 DEF IsState, IsRecord
    <2>4. t.value = Unknown
        BY <2>1, <2>2, <2>3 DEF IsState, IsRecord
    <2> QED BY <2>4 DEF Known
<1> QED BY <1>1, <1>2, <1>3, <1>4, <1>5

-----------------------------------------------------------------------------
(* Before a partial route arrives at its node, the write of the node is    *)
(* still to come ...                                                       *)
Expects(s) ==
    \E w \in Seq(Writes) : /\ WritesOn(PathEdges(s)) = w \o Write(s.node, graph.arrive[s.node])
                           /\ Known(s, w)

(* ... and is counted from then on.                                        *)
Recorded(s) == Known(s, WritesOn(PathEdges(s)))

(* Each requirement is of an edge of the path, and reports what the path   *)
(* performs up to there.                                                   *)
Real(requirements, path) ==
    \A r \in ToSet(requirements) :
        \E i \in DOMAIN path :
            /\ path[i] = r.gate
            /\ \A f \in ToSet(r.order) \ {InitFact} :
                    r.count[f] = Performed(SubSeq(path, 1, i - 1), f)

Told(s) == (\E T : s.requirements \in Seq(T)) /\ Real(s.requirements, PathEdges(s))

(* The edges of a path of steps.                                           *)
LEMMA EdgesOfPath ==
    ASSUME NEW s, s.path \in Seq(Steps)
    PROVE  /\ PathEdges(s) \in Seq(Edges(graph)) /\ Len(PathEdges(s)) = Len(s.path)
           /\ \A i \in 1..Len(s.path) : PathEdges(s)[i] = s.path[i].edge
<1>1. PICK n \in Nat : n = Len(s.path)
    OBVIOUS
<1>2. \A i \in 1..n : s.path[i].edge \in Edges(graph)
    <2>1. \A i \in 1..n : s.path[i] \in Steps
        BY <1>1
    <2> QED BY <2>1 DEF Steps
<1>3. PathEdges(s) = [i \in 1..n |-> s.path[i].edge]
    <2>1. DOMAIN s.path = 1..n
        BY <1>1
    <2> QED BY <2>1 DEF PathEdges
<1>4. PathEdges(s) \in [1..n -> Edges(graph)]
    BY <1>2, <1>3
<1> QED BY <1>1, <1>3, <1>4

(* What is told of a path is told of every longer one.                     *)
LEMMA RealLater ==
    ASSUME NEW S, NEW p \in Seq(S), NEW q \in Seq(S), NEW rs, Real(rs, p)
    PROVE  Real(rs, p \o q)
<1>1. PICK pq : pq = p \o q
    OBVIOUS
<1>2. PICK n \in Nat : n = Len(p)
    OBVIOUS
<1>3. pq \in Seq(S) /\ Len(pq) >= n /\ \A i \in 1..n : pq[i] = p[i]
    BY <1>1, <1>2, Joined
<1>4. ASSUME NEW i \in 1..n
      PROVE  i \in DOMAIN pq /\ SubSeq(pq, 1, i - 1) = SubSeq(p, 1, i - 1)
    <2>1. i \in 1..Len(pq)
        BY <1>3
    <2>2. \A j \in 1..(i - 1) : pq[j] = p[j]
        BY <1>3
    <2>3. /\ SubSeq(pq, 1, i - 1) = [j \in 1..(i - 1) |-> pq[j]]
          /\ SubSeq(p, 1, i - 1) = [j \in 1..(i - 1) |-> p[j]]
        BY <1>2, <1>3
    <2> QED BY <1>3, <2>1, <2>2, <2>3
<1>5. DOMAIN p = 1..n
    BY <1>2
<1>6. ASSUME NEW r \in ToSet(rs)
      PROVE  \E i \in DOMAIN pq :
                /\ pq[i] = r.gate
                /\ \A f \in ToSet(r.order) \ {InitFact} :
                        r.count[f] = Performed(SubSeq(pq, 1, i - 1), f)
    <2>1. PICK i \in 1..n :
                /\ p[i] = r.gate
                /\ \A f \in ToSet(r.order) \ {InitFact} :
                        r.count[f] = Performed(SubSeq(p, 1, i - 1), f)
        BY <1>5, Zenon DEF Real
    <2>2. pq[i] = r.gate /\ i \in DOMAIN pq /\ SubSeq(pq, 1, i - 1) = SubSeq(p, 1, i - 1)
        BY <1>3, <1>4, <2>1
    <2> QED BY <2>1, <2>2, Zenon
<1> QED BY <1>1, <1>6, Zenon DEF Real

(* What an edge attributes is of that edge, with the source of the value   *)
(* where the value is known.                                               *)
LEMMA AttributionsOf ==
    ASSUME IsGraph(graph), NEW s, NEW e \in Edges(graph)
    PROVE  /\ Attributions(s, e) \in Seq(ToSet(Attributions(s, e)))
           /\ \A r \in ToSet(Attributions(s, e)) :
                 /\ r.gate = e
                 /\ \/ r.order = <<>>
                    \/ s.value # Unknown /\ r.order = s.source.order /\ r.count = s.source.count
<1> DEFINE gate == graph.edges[e].gate
           origin == IF s.value = Unknown THEN "unknown"
                     ELSE IF s.source.entry THEN "entry"
                     ELSE IF s.source.last # None /\ s.source.count[s.source.last] > 1
                     THEN "repeated" ELSE "proven"
           of(i) == [gate |-> e, term |-> i, source |-> origin,
                     order |-> IF origin = "unknown" THEN <<>> ELSE s.source.order,
                     count |-> IF origin = "unknown" THEN <<>> ELSE s.source.count]
           Right(r) == /\ r.gate = e
                       /\ \/ r.order = <<>>
                          \/ /\ s.value # Unknown
                             /\ r.order = s.source.order /\ r.count = s.source.count
<1>1. \A i : Right(of(i))
    <2>1. origin = "unknown" \/ s.value # Unknown
        OBVIOUS
    <2> HIDE DEF origin
    <2>2. ASSUME NEW i PROVE Right(of(i))
        <3>1. PICK r : r = of(i)
            OBVIOUS
        <3>2. /\ r.gate = e
              /\ r.order = IF origin = "unknown" THEN <<>> ELSE s.source.order
              /\ r.count = IF origin = "unknown" THEN <<>> ELSE s.source.count
            BY <3>1
        <3> HIDE DEF of
        <3>3. CASE origin = "unknown"
            BY <3>1, <3>2, <3>3
        <3>4. CASE origin # "unknown"
            BY <2>1, <3>1, <3>2, <3>4
        <3> QED BY <3>3, <3>4
    <2> QED BY <2>2
<1>2. PICK all : all = Attributions(s, e)
    OBVIOUS
<1>3. /\ gate.shape = "none" => all = <<>>
      /\ gate.shape = "and" => all = [i \in DOMAIN gate.terms |-> of(i)]
      /\ gate.shape = "or" => \E i : all = <<of(i)>>
    <2> HIDE DEF gate, of, origin
    <2>1. gate.shape = "none" => all = <<>>
        BY <1>2 DEF Attributions, gate
    <2>2. gate.shape = "and" => all = [i \in DOMAIN gate.terms |-> of(i)]
        BY <1>2 DEF Attributions, gate, of, origin
    <2>3. gate.shape = "or" => \E i : all = <<of(i)>>
        BY <1>2 DEF Attributions, gate, of, origin
    <2> QED BY <2>1, <2>2, <2>3
<1>4. gate.shape \in {"none", "and", "or"} /\ gate.terms \in Seq(Term)
    <2>1. gate \in Gate
        BY DEF IsGraph
    <2> HIDE DEF gate
    <2>2. CASE gate = NoGate
        <3>1. gate.shape = "none" /\ gate.terms = <<>>
            BY <2>2 DEF NoGate
        <3> QED BY <3>1
    <2>3. CASE gate \in [shape : {"and", "or"}, terms : Seq(Term)]
        BY <2>3
    <2> QED BY <2>1, <2>2, <2>3 DEF Gate
<1> HIDE DEF of, Right, gate
<1>5. \E S : all \in Seq(S) /\ \A r \in S : Right(r)
    <2>1. CASE gate.shape = "none"
        <3>1. all \in Seq({})
            BY <1>3, <2>1
        <3> QED BY <3>1
    <2>2. CASE gate.shape = "and"
        <3>1. PICK n \in Nat : n = Len(gate.terms)
            BY <1>4
        <3>2. DOMAIN gate.terms = 1..n
            BY <1>4, <3>1
        <3>3. PICK S : S = {of(i) : i \in 1..n}
            OBVIOUS
        <3>4. all = [i \in 1..n |-> of(i)]
            BY <1>3, <2>2, <3>2
        <3>5. all \in [1..n -> S]
            BY <3>3, <3>4
        <3>6. \A r \in S : Right(r)
            BY <1>1, <3>3
        <3>7. all \in Seq(S)
            BY <3>1, <3>5
        <3> QED BY <3>6, <3>7
    <2>3. CASE gate.shape = "or"
        <3>1. PICK i : all = <<of(i)>>
            BY <1>3, <2>3
        <3>2. PICK r : r = of(i)
            OBVIOUS
        <3>3. all \in Seq({r})
            BY <3>1, <3>2
        <3> QED BY <1>1, <3>2, <3>3
    <2> QED BY <1>4, <2>1, <2>2, <2>3
<1>6. PICK S : all \in Seq(S) /\ \A r \in S : Right(r)
    BY <1>5
<1>7. all \in Seq(ToSet(all)) /\ \A r \in ToSet(all) : r \in S
    BY <1>6 DEF ToSet
<1>8. \A r \in ToSet(all) : Right(r)
    BY <1>6, <1>7
<1> QED BY <1>2, <1>7, <1>8 DEF Right

(* Unique leaves nothing but what was there.                               *)
LEMMA UniqueIsOf ==
    ASSUME NEW S, NEW s \in Seq(S)
    PROVE  Unique(s) \in Seq(S) /\ \A x \in ToSet(Unique(s)) : x \in ToSet(s)
<1>1. s \in Seq(ToSet(s))
    BY DEF ToSet
<1>2. Unique(s) \in Seq(ToSet(s)) /\ Unique(s) \in Seq(S)
    BY <1>1, UniqueKeepsOne
<1> QED BY <1>2 DEF ToSet

(* A node arrived at has its write counted.                                *)
LEMMA ArrivedCounts ==
    ASSUME IsGraph(graph), NEW s, IsState(s), Expects(s), Told(s)
    PROVE  Recorded(Arrived(s)) /\ Told(Arrived(s))
<1>1. PICK effect : effect = graph.arrive[s.node]
    OBVIOUS
<1>2. effect \in Effect /\ s.node \in Writers
    BY <1>1 DEF IsGraph, IsState, Writers
<1>3. PICK t : t = WithEffect(s, effect, s.node)
    OBVIOUS
<1>4. IsState(t) /\ t.path = s.path /\ t.requirements = s.requirements
    BY <1>2, <1>3, EffectIsTaken
<1>5. PICK w \in Seq(Writes) : WritesOn(PathEdges(s)) = w \o Write(s.node, effect) /\ Known(s, w)
    BY <1>1 DEF Expects
<1>6. Known(t, w \o Write(s.node, effect))
    BY <1>2, <1>3, <1>5, EffectCounts
<1>7. PICK u, warnings : u = Arrived(s) /\ warnings = Unique(t.warnings)
    OBVIOUS
<1>8. u = [t EXCEPT !.warnings = warnings]
    BY <1>1, <1>3, <1>7 DEF Arrived
<1>9. /\ u.path = s.path /\ u.value = t.value /\ u.source = t.source
      /\ u.requirements = s.requirements
    BY <1>4, <1>8 DEF IsState, IsRecord
<1>10. PathEdges(u) = PathEdges(s)
    BY <1>9 DEF PathEdges
<1> QED BY <1>5, <1>6, <1>7, <1>9, <1>10 DEF Recorded, Known, Told

(* An edge taken: its write is counted, that of its end still to come; its *)
(* gate reports what was performed before it.                              *)
LEMMA PassedCounts ==
    ASSUME IsGraph(graph), NEW s, IsState(s), Recorded(s), Told(s), NEW e \in From(graph, s.node)
    PROVE  Expects(Passed(s, e)) /\ Told(Passed(s, e))
<1>1. PICK u : u = Passed(s, e)
    OBVIOUS
<1>2. PICK step : step = [edge |-> e, group |-> None]
    OBVIOUS
<1>3. PICK n : n = graph.edges[e].dst
    OBVIOUS
<1>4. /\ e \in Edges(graph) /\ n \in Nodes /\ e \in Writers /\ n \in Writers
      /\ graph.edges[e].effect \in Effect /\ graph.arrive[n] \in Effect
    BY <1>3 DEF From, IsGraph, Writers
<1>5. /\ IsState(u) /\ u.node = n /\ u.value = Taken(s, e).value /\ u.source = Taken(s, e).source
      /\ u.path = Append(s.path, step)
      /\ u.requirements = Unique(s.requirements \o Attributions(s, e))
      /\ IsState(Gated(s, e)) /\ Gated(s, e).value = s.value /\ Gated(s, e).source = s.source
    BY <1>1, <1>2, <1>3, PassedParts
<1>6. PICK p : p = PathEdges(s)
    OBVIOUS
<1>7. p \in Seq(Edges(graph)) /\ Len(p) = Len(s.path)
      /\ \A i \in 1..Len(s.path) : p[i] = s.path[i].edge
    BY <1>6, EdgesOfPath DEF IsState
<1>8. PathEdges(u) = p \o <<e>>
    <2>1. PICK m \in Nat : m = Len(s.path)
        BY DEF IsState
    <2>2. PICK a, b : a = PathEdges(u) /\ b = p \o <<e>>
        OBVIOUS
    <2>3. u.path \in Seq(Steps) /\ s.path \in Seq(Steps) /\ step \in Steps
        BY <1>2, <1>4, <1>5 DEF IsState, Steps
    <2>4. /\ Len(u.path) = m + 1 /\ u.path[m + 1] = step
          /\ \A i \in 1..m : u.path[i] = s.path[i]
        BY <1>5, <2>1, <2>3
    <2>5. a \in Seq(Edges(graph)) /\ Len(a) = m + 1
          /\ \A i \in 1..(m + 1) : a[i] = u.path[i].edge
        BY <2>2, <2>3, <2>4, EdgesOfPath
    <2>6. b \in Seq(Edges(graph)) /\ Len(b) = m + 1 /\ b[m + 1] = e
          /\ \A i \in 1..m : b[i] = p[i]
        BY <1>4, <1>7, <2>1, <2>2
    <2>7. \A i \in 1..(m + 1) : a[i] = b[i]
        <3> TAKE i \in 1..(m + 1)
        <3>1. CASE i \in 1..m
            BY <1>7, <2>1, <2>4, <2>5, <2>6, <3>1
        <3>2. CASE i = m + 1
            BY <1>2, <2>4, <2>5, <2>6, <3>2
        <3> QED BY <3>1, <3>2
    <2>8. a = [i \in 1..(m + 1) |-> a[i]] /\ b = [i \in 1..(m + 1) |-> b[i]]
        BY <2>5, <2>6
    <2> QED BY <2>2, <2>7, <2>8
<1>9. PICK before : before = WritesOn(p)
    OBVIOUS
<1>10. PICK here, there : here = Write(e, graph.edges[e].effect)
                          /\ there = Write(n, graph.arrive[n])
    OBVIOUS
<1>11. here \in Seq(Writes) /\ there \in Seq(Writes)
    BY <1>4, <1>10, EdgeWrites
<1>12. before \in Seq(Writes) /\ WritesOn(PathEdges(u)) = (before \o here) \o there
    <2>1. PICK start, w : start = Write(Root, graph.arrive[Root]) /\ w = CycleEffects(p)
        OBVIOUS
    <2>2. start \in Seq(Writes)
        <3>1. Root \in Writers /\ graph.arrive[Root] \in Effect
            BY GraphAssumption DEF Writers, IsGraph
        <3> QED BY <2>1, <3>1, EdgeWrites
    <2>3. <<e>> \in Seq(Edges(graph))
        BY <1>4
    <2>4. w \in Seq(Writes) /\ CycleEffects(p \o <<e>>) = w \o (here \o there)
        <3>1. CycleEffects(<<e>>) = here \o there
            BY <1>3, <1>4, <1>10, NoWrites DEF WritesOver
        <3> QED BY <1>7, <2>1, <2>3, <3>1, WritesJoin
    <2>5. before = start \o w /\ WritesOn(PathEdges(u)) = start \o (w \o (here \o there))
        BY <1>8, <1>9, <2>1, <2>4 DEF WritesOn
    <2>6. before \in Seq(Writes) /\ here \o there \in Seq(Writes)
        BY <1>11, <2>2, <2>4, <2>5
    <2>7. start \o (w \o (here \o there)) = (start \o w) \o (here \o there)
        BY <2>2, <2>4, <2>6, Associative
    <2>8. before \o (here \o there) = (before \o here) \o there
        BY <1>11, <2>6, Associative
    <2> QED BY <2>5, <2>6, <2>7, <2>8
<1>13. Expects(u)
    <2>1. Known(Gated(s, e), before)
        BY <1>5, <1>6, <1>9 DEF Recorded, Known
    <2>2. Known(Taken(s, e), before \o here)
        BY <1>4, <1>5, <1>10, <1>12, <2>1, EffectCounts DEF Taken
    <2>3. Known(u, before \o here)
        BY <1>5, <2>2 DEF Known
    <2>4. before \o here \in Seq(Writes)
        BY <1>11, <1>12
    <2> QED BY <1>5, <1>10, <1>12, <2>3, <2>4 DEF Expects
<1>14. Told(u)
    <2>1. PICK T : s.requirements \in Seq(T)
        BY DEF Told
    <2>2. PICK new : new = Attributions(s, e)
        OBVIOUS
    <2>3. /\ new \in Seq(ToSet(new))
          /\ \A r \in ToSet(new) :
                /\ r.gate = e
                /\ \/ r.order = <<>>
                   \/ s.value # Unknown /\ r.order = s.source.order /\ r.count = s.source.count
        BY <1>4, <2>2, AttributionsOf
    <2>4. PICK S : S = T \cup ToSet(new)
        OBVIOUS
    <2>5. s.requirements \in Seq(S) /\ new \in Seq(S)
        BY <2>1, <2>3, <2>4
    <2>6. PICK all : all = s.requirements \o new
        OBVIOUS
    <2>7. all \in Seq(S) /\ \A r \in ToSet(all) : r \in ToSet(s.requirements) \/ r \in ToSet(new)
        <3>1. PICK j, k : j = Len(s.requirements) /\ k = Len(new)
            OBVIOUS
        <3>2. /\ j \in Nat /\ k \in Nat /\ all \in Seq(S) /\ Len(all) = j + k
              /\ \A i \in 1..j : all[i] = s.requirements[i]
              /\ \A i \in 1..k : all[j + i] = new[i]
            BY <2>5, <2>6, <3>1, Joined
        <3>3. ASSUME NEW i \in 1..(j + k)
              PROVE  all[i] \in ToSet(s.requirements) \/ all[i] \in ToSet(new)
            <4>1. CASE i \in 1..j
                BY <2>5, <3>1, <3>2, <4>1 DEF ToSet
            <4>2. CASE i \notin 1..j
                <5>1. i - j \in 1..k /\ j + (i - j) = i
                    BY <3>2, <4>2
                <5>2. all[i] = new[i - j]
                    BY <3>2, <5>1
                <5> QED BY <2>5, <3>1, <5>1, <5>2 DEF ToSet
            <4> QED BY <4>1, <4>2
        <3> QED BY <3>2, <3>3 DEF ToSet
    <2>8. /\ u.requirements \in Seq(S)
          /\ \A r \in ToSet(u.requirements) : r \in ToSet(s.requirements) \/ r \in ToSet(new)
        BY <1>5, <2>2, <2>6, <2>7, UniqueIsOf
    <2>9. PICK path : path = p \o <<e>>
        OBVIOUS
    <2>10. /\ path \in Seq(Edges(graph)) /\ Len(path) = Len(p) + 1 /\ path[Len(p) + 1] = e
           /\ \A i \in 1..Len(p) : path[i] = p[i]
        BY <1>4, <1>7, <2>9
    <2>11. SubSeq(path, 1, Len(p)) = p
        <3>1. PICK m \in Nat : m = Len(p)
            BY <1>7
        <3>2. SubSeq(path, 1, m) = [i \in 1..m |-> path[i]]
            BY <2>10, <3>1
        <3>3. p = [i \in 1..m |-> p[i]]
            BY <1>7, <3>1
        <3> QED BY <2>10, <3>1, <3>2, <3>3
    <2>12. Real(s.requirements, path)
        <3>1. <<e>> \in Seq(Edges(graph))
            BY <1>4
        <3> QED BY <1>6, <1>7, <2>9, <3>1, RealLater DEF Told
    <2>13. ASSUME NEW r \in ToSet(new)
           PROVE  \E i \in DOMAIN path :
                     /\ path[i] = r.gate
                     /\ \A f \in ToSet(r.order) \ {InitFact} :
                            r.count[f] = Performed(SubSeq(path, 1, i - 1), f)
        <3>1. PICK i : i = Len(p) + 1
            OBVIOUS
        <3>2. i \in DOMAIN path /\ path[i] = r.gate /\ i - 1 = Len(p)
            BY <1>7, <2>3, <2>10, <3>1
        <3>3. ASSUME NEW f \in ToSet(r.order) \ {InitFact}
              PROVE  r.count[f] = Performed(p, f)
            <4>1. /\ s.value # Unknown
                  /\ r.order = s.source.order /\ r.count = s.source.count
                <5>1. r.order # <<>>
                    BY <3>3 DEF ToSet
                <5> QED BY <2>3, <5>1
            <4>2. Agrees(s.source, before)
                BY <1>6, <1>9, <4>1 DEF Recorded, Known
            <4>3. Counted(s.source, f) = Tally(before, f) /\ f \in DOMAIN s.source.count
                BY <3>3, <4>1, <4>2 DEF Agrees, Listed
            <4>4. Performed(p, f) = Tally(before, f)
                BY <1>9 DEF Performed, Tally, Kept
            <4> QED BY <4>1, <4>3, <4>4 DEF Counted
        <3> QED BY <2>11, <3>2, <3>3
    <2>14. Real(u.requirements, path)
        BY <2>8, <2>12, <2>13, Zenon DEF Real
    <2> QED BY <1>8, <2>8, <2>9, <2>14 DEF Told
<1> QED BY <1>1, <1>13, <1>14

(* A jump counts what its laps write; its node has nothing to add.         *)
LEMMA AcceleratedCounts ==
    ASSUME IsGraph(graph), QuietEntry(graph), NEW s, IsState(s), Recorded(s), Told(s),
           NEW a, LapsFrom(s, a)
    PROVE  Expects(Accelerated(s, a)) /\ Told(Accelerated(s, a))
<1>1. PICK u : u = Accelerated(s, a)
    OBVIOUS
<1>2. PICK cycle, reps : cycle = a.cycle /\ reps = a.repetitions
    OBVIOUS
<1>3. /\ s.node \in graph.loops /\ s.value \in Int
      /\ IsLoop(graph, s.node, cycle) /\ IsLap(cycle) /\ reps \in Nat \ {0}
    BY <1>2 DEF LapsFrom
<1>4. PICK lap, source, value, longer :
        /\ lap = CycleEffects(cycle) /\ source = AllApplied(s.source, lap, reps)
        /\ value = s.value + Delta(cycle) * reps /\ longer = s.path \o Laps(cycle, reps)
    OBVIOUS
<1>5. PICK constraint, loops, id :
        u = [s EXCEPT !.value = value, !.source = source, !.constraint = constraint,
                      !.path = longer, !.loops = loops, !.suppressed = a.suppressed, !.id = id]
    <2>1. PICK constraint, loops, id :
            /\ constraint = ExactConstraint(value, ToSet(source.order))
            /\ loops = s.loops + a.repetitions - 1
            /\ id = prefixes + Len(a.cycle) * a.repetitions - 1
        OBVIOUS
    <2>2. u = [s EXCEPT !.value = value, !.source = source, !.constraint = constraint,
                        !.path = longer, !.loops = loops, !.suppressed = a.suppressed, !.id = id]
        BY <1>1, <1>2, <1>4, <2>1, Zenon DEF Accelerated
    <2> QED BY <2>2
<1>6. /\ u.node = s.node /\ u.path = longer /\ u.source = source
      /\ u.requirements = s.requirements
    BY <1>5 DEF IsState, IsRecord
<1>7. PICK p : p = PathEdges(s)
    OBVIOUS
<1>8. PICK n \in Nat : n = Len(s.path)
    BY DEF IsState
<1>9. /\ p \in Seq(Edges(graph)) /\ Len(p) = n
      /\ \A i \in 1..n : p[i] = s.path[i].edge
    BY <1>7, <1>8, EdgesOfPath DEF IsState
<1>10. PICK d \in Nat \ {0} : d = Len(cycle)
    BY <1>3 DEF IsLoop
<1>11. cycle \in Seq(Edges(graph)) /\ Len(cycle) > 0
    BY <1>3, <1>10 DEF IsLoop
<1>12. PICK more \in Nat \ {0} : more = reps * d
    BY <1>3
<1>13. PICK run : run = LapRun(cycle, reps)
    OBVIOUS
<1>14. run \in Seq(Edges(graph)) /\ Len(run) = more
       /\ \A k \in 1..more : run[k] = cycle[((k - 1) % d) + 1]
    <2>1. run \in Seq(Edges(graph)) /\ Len(run) = reps * d
        BY <1>3, <1>10, <1>11, <1>13, OneLapMore
    <2>2. run = [k \in 1..more |-> cycle[((k - 1) % d) + 1]]
        BY <1>10, <1>12, <1>13 DEF LapRun
    <2> QED BY <1>12, <2>1, <2>2
<1>15. PathEdges(u) = p \o run
    <2>1. /\ Laps(cycle, reps) \in Seq(Steps) /\ Len(Laps(cycle, reps)) = more
          /\ \A k \in 0..(more - 1) : Laps(cycle, reps)[k + 1].edge = LapEdge(cycle, k)
        BY <1>3, <1>10, <1>12, LapsAreSteps
    <2>2. PICK x, y : x = PathEdges(u) /\ y = p \o run
        OBVIOUS
    <2>3. s.path \in Seq(Steps)
        BY DEF IsState
    <2>4. PICK laps \in Seq(Steps) : laps = Laps(cycle, reps)
        BY <2>1
    <2>5. /\ longer \in Seq(Steps) /\ Len(longer) = n + more
          /\ \A i \in 1..n : longer[i] = s.path[i]
          /\ \A i \in 1..more : longer[n + i] = laps[i]
        <3>1. /\ s.path \o laps \in Seq(Steps)
              /\ Len(s.path \o laps) = Len(s.path) + Len(laps)
              /\ \A i \in 1..Len(s.path) : (s.path \o laps)[i] = s.path[i]
              /\ \A i \in 1..Len(laps) : (s.path \o laps)[Len(s.path) + i] = laps[i]
            BY <2>3, Joined
        <3> QED BY <1>4, <1>8, <2>1, <2>4, <3>1
    <2>6. /\ x \in Seq(Edges(graph)) /\ Len(x) = n + more
          /\ \A i \in 1..(n + more) : x[i] = longer[i].edge
        <3>1. u.path \in Seq(Steps)
            BY <1>6, <2>5
        <3> QED BY <1>6, <2>2, <2>5, <3>1, EdgesOfPath
    <2>7. /\ y \in Seq(Edges(graph)) /\ Len(y) = n + more
          /\ \A i \in 1..n : y[i] = p[i]
          /\ \A i \in 1..more : y[n + i] = run[i]
        <3>1. PICK S : S = Edges(graph)
            OBVIOUS
        <3>2. p \in Seq(S) /\ run \in Seq(S)
            BY <1>9, <1>14, <3>1
        <3>3. /\ y \in Seq(S) /\ Len(y) = Len(p) + Len(run)
              /\ \A i \in 1..Len(p) : y[i] = p[i]
              /\ \A i \in 1..Len(run) : y[Len(p) + i] = run[i]
            BY <2>2, <3>2, Joined
        <3> QED BY <1>9, <1>14, <3>1, <3>3
    <2>8. ASSUME NEW i \in 1..(n + more) PROVE x[i] = y[i]
        <3>1. CASE i \in 1..n
            <4>1. x[i] = longer[i].edge
                BY <2>6
            <4>2. longer[i] = s.path[i]
                BY <2>5, <3>1
            <4>3. y[i] = p[i]
                BY <2>7, <3>1
            <4>4. p[i] = s.path[i].edge
                BY <1>9, <3>1
            <4> QED BY <4>1, <4>2, <4>3, <4>4, Zenon
        <3>2. CASE i \notin 1..n
            <4>1. PICK k \in 1..more : i = n + k
                <5>1. i - n \in 1..more /\ i = n + (i - n)
                    BY <3>2
                <5> QED BY <5>1
            <4>2. k - 1 \in 0..(more - 1) /\ (k - 1) + 1 = k
                BY <1>12
            <4>3. laps[k].edge = LapEdge(cycle, k - 1)
                BY <2>1, <2>4, <4>2
            <4>4. LapEdge(cycle, k - 1) = run[k]
                BY <1>10, <1>14 DEF LapEdge
            <4> QED BY <2>5, <2>6, <2>7, <4>1, <4>3, <4>4
        <3> QED BY <3>1, <3>2
    <2>9. x = [i \in 1..(n + more) |-> x[i]] /\ y = [i \in 1..(n + more) |-> y[i]]
        BY <2>6, <2>7
    <2> QED BY <2>2, <2>8, <2>9
<1>16. PICK before, after : before = WritesOn(p) /\ after = WritesOn(PathEdges(u))
    OBVIOUS
<1>17. /\ before \in Seq(Writes) /\ after \in Seq(Writes) /\ lap \in Seq(Writes)
       /\ \A f : Tally(after, f) = Tally(before, f) + reps * Times(lap, Len(lap), f)
    BY <1>3, <1>4, <1>9, <1>11, <1>13, <1>15, <1>16, LapsTally
<1>18. Agrees(source, after)
    <2>1. s.value # Unknown
        BY <1>3, UnknownAssumption
    <2>2. Agrees(s.source, before)
        BY <1>7, <1>16, <2>1 DEF Recorded, Known
    <2>3. /\ source \in Sources /\ Listed(source)
          /\ \A f : Counted(source, f) = Counted(s.source, f) + reps * Times(lap, Len(lap), f)
        BY <1>3, <1>4, <1>17, <2>2, AllAppliedCount DEF Agrees
    <2> QED BY <1>17, <2>2, <2>3 DEF Agrees
<1>19. Expects(u)
    <2>1. Write(u.node, graph.arrive[u.node]) = <<>>
        BY <1>3, <1>6 DEF QuietEntry, Write, NoEffect
    <2>2. after = after \o <<>>
        BY <1>17, Associative
    <2>3. Known(u, after)
        BY <1>6, <1>18 DEF Known
    <2> QED BY <1>16, <1>17, <2>1, <2>2, <2>3 DEF Expects
<1>20. Told(u)
    <2>1. Real(s.requirements, p \o run)
        BY <1>7, <1>9, <1>14, RealLater DEF Told
    <2> QED BY <1>6, <1>15, <2>1 DEF Told
<1> QED BY <1>1, <1>19, <1>20

(* The empty route has written nothing yet.                                *)
LEMMA StartCounts ==
    ASSUME IsGraph(graph)
    PROVE  Expects(StartState(graph)) /\ Told(StartState(graph))
<1>1. PICK s : s = StartState(graph)
    OBVIOUS
<1>2. /\ s.node = Root /\ s.path = <<>> /\ s.requirements = <<>>
      /\ s.value # Unknown => s.source \in {FreshSource(InitFact), NoSource,
                                            [NoSource EXCEPT !.entry = TRUE]}
    BY <1>1 DEF StartState
<1>3. PathEdges(s) = <<>>
    BY <1>2 DEF PathEdges
<1>4. PICK start : start = Write(Root, graph.arrive[Root])
    OBVIOUS
<1>5. start \in Seq(Writes)
    <2>1. Root \in Writers /\ graph.arrive[Root] \in Effect
        BY GraphAssumption DEF Writers, IsGraph
    <2> QED BY <1>4, <2>1, EdgeWrites
<1>6. WritesOn(PathEdges(s)) = <<>> \o start
    <2>1. WritesOn(<<>>) = start \o <<>>
        BY <1>4, NoWrites DEF WritesOn
    <2> QED BY <1>3, <1>5, <2>1, Associative
<1>7. Known(s, <<>>)
    <2>1. InitFact \in Writers
        BY DEF Writers
    <2> QED BY <1>2, <2>1, FreshAgrees DEF Known
<1>8. Expects(s)
    <2>1. <<>> \in Seq(Writes)
        OBVIOUS
    <2> QED BY <1>2, <1>4, <1>6, <1>7, <2>1 DEF Expects
<1>9. Told(s)
    <2>1. s.requirements \in Seq({}) /\ ToSet(<<>>) = {}
        BY <1>2 DEF ToSet
    <2> QED BY <1>2, <2>1 DEF Told, Real
<1> QED BY <1>1, <1>8, <1>9

-----------------------------------------------------------------------------
(* The search keeps it so.                                                 *)
AllReal(all) == \A c \in all : Real(c.requirements, c.path)

FrontierIsCounted == \A s \in frontier : Expects(s) /\ Told(s)
CurrentIsCounted == options # {} => Recorded(current) /\ Told(current)

CountInv ==
    RouteInv /\ FrontierIsCounted /\ CurrentIsCounted /\ AllReal(candidates) /\ RepetitionsAreReal

(* A candidate keeps the requirements of its partial route.                *)
LEMMA CandidateIsReal ==
    ASSUME NEW all, AllReal(all), NEW s, Told(s)
    PROVE  AllReal(WithCandidate(all, s))
<1>1. PICK new : new = Candidate(s)
    OBVIOUS
<1>2. new.requirements = s.requirements /\ new.path = PathEdges(s)
    BY <1>1 DEF Candidate
<1>3. \A c \in WithCandidate(all, s) : c \in all \/ c = new
    BY <1>1 DEF WithCandidate
<1>4. \A c \in WithCandidate(all, s) : Real(c.requirements, c.path)
    BY <1>2, <1>3, Zenon DEF AllReal, Told
<1> QED BY <1>4, Zenon DEF AllReal

(* A graph stays the same, and with it what its paths write.               *)
LEMMA SameWrites ==
    ASSUME graph' = graph
    PROVE  /\ \A s : Expects(s) => Expects(s)'
           /\ \A s : Recorded(s) => Recorded(s)'
           /\ \A s : Told(s) => Told(s)'
           /\ \A all : AllReal(all) => AllReal(all)'
<1>1. \A path : WritesOn(path)' = WritesOn(path)
    BY DEF WritesOn, CycleEffects, WritesOver
<1>2. Writers' = Writers
    BY DEF Writers
<1>3. Writes' = Writes /\ Sources' = Sources
    BY <1>2 DEF Writes, Sources, Counts
<1>4. \A source, w : Agrees(source, w) => Agrees(source, w)'
    BY <1>3 DEF Agrees
<1>5. \A s, w : Known(s, w) => Known(s, w)'
    BY <1>4 DEF Known
<1>6. \A rs, path : Real(rs, path) => Real(rs, path)'
    <2>1. \A path, f : Performed(path, f)' = Performed(path, f)
        BY <1>1 DEF Performed
    <2>2. ASSUME NEW rs, NEW path, Real(rs, path)
          PROVE  \A r \in ToSet(rs) :
                    \E i \in DOMAIN path :
                        /\ path[i] = r.gate
                        /\ \A f \in ToSet(r.order) \ {InitFact} :
                                r.count[f] = Performed(SubSeq(path, 1, i - 1), f)'
        BY <2>1, <2>2, Zenon DEF Real
    <2> QED BY <2>2, Zenon DEF Real
<1>7. \A s : Expects(s) => Expects(s)'
    BY <1>1, <1>3, <1>5 DEF Expects
<1>8. \A s : Recorded(s) => Recorded(s)'
    BY <1>1, <1>5 DEF Recorded
<1>9. \A s : Told(s) => Told(s)'
    BY <1>6 DEF Told
<1>10. \A all : AllReal(all) => AllReal(all)'
    BY <1>6 DEF AllReal
<1> QED BY <1>7, <1>8, <1>9, <1>10

(* The first partial route has nothing to report.                          *)
LEMMA InitialCounts == Init => CountInv
<1> SUFFICES ASSUME Init PROVE CountInv
    OBVIOUS
<1>1. RouteInv
    BY InitialRoute
<1>2. IsGraph(graph)
    BY <1>1, AskedGraph DEF RouteInv
<1>3. FrontierIsCounted
    BY <1>2, StartCounts DEF Init, FrontierIsCounted
<1>4. CurrentIsCounted /\ AllReal(candidates) /\ RepetitionsAreReal
    BY DEF Init, CurrentIsCounted, AllReal, RepetitionsAreReal, Answered
<1> QED BY <1>1, <1>3, <1>4 DEF CountInv

(* What is counted stays counted, in the same graph.                       *)
LEMMA CountsStay ==
    ASSUME CountInv, RouteInv', graph' = graph, current' = current,
           options' \subseteq options, phase' # "done",
           \A s \in frontier' : s \in frontier \/ (Expects(s) /\ Told(s)),
           AllReal(candidates')
    PROVE  CountInv'
<1>1. FrontierIsCounted'
    <2>1. \A s \in frontier' : Expects(s) /\ Told(s)
        BY DEF CountInv, FrontierIsCounted
    <2> QED BY <2>1, SameWrites, Zenon DEF FrontierIsCounted
<1>2. CurrentIsCounted'
    <2> SUFFICES ASSUME options' # {} PROVE Recorded(current)' /\ Told(current)'
        BY DEF CurrentIsCounted
    <2>1. PICK s : s = current
        OBVIOUS
    <2>2. Recorded(s) /\ Told(s)
        BY <2>1 DEF CountInv, CurrentIsCounted
    <2>3. Recorded(s)' /\ Told(s)'
        BY <2>2, SameWrites, Zenon
    <2> QED BY <2>1, <2>3, Zenon
<1>3. AllReal(candidates)'
    <2>1. PICK all : all = candidates'
        OBVIOUS
    <2>2. AllReal(all)'
        BY <2>1, SameWrites, Zenon
    <2> QED BY <2>1, <2>2 DEF AllReal
<1>4. RepetitionsAreReal'
    BY DEF RepetitionsAreReal, Answered
<1> QED BY <1>1, <1>2, <1>3, <1>4 DEF CountInv

(* A dominated partial route is dropped.                                   *)
LEMMA DiscardCounts ==
    ASSUME CountInv, NEW best \in frontier, Discard(best)
    PROVE  CountInv'
<1>1. /\ graph' = graph /\ options' = options /\ current' = current
      /\ candidates' = candidates /\ frontier' \subseteq frontier /\ phase' = "search"
    BY DEF Discard, request
<1>2. RouteInv'
    BY DiscardKeeps DEF CountInv
<1> QED BY <1>1, <1>2, CountsStay DEF CountInv

(* A node arrived at has its write counted, and may be the target.         *)
LEMMA ExpandCounts ==
    ASSUME CountInv, NEW best \in frontier, Expand(best)
    PROVE  CountInv'
<1>1. PICK s : s = Arrived(best)
    OBVIOUS
<1>2. RouteInv'
    BY ExpandKeeps DEF CountInv
<1>3. IsGraph(graph) /\ IsState(best) /\ Expects(best) /\ Told(best)
    BY AskedGraph DEF CountInv, RouteInv, FrontierIsSound, Sound, FrontierIsCounted
<1>4. Recorded(s) /\ Told(s)
    BY <1>1, <1>3, ArrivedCounts
<1>5. /\ graph' = graph /\ current' = s /\ frontier' \subseteq frontier
      /\ candidates' \in {candidates, WithCandidate(candidates, s)} /\ phase' # "done"
    BY <1>1 DEF Expand, request
<1>6. FrontierIsCounted'
    <2>1. \A x \in frontier' : Expects(x) /\ Told(x)
        BY <1>5 DEF CountInv, FrontierIsCounted
    <2> QED BY <1>5, <2>1, SameWrites, Zenon DEF FrontierIsCounted
<1>7. CurrentIsCounted'
    <2>1. Recorded(s)' /\ Told(s)'
        BY <1>4, <1>5, SameWrites, Zenon
    <2> QED BY <1>5, <2>1, Zenon DEF CurrentIsCounted
<1>8. AllReal(candidates)'
    <2>1. PICK all : all = candidates'
        OBVIOUS
    <2>2. AllReal(all)
        BY <1>4, <1>5, <2>1, CandidateIsReal DEF CountInv
    <2>3. AllReal(all)'
        BY <1>5, <2>2, SameWrites, Zenon
    <2> QED BY <2>1, <2>3 DEF AllReal
<1>9. RepetitionsAreReal'
    BY <1>5 DEF RepetitionsAreReal, Answered
<1> QED BY <1>2, <1>6, <1>7, <1>8, <1>9 DEF CountInv

(* A way that is cut is only forgotten.                                    *)
LEMMA BlockedCounts ==
    ASSUME CountInv, NEW way \in options, NEW bounded, NEW contradicts,
           Blocked(way, bounded, contradicts)
    PROVE  CountInv'
<1>1. /\ graph' = graph /\ current' = current /\ options' \subseteq options
      /\ phase' # "done" /\ frontier' = frontier /\ candidates' = candidates
    BY DEF Blocked, Done, request
<1>2. RouteInv'
    BY BlockedKeeps DEF CountInv
<1> QED BY <1>1, <1>2, CountsStay DEF CountInv

(* A new partial route that counts is a candidate or joins the frontier.   *)
LEMMA AdvanceCounts ==
    ASSUME CountInv, RouteInv', NEW way \in options, NEW s, Expects(s), Told(s), NEW records,
           Advance(way, s, records)
    PROVE  CountInv'
<1>1. /\ graph' = graph /\ current' = current /\ options' \subseteq options
      /\ phase' # "done"
      /\ frontier' \subseteq frontier \cup {s}
      /\ candidates' \in {candidates, WithCandidate(candidates, s)}
    BY DEF Advance, Done, request
<1>2. AllReal(candidates')
    BY <1>1, CandidateIsReal DEF CountInv
<1> QED BY <1>1, <1>2, CountsStay

(* A single edge is taken.                                                 *)
LEMMA TakeEdgeCounts ==
    ASSUME CountInv, NEW way \in options, TakeEdge(way)
    PROVE  CountInv'
<1>1. RouteInv'
    BY TakeEdgeKeeps DEF CountInv
<1>2. PICK s : s = current /\ IsState(s) /\ May(s, way)
    BY DEF CountInv, RouteInv, WaysAreOpen
<1>3. PICK e : e = way.edge
    OBVIOUS
<1>4. e \in From(graph, s.node)
    BY <1>2, <1>3 DEF TakeEdge, May
<1>5. CASE \E bounded, contradicts : Blocked(way, bounded, contradicts)
    BY <1>5, BlockedCounts
<1>6. CASE Advance(way, Passed(s, e), 1)
    <2>1. PICK u : u = Passed(s, e)
        OBVIOUS
    <2>2. IsGraph(graph)
        BY AskedGraph DEF CountInv, RouteInv
    <2>3. Recorded(s) /\ Told(s)
        BY <1>2 DEF CountInv, CurrentIsCounted
    <2>4. Expects(u) /\ Told(u)
        BY <1>2, <1>4, <2>1, <2>2, <2>3, PassedCounts
    <2>5. Advance(way, u, 1)
        BY <1>6, <2>1, Zenon
    <2> QED BY <1>1, <2>4, <2>5, AdvanceCounts
<1> QED BY <1>2, <1>3, <1>5, <1>6, Zenon DEF TakeEdge

(* A loop is jumped through, from a node that writes nothing itself.       *)
LEMMA RepeatLoopCounts ==
    ASSUME QuietEntry(graph), CountInv, NEW way \in options, RepeatLoop(way)
    PROVE  CountInv'
<1>1. RouteInv'
    BY RepeatLoopKeeps DEF CountInv
<1>2. PICK s : s = current /\ IsState(s) /\ May(s, way)
    BY DEF CountInv, RouteInv, WaysAreOpen
<1>3. PICK a \in way.jump :
        \/ \E bounded, contradicts : Blocked(way, bounded, contradicts)
        \/ \E needed : Advance(way, Accelerated(s, a), needed)
    BY <1>2, Zenon DEF RepeatLoop
<1>4. CASE \E bounded, contradicts : Blocked(way, bounded, contradicts)
    BY <1>4, BlockedCounts
<1>5. CASE \E needed : Advance(way, Accelerated(s, a), needed)
    <2>1. PICK u, needed : u = Accelerated(s, a) /\ Advance(way, Accelerated(s, a), needed)
        BY <1>5
    <2>2. IsGraph(graph)
        BY AskedGraph DEF CountInv, RouteInv
    <2>3. LapsFrom(s, a)
        BY <1>2 DEF May
    <2>4. Recorded(s) /\ Told(s)
        BY <1>2 DEF CountInv, CurrentIsCounted
    <2>5. Expects(u) /\ Told(u)
        BY <1>2, <2>1, <2>2, <2>3, <2>4, AcceleratedCounts
    <2>6. Advance(way, u, needed)
        BY <2>1, Zenon
    <2> QED BY <1>1, <2>5, <2>6, AdvanceCounts
<1> QED BY <1>3, <1>4, <1>5

(* What is recommended is a candidate.                                     *)
LEMMA FinishCounts ==
    ASSUME CountInv, Finish
    PROVE  CountInv'
<1>1. RouteInv'
    BY FinishKeeps DEF CountInv
<1>2. /\ graph' = graph /\ options' = options /\ current' = current
      /\ candidates' = candidates /\ frontier' = frontier
    BY DEF Finish, request
<1>3. /\ FrontierIsCounted' /\ CurrentIsCounted' /\ AllReal(candidates)'
    <2>1. PICK s, f, all : s = current /\ f = frontier /\ all = candidates
        OBVIOUS
    <2>2. \A x \in f : Expects(x)' /\ Told(x)'
        BY <1>2, <2>1, SameWrites, Zenon DEF CountInv, FrontierIsCounted
    <2>3. options # {} => Recorded(s)' /\ Told(s)'
        BY <1>2, <2>1, SameWrites, Zenon DEF CountInv, CurrentIsCounted
    <2>4. AllReal(all)'
        BY <1>2, <2>1, SameWrites, Zenon DEF CountInv
    <2>5. FrontierIsCounted'
        BY <1>2, <2>1, <2>2, Zenon DEF FrontierIsCounted
    <2>6. CurrentIsCounted'
        BY <1>2, <2>1, <2>3, Zenon DEF CurrentIsCounted
    <2>7. AllReal(candidates)'
        BY <1>2, <2>1, <2>4 DEF AllReal
    <2> QED BY <2>5, <2>6, <2>7
<1>4. \A c \in result'.recommended : c \in candidates
    BY DEF Finish, StatusOfNone, Recommendable
<1>5. RepetitionsAreReal'
    <2>1. \A c \in result'.recommended : Real(c.requirements, c.path)'
        BY <1>2, <1>3, <1>4, Zenon DEF AllReal
    <2> QED BY <2>1, Zenon DEF RepetitionsAreReal, Real
<1> QED BY <1>1, <1>3, <1>5 DEF CountInv

(* A cancelled search reports nothing.                                     *)
LEMMA NothingElseCounts ==
    ASSUME CountInv, Cancel \/ UNCHANGED vars
    PROVE  CountInv'
<1>1. RouteInv'
    BY NothingElseKeeps DEF CountInv
<1>2. /\ graph' = graph /\ options' = options /\ current' = current
      /\ candidates' = candidates /\ frontier' = frontier
      /\ phase' = "cancelled" \/ (phase' = phase /\ result' = result)
    BY DEF Cancel, vars, request
<1>3. CASE phase' # "done"
    BY <1>1, <1>2, <1>3, CountsStay DEF CountInv
<1>4. CASE UNCHANGED vars
    <2>1. UNCHANGED <<graph, options, current, candidates, frontier, phase, result>>
        BY <1>4 DEF vars, request
    <2>2. PICK s, f, all : s = current /\ f = frontier /\ all = candidates
        OBVIOUS
    <2>3. \A x \in f : Expects(x)' /\ Told(x)'
        BY <2>1, <2>2, SameWrites, Zenon DEF CountInv, FrontierIsCounted
    <2>4. options # {} => Recorded(s)' /\ Told(s)'
        BY <2>1, <2>2, SameWrites, Zenon DEF CountInv, CurrentIsCounted
    <2>5. AllReal(all)'
        BY <2>1, <2>2, SameWrites, Zenon DEF CountInv
    <2>6. FrontierIsCounted' /\ CurrentIsCounted'
        BY <2>1, <2>2, <2>3, <2>4, Zenon DEF FrontierIsCounted, CurrentIsCounted
    <2>7. AllReal(candidates)'
        BY <2>1, <2>2, <2>5 DEF AllReal
    <2>8. RepetitionsAreReal'
        <3>1. phase = "done" => \A c \in result.recommended : Real(c.requirements, c.path)
            BY Zenon DEF CountInv, RepetitionsAreReal, Real, Answered
        <3>2. AllReal(IF phase = "done" THEN result.recommended ELSE {})
            BY <3>1 DEF AllReal
        <3>3. PICK told : told = IF phase = "done" THEN result.recommended ELSE {}
            OBVIOUS
        <3>4. AllReal(told)'
            BY <2>1, <3>2, <3>3, SameWrites, Zenon
        <3>5. phase' = "done" => \A c \in result'.recommended : Real(c.requirements, c.path)'
            BY <2>1, <3>3, <3>4 DEF AllReal
        <3> QED BY <3>5, Zenon DEF RepetitionsAreReal, Real, Answered
    <2> QED BY <1>1, <2>6, <2>7, <2>8 DEF CountInv
<1> QED BY <1>2, <1>3, <1>4 DEF Cancel

(* The report of a recommended route is true: what a gate is said to have  *)
(* been met by is what the route performs up to there, fact by fact and    *)
(* repetition by repetition, whatever the story, the request and its       *)
(* limits; the loops that may be jumped through are entered at nodes that  *)
(* change nothing themselves, for the jump counts the write of an entry it *)
(* passes once too often (MCRouteRepeats).                                 *)
THEOREM ReportedRepetitionsAreReal ==
    Spec => [](QuietEntry(graph) => RepetitionsAreReal)
<1> DEFINE Inv == QuietEntry(graph) => CountInv
<1>1. Init => Inv
    BY InitialCounts
<1>2. Inv /\ [Next]_vars => Inv'
    <2> SUFFICES ASSUME Inv, [Next]_vars, QuietEntry(graph') PROVE CountInv'
        OBVIOUS
    <2>1. graph' = graph
        BY DEF Next, Discard, Expand, TakeEdge, RepeatLoop, Blocked, Advance, Finish, Cancel,
               vars, request
    <2>2. CountInv /\ QuietEntry(graph)
        BY <2>1
    <2>3. CASE \E s \in frontier : Discard(s) \/ Expand(s)
        BY <2>2, <2>3, DiscardCounts, ExpandCounts
    <2>4. CASE \E way \in options : TakeEdge(way) \/ RepeatLoop(way)
        BY <2>2, <2>4, TakeEdgeCounts, RepeatLoopCounts
    <2>5. CASE Finish
        BY <2>2, <2>5, FinishCounts
    <2>6. CASE Cancel \/ UNCHANGED vars
        BY <2>2, <2>6, NothingElseCounts
    <2> QED BY <2>3, <2>4, <2>5, <2>6 DEF Next
<1>3. Inv => (QuietEntry(graph) => RepetitionsAreReal)
    BY DEF CountInv
<1> QED BY <1>1, <1>2, <1>3, PTL DEF Spec

-----------------------------------------------------------------------------
(* The negative answers. A search that refuses, prunes and stops must not  *)
(* deny a destination that some play of the story reaches.                 *)

(* The nodes one edge further back.                                        *)
Back(g, edges, X) == X \cup {g.edges[e].src : e \in {x \in edges : g.edges[x].dst \in X}}

Nearer(g, edges, f) ==
    f = [i \in 0..Cardinality(Nodes) |->
            IF i = 0 THEN {Target}
            ELSE LET near == f[i - 1]
                 IN  near \cup {g.edges[e].src : e \in {x \in edges : g.edges[x].dst \in near}}]

(* Going back keeps the nodes one has and adds the sources of their edges. *)
LEMMA BackIsWider ==
    ASSUME NEW g, IsGraph(g), NEW edges \in SUBSET Edges(g), NEW X \in SUBSET Nodes
    PROVE  /\ Back(g, edges, X) \in SUBSET Nodes /\ X \subseteq Back(g, edges, X)
           /\ \A e \in edges : g.edges[e].dst \in X => g.edges[e].src \in Back(g, edges, X)
BY DEF Back, IsGraph

(* A larger set of nodes has more of them.                                 *)
LEMMA Outgrown ==
    ASSUME NEW X \in SUBSET Nodes, NEW Y \in SUBSET X, Y # X
    PROVE  Cardinality(X) >= Cardinality(Y) + 1 /\ Cardinality(X) \in Nat /\ Cardinality(Y) \in Nat
<1>1. IsFiniteSet(X) /\ IsFiniteSet(Y)
    BY GraphAssumption, FS_Subset
<1>2. Cardinality(X) \in Nat /\ Cardinality(Y) \in Nat
    BY <1>1, FS_CardinalityType
<1>3. Cardinality(Y) <= Cardinality(X) /\ Cardinality(X) # Cardinality(Y)
    BY <1>1, FS_Subset
<1> QED BY <1>2, <1>3

(* _reverse_nodes: the nodes from which the target can be reached are all  *)
(* found in as many rounds as there are nodes, so that no edge leads into  *)
(* them from outside.                                                      *)
LEMMA ConeIsClosed ==
    ASSUME NEW g, IsGraph(g), NEW edges \in SUBSET Edges(g)
    PROVE  /\ ReverseNodes(g, edges) \in SUBSET Nodes /\ Target \in ReverseNodes(g, edges)
           /\ \A e \in edges : g.edges[e].dst \in ReverseNodes(g, edges)
                                => g.edges[e].src \in ReverseNodes(g, edges)
<1>0. PICK n \in Nat : n = Cardinality(Nodes)
    BY GraphAssumption, FS_CardinalityType
<1>1. PICK step : step = [q \in (SUBSET Nodes) \X (1..n) |-> Back(g, edges, q[1])]
    OBVIOUS
<1>2. step \in [(SUBSET Nodes) \X (1..n) -> SUBSET Nodes]
    <2>1. \A X \in SUBSET Nodes : Back(g, edges, X) \in SUBSET Nodes
        BY BackIsWider
    <2> QED BY <1>1, <2>1
<1>3. {Target} \in SUBSET Nodes
    BY GraphAssumption
<1>4. PICK f \in [0..n -> SUBSET Nodes] : Unfolds(f, n, {Target}, step)
    BY <1>2, <1>3, Recursion
<1>5. \A i \in 1..n : i - 1 \in 0..n /\ f[i] = Back(g, edges, f[i - 1])
    <2> TAKE i \in 1..n
    <2>1. PICK q : q = <<f[i - 1], i>>
        OBVIOUS
    <2>2. i - 1 \in 0..n
        OBVIOUS
    <2>3. q \in (SUBSET Nodes) \X (1..n) /\ q[1] = f[i - 1]
        BY <1>4, <2>1, <2>2
    <2>4. f[i] = step[q]
        BY <1>4, <2>1 DEF Unfolds
    <2> QED BY <1>1, <2>2, <2>3, <2>4
<1>6. Nearer(g, edges, f)
    <2>1. f = [i \in 0..n |-> f[i]]
        BY <1>4
    <2>2. \A i \in 0..n : i = 0 \/ i \in 1..n
        OBVIOUS
    <2>3. \A i \in 1..n : i # 0
        OBVIOUS
    <2>4. \A i \in 0..n : f[i] =
            IF i = 0 THEN {Target}
            ELSE LET near == f[i - 1]
                 IN  near \cup {g.edges[e].src : e \in {x \in edges : g.edges[x].dst \in near}}
        BY <1>4, <1>5, <2>2, <2>3, Zenon DEF Unfolds, Back
    <2> QED BY <1>0, <2>1, <2>4, Zenon DEF Nearer
<1> DEFINE within == CHOOSE h : Nearer(g, edges, h)
<1>7. ReverseNodes(g, edges) = within[n]
    BY <1>0 DEF ReverseNodes, Nearer
<1>8. Nearer(g, edges, within)
    BY <1>6
<1> HIDE DEF within
<1>9. within[0] = {Target}
    <2>1. 0 \in 0..Cardinality(Nodes)
        BY <1>0
    <2> QED BY <1>8, <2>1, Zenon DEF Nearer
<1>10. \A i \in 1..n : within[i] = Back(g, edges, within[i - 1])
    <2> TAKE i \in 1..n
    <2>1. i \in 0..Cardinality(Nodes) /\ i # 0
        BY <1>0
    <2> QED BY <1>8, <2>1, Zenon DEF Nearer, Back
<1> DEFINE Settled(X) == Back(g, edges, X) = X
<1>11. PICK T : T = {i \in 0..n : /\ within[i] \in SUBSET Nodes
                                  /\ Target \in within[i]
                                  /\ Settled(within[i]) \/ Cardinality(within[i]) >= i + 1}
    OBVIOUS
<1>12. 0 \in T
    <2>1. Cardinality({Target}) >= 0 + 1
        <3>1. Cardinality({Target}) = 1
            BY FS_Singleton
        <3> QED BY <3>1
    <2>2. within[0] \in SUBSET Nodes /\ Target \in within[0]
        BY <1>3, <1>9
    <2>3. Cardinality(within[0]) >= 0 + 1 /\ 0 \in 0..n
        BY <1>9, <2>1
    <2> QED BY <1>11, <2>2, <2>3, Zenon
<1>13. ASSUME NEW i \in 1..n, i - 1 \in T PROVE i \in T
    <2>1. PICK X, Y : X = within[i] /\ Y = within[i - 1]
        OBVIOUS
    <2>2. /\ Y \in SUBSET Nodes /\ Target \in Y
          /\ Settled(Y) \/ Cardinality(Y) >= (i - 1) + 1
        BY <1>11, <1>13, <2>1
    <2>3. X = Back(g, edges, Y)
        BY <1>10, <2>1
    <2>4. X \in SUBSET Nodes /\ Y \in SUBSET X
        BY <2>2, <2>3, BackIsWider
    <2>5. CASE X = Y
        <3>1. Settled(X)
            BY <2>3, <2>5
        <3> HIDE DEF Settled
        <3>2. i \in 0..n
            OBVIOUS
        <3> QED BY <1>11, <2>1, <2>2, <2>5, <3>1, <3>2, Zenon
    <2>6. CASE X # Y
        <3>1. ~Settled(Y)
            BY <2>3, <2>6
        <3>2. Cardinality(X) >= Cardinality(Y) + 1 /\ Cardinality(X) \in Nat /\ Cardinality(Y) \in Nat
            BY <2>4, <2>6, Outgrown
        <3>3. Cardinality(X) >= i + 1
            BY <2>2, <3>1, <3>2
        <3> QED BY <1>11, <2>1, <2>2, <2>4, <3>3
    <2> QED BY <2>5, <2>6
<1>14. \A i \in 1..n : i - 1 \in T => i \in T
    BY <1>13
<1>15. \A i \in 0..n : i \in T
    BY <1>12, <1>14, Induction, Zenon
<1>16. PICK R : R = within[n]
    OBVIOUS
<1>17. R \in SUBSET Nodes /\ Target \in R /\ (Settled(R) \/ Cardinality(R) >= n + 1)
    <2>1. n \in T
        BY <1>15
    <2> QED BY <1>11, <1>16, <2>1
<1>18. Cardinality(R) <= n /\ Cardinality(R) \in Nat
    <2>1. IsFiniteSet(R) /\ Cardinality(R) <= Cardinality(Nodes)
        BY <1>17, GraphAssumption, FS_Subset
    <2> QED BY <1>0, <2>1, FS_CardinalityType
<1>19. Settled(R)
    BY <1>17, <1>18
<1>20. \A e \in edges : g.edges[e].dst \in R => g.edges[e].src \in R
    BY <1>17, <1>19, BackIsWider
<1> QED BY <1>7, <1>16, <1>17, <1>20

-----------------------------------------------------------------------------
(* A set of pairs of a node and a value, arrival included, that the story  *)
(* begins in and that no edge leads out of, for all integers.              *)
Encloses(g, C) ==
    /\ C \in SUBSET (Nodes \X Int)
    /\ \A w \in Effects(g.arrive[Root], StartValues(g)) : <<Root, w>> \in C
    /\ \A e \in Edges(g), w \in Int : <<g.edges[e].src, w>> \in C =>
            \A y \in Over(g, e, {w}) : <<g.edges[e].dst, y>> \in C

(* No play of the story arrives at the target: there is an enclosure of    *)
(* the plays without it.                                                   *)
Unreached(g) == \E C : Encloses(g, C) /\ \A p \in C : p[1] # Target

(* What an effect makes of a set it makes of its members.                  *)
LEMMA EffectsPointwise ==
    ASSUME NEW effect \in Effect, NEW vs \in SUBSET Int
    PROVE  /\ Effects(effect, vs) \in SUBSET Int
           /\ vs # {} => \A y \in Effects(effect, vs) : \E v \in vs : y \in Effects(effect, {v})
           /\ vs # {} => Effects(effect, vs) # {}
           /\ \A v \in vs : Effects(effect, {v}) \subseteq Effects(effect, vs)
<1>1. effect.op \in {"none", "set", "add", "other"} /\ effect.value \in Int
    BY DEF Effect, NoEffect
<1>2. CASE effect.op = "none"
    BY <1>2 DEF Effects
<1>3. CASE effect.op = "set"
    BY <1>1, <1>3 DEF Effects
<1>4. CASE effect.op = "add"
    <2>1. PICK c \in Int : c = effect.value
        BY <1>1
    <2>2. \A us : Effects(effect, us) = {v + c : v \in us}
        BY <1>4, <2>1 DEF Effects
    <2>3. \A v \in vs : v + c \in Int /\ v + c \in Effects(effect, {v})
        BY <2>2
    <2>4. \A y \in Effects(effect, vs) : \E v \in vs : y = v + c
        BY <2>2
    <2>5. \A v \in vs : \A y \in Effects(effect, {v}) : y = v + c
        BY <2>2
    <2>6. \A v \in vs : v + c \in Effects(effect, vs)
        BY <2>2
    <2> QED BY <2>3, <2>4, <2>5, <2>6
<1>5. CASE effect.op = "other"
    <2>1. \A us : Effects(effect, us) = -Horizon..Horizon
        BY <1>5 DEF Effects, Values
    <2>2. -Horizon..Horizon \in SUBSET Int /\ 0 \in -Horizon..Horizon
        BY GraphAssumption
    <2> QED BY <2>1, <2>2
<1> QED BY <1>1, <1>2, <1>3, <1>4, <1>5

(* And so does an edge.                                                    *)
LEMMA OverPointwise ==
    ASSUME NEW g, IsGraph(g), NEW e \in Edges(g), NEW vs \in SUBSET Int
    PROVE  /\ Over(g, e, vs) \in SUBSET Int
           /\ \A y \in Over(g, e, vs) : \E v \in vs : y \in Over(g, e, {v})
<1>1. PICK effect, arrival \in Effect :
        effect = g.edges[e].effect /\ arrival = g.arrive[g.edges[e].dst]
    BY DEF IsGraph
<1>2. PICK open : open = {v \in vs : GateHolds(g.edges[e].gate, v)}
    OBVIOUS
<1>3. open \in SUBSET Int
    BY <1>2
<1>4. Over(g, e, vs) = IF open = {} THEN {} ELSE Effects(arrival, Effects(effect, open))
    BY <1>1, <1>2, Zenon DEF Over
<1>5. Over(g, e, vs) \in SUBSET Int
    BY <1>3, <1>4, EffectsPointwise
<1>6. ASSUME NEW y \in Over(g, e, vs) PROVE \E v \in vs : y \in Over(g, e, {v})
    <2>1. open # {} /\ y \in Effects(arrival, Effects(effect, open))
        BY <1>4, <1>6
    <2>2. PICK xs \in SUBSET Int : xs = Effects(effect, open)
        BY <1>3, EffectsPointwise
    <2>3. xs # {}
        BY <1>3, <2>1, <2>2, EffectsPointwise
    <2>4. PICK x \in xs : y \in Effects(arrival, {x})
        BY <2>1, <2>2, <2>3, EffectsPointwise
    <2>5. PICK v \in open : x \in Effects(effect, {v})
        BY <1>3, <2>1, <2>2, <2>4, EffectsPointwise
    <2>6. {u \in {v} : GateHolds(g.edges[e].gate, u)} = {v}
        BY <1>2
    <2>7. Over(g, e, {v}) = Effects(arrival, Effects(effect, {v}))
        BY <1>1, <2>6 DEF Over
    <2>8. PICK us \in SUBSET Int : us = Effects(effect, {v})
        BY <1>3, EffectsPointwise
    <2>9. y \in Effects(arrival, us)
        BY <2>4, <2>5, <2>8, EffectsPointwise
    <2> QED BY <1>2, <2>7, <2>8, <2>9
<1> QED BY <1>5, <1>6

(* The same with values cut off at the horizon, as Reachable has them.     *)
CutEncloses(g, C) ==
    /\ C \in SUBSET (Nodes \X Int)
    /\ \A w \in Effects(g.arrive[Root], StartValues(g)) : <<Root, Cut(w)>> \in C
    /\ \A e \in Edges(g), w \in Int : <<g.edges[e].src, w>> \in C =>
            \A y \in Over(g, e, {w}) : <<g.edges[e].dst, Cut(y)>> \in C

Onward(g, X) ==
    X \cup UNION {{g.edges[e].dst} \X
                    CutAll(Over(g, e, {p[2] : p \in {q \in X : q[1] = g.edges[e].src}})) :
                    e \in Edges(g)}

Further(g, f) ==
    f = [i \in 0..Cardinality(Nodes) * (2 * Horizon + 1) |->
            IF i = 0 THEN {Root} \X CutAll(Effects(g.arrive[Root], StartValues(g)))
            ELSE LET before == f[i - 1]
                 IN  before \cup UNION {
                        {g.edges[e].dst} \X
                            CutAll(Over(g, e, {p[2] : p \in {q \in before :
                                                                q[1] = g.edges[e].src}})) :
                        e \in Edges(g)}]

(* One round of Reachable stays in an enclosure.                           *)
LEMMA OnwardWithin ==
    ASSUME NEW g, IsGraph(g), NEW C, CutEncloses(g, C), NEW X \in SUBSET C
    PROVE  Onward(g, X) \in SUBSET C
<1> SUFFICES ASSUME NEW e \in Edges(g),
                    NEW z \in {g.edges[e].dst} \X
                        CutAll(Over(g, e, {p[2] : p \in {q \in X : q[1] = g.edges[e].src}}))
             PROVE  z \in C
    BY Zenon DEF Onward
<1>1. PICK vs : vs = {p[2] : p \in {q \in X : q[1] = g.edges[e].src}}
    OBVIOUS
<1>2. \A v \in vs : v \in Int /\ <<g.edges[e].src, v>> \in C
    <2> SUFFICES ASSUME NEW v \in vs PROVE v \in Int /\ <<g.edges[e].src, v>> \in C
        OBVIOUS
    <2>1. PICK p \in X : p[1] = g.edges[e].src /\ v = p[2]
        BY <1>1
    <2>2. p \in C /\ p \in Nodes \X Int
        BY <2>1 DEF CutEncloses
    <2> QED BY <2>1, <2>2
<1>3. PICK ys : ys = Over(g, e, vs)
    OBVIOUS
<1>4. z \in {g.edges[e].dst} \X CutAll(ys)
    BY <1>1, <1>3
<1>5. PICK y \in ys : z = <<g.edges[e].dst, Cut(y)>>
    BY <1>4 DEF CutAll
<1>6. PICK v \in vs : y \in Over(g, e, {v})
    <2>1. vs \in SUBSET Int
        BY <1>2
    <2> QED BY <1>3, <2>1, OverPointwise
<1> QED BY <1>2, <1>5, <1>6 DEF CutEncloses

(* What can be reached is in every enclosure.                              *)
LEMMA ReachableWithin ==
    ASSUME NEW g, IsGraph(g), NEW C, CutEncloses(g, C)
    PROVE  Reachable(g) \subseteq C
<1>0. PICK n \in Nat : n = Cardinality(Nodes) * (2 * Horizon + 1)
    <2>1. PICK m \in Nat : m = Cardinality(Nodes)
        BY GraphAssumption, FS_CardinalityType
    <2>2. PICK h \in Nat : h = 2 * Horizon + 1
        BY GraphAssumption
    <2>3. m * h \in Nat
        OBVIOUS
    <2> QED BY <2>1, <2>2, <2>3
<1>1. PICK start : start = {Root} \X CutAll(Effects(g.arrive[Root], StartValues(g)))
    OBVIOUS
<1>2. start \in SUBSET C
    <2>1. \A z \in start : \E w \in Effects(g.arrive[Root], StartValues(g)) : z = <<Root, Cut(w)>>
        BY <1>1 DEF CutAll
    <2> QED BY <2>1 DEF CutEncloses
<1>3. PICK step : step = [q \in (SUBSET C) \X (1..n) |-> Onward(g, q[1])]
    OBVIOUS
<1>4. step \in [(SUBSET C) \X (1..n) -> SUBSET C]
    <2>1. \A X \in SUBSET C : Onward(g, X) \in SUBSET C
        BY OnwardWithin
    <2> QED BY <1>3, <2>1
<1>5. PICK f \in [0..n -> SUBSET C] : Unfolds(f, n, start, step)
    BY <1>2, <1>4, Recursion
<1>6. \A i \in 1..n : f[i] = Onward(g, f[i - 1])
    <2> TAKE i \in 1..n
    <2>1. PICK q : q = <<f[i - 1], i>>
        OBVIOUS
    <2>2. i - 1 \in 0..n
        OBVIOUS
    <2>3. q \in (SUBSET C) \X (1..n) /\ q[1] = f[i - 1]
        BY <1>5, <2>1, <2>2
    <2>4. f[i] = step[q]
        BY <1>5, <2>1 DEF Unfolds
    <2> QED BY <1>3, <2>3, <2>4
<1>7. Further(g, f)
    <2>1. f = [i \in 0..n |-> f[i]]
        BY <1>5
    <2>2. \A i \in 0..n : i = 0 \/ i \in 1..n
        OBVIOUS
    <2>3. \A i \in 1..n : i # 0
        OBVIOUS
    <2>4. \A i \in 0..n : f[i] =
            IF i = 0 THEN {Root} \X CutAll(Effects(g.arrive[Root], StartValues(g)))
            ELSE LET before == f[i - 1]
                 IN  before \cup UNION {
                        {g.edges[e].dst} \X
                            CutAll(Over(g, e, {p[2] : p \in {q \in before :
                                                                q[1] = g.edges[e].src}})) :
                        e \in Edges(g)}
        BY <1>1, <1>5, <1>6, <2>2, <2>3, Zenon DEF Unfolds, Onward
    <2> QED BY <1>0, <2>1, <2>4, Zenon DEF Further
<1> DEFINE after == CHOOSE h : Further(g, h)
<1>8. Reachable(g) = after[n]
    BY <1>0, Zenon DEF Reachable, Further
<1>9. Further(g, after)
    BY <1>7
<1> HIDE DEF after
<1>10. after[0] = start
    <2>1. 0 \in 0..Cardinality(Nodes) * (2 * Horizon + 1)
        BY <1>0
    <2> QED BY <1>1, <1>9, <2>1, Zenon DEF Further
<1>11. \A i \in 1..n : after[i] = Onward(g, after[i - 1])
    <2> TAKE i \in 1..n
    <2>1. i \in 0..Cardinality(Nodes) * (2 * Horizon + 1) /\ i # 0
        BY <1>0
    <2> QED BY <1>9, <2>1, Zenon DEF Further, Onward
<1>12. PICK T : T = {i \in 0..n : after[i] \in SUBSET C}
    OBVIOUS
<1>13. 0 \in T
    BY <1>2, <1>10, <1>12
<1>14. \A i \in 1..n : i - 1 \in T => i \in T
    <2> SUFFICES ASSUME NEW i \in 1..n, i - 1 \in T PROVE i \in T
        OBVIOUS
    <2>1. PICK X : X = after[i - 1]
        OBVIOUS
    <2>2. X \in SUBSET C
        BY <1>12, <2>1
    <2>3. after[i] \in SUBSET C
        BY <1>11, <2>1, <2>2, OnwardWithin
    <2> QED BY <1>12, <2>3
<1>15. \A i \in 0..n : i \in T
    BY <1>13, <1>14, Induction, Zenon
<1>16. n \in T
    BY <1>15
<1> QED BY <1>8, <1>12, <1>16

(* A target whose cone does not hold the root is not reached.              *)
LEMMA OutOfCone ==
    ASSUME NEW g, IsGraph(g), NEW R \in SUBSET Nodes, Target \in R, Root \notin R,
           \A e \in Edges(g) : g.edges[e].dst \in R => g.edges[e].src \in R
    PROVE  Unreached(g) /\ ~RouteExists(g)
<1>1. PICK C : C = (Nodes \ R) \X Int
    OBVIOUS
<1>2. Effects(g.arrive[Root], StartValues(g)) \in SUBSET Int
    <2>1. g.arrive[Root] \in Effect /\ StartValues(g) \in SUBSET Int
        BY GraphAssumption DEF IsGraph, StartValues, Values
    <2> QED BY <2>1, EffectsPointwise
<1>3. \A e \in Edges(g), w \in Int : Over(g, e, {w}) \in SUBSET Int
    <2>1. \A w \in Int : {w} \in SUBSET Int
        OBVIOUS
    <2> QED BY <2>1, OverPointwise
<1>4. \A w \in Int : Cut(w) \in Int
    BY GraphAssumption DEF Cut
<1>5. Root \in Nodes /\ \A e \in Edges(g) : g.edges[e].dst \in Nodes
    BY GraphAssumption DEF IsGraph
<1>6. C \in SUBSET (Nodes \X Int) /\ \A p \in C : p[1] # Target
    BY <1>1
<1>7. \A n, w : <<n, w>> \in C <=> n \in Nodes /\ n \notin R /\ w \in Int
    BY <1>1
<1>8. Encloses(g, C)
    BY <1>2, <1>3, <1>5, <1>6, <1>7 DEF Encloses
<1>9. CutEncloses(g, C)
    BY <1>2, <1>3, <1>4, <1>5, <1>6, <1>7 DEF CutEncloses
<1>10. Reachable(g) \subseteq C
    BY <1>9, ReachableWithin
<1> QED BY <1>6, <1>8, <1>10 DEF Unreached, RouteExists

(* Nothing negative is said of a route that was found.                     *)
LEMMA ClaimsNothing ==
    ASSUME NEW c
    PROVE  StatusOf(c) \notin {"state_infeasible", "no_static_route"}
BY DEF StatusOf

(* _destination_claim: a negative answer is given of a search that ran to  *)
(* its end, without a limit, and found nothing.                            *)
LEMMA NegativeClaim ==
    ASSUME Finish, result'.status \in {"state_infeasible", "no_static_route"}
    PROVE  /\ limit = None /\ ~alternativeLimit /\ frontier = {} /\ candidates = {}
           /\ result'.status = "no_static_route"
                => ClosedWorld(graph) /\ ~StructurallyReachable(graph)
<1> DEFINE hit == CASE limit # None -> limit
                    [] limit = None /\ (alternativeLimit \/ Cardinality(candidates) > Goal)
                        -> "alternatives"
                    [] OTHER -> None
           exhaustive == hit = None /\ frontier = {}
           answer(status, recommended) ==
                [status |-> IF hit # None THEN "incomplete" ELSE status,
                 complete |-> exhaustive, limit |-> hit, recommended |-> recommended]
<1>1. \/ candidates = {} /\ result' = answer(StatusOfNone(exhaustive), {})
      \/ \E c \in Recommendable(candidates) : result' = answer(StatusOf(c), {c})
    BY Zenon DEF Finish
<1>2. \A status, all : answer(status, all).status = IF hit # None THEN "incomplete" ELSE status
    OBVIOUS
<1>3. limit = None /\ alternativeLimit => hit = "alternatives"
    OBVIOUS
<1>4. limit # None => hit # None
    OBVIOUS
<1>5. hit = None => limit = None
    BY <1>4
<1> HIDE DEF hit, answer, exhaustive
<1>6. ~\E c : result' = answer(StatusOf(c), {c})
    <2> SUFFICES ASSUME NEW c, result' = answer(StatusOf(c), {c}) PROVE FALSE
        OBVIOUS
    <2>1. result'.status \in {"incomplete", StatusOf(c)}
        BY <1>2, Zenon
    <2> QED BY <2>1, ClaimsNothing
<1>7. candidates = {} /\ result' = answer(StatusOfNone(exhaustive), {})
    BY <1>1, <1>6, Zenon
<1>8. hit = None /\ StatusOfNone(exhaustive) = result'.status
    BY <1>2, <1>7
<1>9. exhaustive /\ (result'.status = "no_static_route"
                        => ClosedWorld(graph) /\ ~StructurallyReachable(graph))
    BY <1>8 DEF StatusOfNone
<1>10. frontier = {}
    BY <1>9 DEF exhaustive
<1> QED BY <1>3, <1>5, <1>7, <1>8, <1>9, <1>10, NoneAssumption

(* What the first of the two negative answers is said of.                  *)
NoWay ==
    Answered /\ result.status = "no_static_route"
        => ClosedWorld(graph) /\ ~StructurallyReachable(graph)

(* A destination of which the solver says that there is no static route is *)
(* reached by no play, whatever the story, its loops, the request and its  *)
(* limits are: every edge is resolved, and none leads from the outside     *)
(* into the cone of the target.                                            *)
THEOREM NoStaticRouteIsTrue ==
    Spec => [](Answered /\ result.status = "no_static_route"
                    => Unreached(graph) /\ ~RouteExists(graph))
<1>1. Init => GraphIsAsked /\ NoWay
    BY DEF Init, GraphIsAsked, NoWay, Answered
<1>2. GraphIsAsked /\ NoWay /\ [Next]_vars => GraphIsAsked' /\ NoWay'
    <2> SUFFICES ASSUME GraphIsAsked, NoWay, [Next]_vars PROVE GraphIsAsked' /\ NoWay'
        OBVIOUS
    <2>1. graph' = graph
        BY DEF Next, Discard, Expand, TakeEdge, RepeatLoop, Blocked, Advance, Finish, Cancel,
               vars, request
    <2>2. GraphIsAsked'
        BY <2>1 DEF GraphIsAsked
    <2>3. CASE phase' # "done"
        BY <2>2, <2>3 DEF NoWay, Answered
    <2>4. CASE Finish
        <3> SUFFICES ASSUME result'.status = "no_static_route"
                     PROVE  ClosedWorld(graph) /\ ~StructurallyReachable(graph)
            BY <2>1, <2>2 DEF NoWay
        <3> QED BY <2>4, NegativeClaim
    <2>5. CASE UNCHANGED vars
        BY <2>1, <2>2, <2>5 DEF NoWay, Answered, vars
    <2>6. phase' = "done" => Finish \/ UNCHANGED vars
        BY DEF Next, Discard, Expand, TakeEdge, RepeatLoop, Blocked, Advance, Done, Cancel
    <2> QED BY <2>3, <2>4, <2>5, <2>6
<1>3. GraphIsAsked /\ NoWay => (Answered /\ result.status = "no_static_route"
                                    => Unreached(graph) /\ ~RouteExists(graph))
    <2> SUFFICES ASSUME GraphIsAsked, ClosedWorld(graph), ~StructurallyReachable(graph)
                 PROVE  Unreached(graph) /\ ~RouteExists(graph)
        BY DEF NoWay
    <2>1. IsGraph(graph)
        BY AskedGraph
    <2>2. PICK R : R = ReverseNodes(graph, Edges(graph))
        OBVIOUS
    <2>3. R \in SUBSET Nodes /\ Target \in R
          /\ \A e \in Edges(graph) : graph.edges[e].dst \in R => graph.edges[e].src \in R
        BY <2>1, <2>2, ConeIsClosed
    <2>4. Root \notin R
        BY <2>2 DEF ClosedWorld, StructurallyReachable
    <2> QED BY <2>1, <2>3, <2>4, OutOfCone
<1> QED BY <1>1, <1>2, <1>3, PTL DEF Spec

-----------------------------------------------------------------------------
(* A constraint may be backed by more facts.                               *)
LEMMA WiderFacts ==
    ASSUME NEW F, NEW G, F \subseteq G, NEW c \in Constraints(F)
    PROVE  c \in Constraints(G)
<1>1. SUBSET F \subseteq SUBSET G
    OBVIOUS
<1>2. Bounds(F) \subseteq Bounds(G) /\ Exclusions(F) \subseteq Exclusions(G)
    BY <1>1 DEF Bounds, Exclusions
<1>3. /\ c \in [eq : SUBSET Int, eqFacts : SUBSET F, excluded : SUBSET Exclusions(F),
                lower : SUBSET Bounds(F), upper : SUBSET Bounds(F)]
      /\ AtMostOne(c.lower) /\ AtMostOne(c.upper)
    BY DEF Constraints
<1>4. c \in [eq : SUBSET Int, eqFacts : SUBSET G, excluded : SUBSET Exclusions(G),
             lower : SUBSET Bounds(G), upper : SUBSET Bounds(G)]
    BY <1>2, <1>3
<1> QED BY <1>3, <1>4 DEF Constraints

Narrowing(c, terms, fact, f) ==
    f = [i \in 0..Len(terms) |-> IF i = 0 THEN c ELSE Narrowed(f[i - 1], terms[i], fact)]

(* Where each comparison leads from S to S, all of them do.                *)
LEMMA NarrowingUnfolds ==
    ASSUME NEW S, NEW c \in S, NEW terms \in Seq(Term), NEW fact,
           \A d \in S, i \in 1..Len(terms) : Narrowed(d, terms[i], fact) \in S
    PROVE  /\ NarrowedBy(c, terms, fact)[0] = c
           /\ \A i \in 0..Len(terms) : NarrowedBy(c, terms, fact)[i] \in S
<1>0. PICK n \in Nat : n = Len(terms)
    OBVIOUS
<1>1. PICK step : step = [q \in S \X (1..n) |-> Narrowed(q[1], terms[q[2]], fact)]
    OBVIOUS
<1>2. step \in [S \X (1..n) -> S]
    BY <1>0, <1>1
<1>3. PICK f \in [0..n -> S] : Unfolds(f, n, c, step)
    BY <1>2, Recursion
<1>4. Narrowing(c, terms, fact, f)
    <2>1. \A i \in 1..n : f[i] = Narrowed(f[i - 1], terms[i], fact)
        <3> TAKE i \in 1..n
        <3>1. PICK q : q = <<f[i - 1], i>>
            OBVIOUS
        <3>2. i - 1 \in 0..n
            OBVIOUS
        <3>3. q \in S \X (1..n) /\ q[1] = f[i - 1] /\ q[2] = i
            BY <1>3, <3>1, <3>2
        <3>4. f[i] = step[q]
            BY <1>3, <3>1 DEF Unfolds
        <3> QED BY <1>1, <3>3, <3>4
    <2>2. f = [i \in 0..n |-> f[i]]
        BY <1>3
    <2>3. \A i \in 0..n : i = 0 \/ i \in 1..n
        OBVIOUS
    <2>4. \A i \in 1..n : i # 0
        OBVIOUS
    <2>5. \A i \in 0..n : f[i] = IF i = 0 THEN c ELSE Narrowed(f[i - 1], terms[i], fact)
        BY <1>3, <2>1, <2>3, <2>4, Zenon DEF Unfolds
    <2> QED BY <1>0, <2>2, <2>5, Zenon DEF Narrowing
<1> DEFINE after == CHOOSE g : Narrowing(c, terms, fact, g)
<1>5. NarrowedBy(c, terms, fact) = after
    BY DEF NarrowedBy, Narrowing
<1>6. Narrowing(c, terms, fact, after)
    BY <1>4
<1> HIDE DEF after
<1>7. after[0] = c
    BY <1>6, 0 \in 0..Len(terms), Zenon DEF Narrowing
<1>8. \A i \in 1..n : after[i] = Narrowed(after[i - 1], terms[i], fact)
    <2> TAKE i \in 1..n
    <2>1. i \in 0..Len(terms) /\ i # 0
        BY <1>0
    <2> QED BY <1>6, <2>1, Zenon DEF Narrowing
<1>9. PICK T : T = {i \in 0..n : after[i] \in S}
    OBVIOUS
<1>10. 0 \in T
    BY <1>7, <1>9
<1>11. \A i \in 1..n : i - 1 \in T => i \in T
    BY <1>0, <1>8, <1>9
<1>12. \A i \in 0..n : i \in T
    BY <1>10, <1>11, Induction, Zenon
<1> QED BY <1>0, <1>5, <1>7, <1>9, <1>12

(* What NarrowingIsSound says of one comparison, said of a conjunction.    *)
LEMMA ConjunctionNarrows ==
    ASSUME NEW F, NEW c \in Constraints(F), NEW v \in Int, Satisfies(v, c),
           NEW terms \in Seq(Term), \A i \in 1..Len(terms) : TermHolds(terms[i], v), NEW fact \in F
    PROVE  /\ ~ContradictsAny(c, terms, fact)
           /\ AllNarrowed(c, terms, fact) \in Constraints(F)
           /\ Satisfies(v, AllNarrowed(c, terms, fact))
<1>1. PICK S : S = {d \in Constraints(F) : Satisfies(v, d)}
    OBVIOUS
<1>2. \A i \in 1..Len(terms) : terms[i] \in Term
    OBVIOUS
<1>3. c \in S /\ \A d \in S, i \in 1..Len(terms) : Narrowed(d, terms[i], fact) \in S
    BY <1>1, <1>2, NarrowingIsSound
<1>4. \A i \in 0..Len(terms) : NarrowedBy(c, terms, fact)[i] \in S
    BY <1>3, NarrowingUnfolds
<1>5. AllNarrowed(c, terms, fact) \in S
    BY <1>4, Len(terms) \in 0..Len(terms) DEF AllNarrowed
<1>6. ~ContradictsAny(c, terms, fact)
    <2> SUFFICES ASSUME NEW i \in 1..Len(terms)
                 PROVE  ~Contradicts(NarrowedBy(c, terms, fact)[i - 1], terms[i])
        BY DEF ContradictsAny
    <2>1. PICK d : d = NarrowedBy(c, terms, fact)[i - 1]
        OBVIOUS
    <2>2. i - 1 \in 0..Len(terms)
        OBVIOUS
    <2>3. d \in S
        BY <1>4, <2>1, <2>2
    <2> QED BY <1>1, <1>2, <2>1, <2>3, NarrowingIsSound
<1> QED BY <1>1, <1>5, <1>6

(* Without comparisons nothing is narrowed.                                *)
LEMMA NothingNarrows ==
    ASSUME NEW c, NEW fact
    PROVE  AllNarrowed(c, <<>>, fact) = c
<1>0. PICK S : S = {c}
    OBVIOUS
<1>1. PICK terms \in Seq(Term) : terms = <<>>
    <2>1. <<>> \in Seq(Term)
        OBVIOUS
    <2> QED BY <2>1, Zenon
<1>2. c \in S
    BY <1>0
<1>3. NarrowedBy(c, terms, fact)[0] = c
    <2>1. \A d \in S, i \in 1..Len(terms) : Narrowed(d, terms[i], fact) \in S
        BY <1>1
    <2> QED BY <1>2, <2>1, NarrowingUnfolds
<1> QED BY <1>1, <1>3 DEF AllNarrowed

-----------------------------------------------------------------------------
(* What is known of a partial route, its value and its constraint, allows  *)
(* the value u.                                                            *)
Fits(u, value, constraint) ==
    /\ u \in Int /\ (value # Unknown => u = value)
    /\ \E F : constraint \in Constraints(F) /\ Satisfies(u, constraint)

(* Nothing is suppressed, and where no gate matters nothing is known.      *)
Plain(s) == s.suppressed = None /\ (~Relevant(graph) => s.constraint = NoConstraint)

(* An exact value allows itself.                                           *)
LEMMA ExactFits ==
    ASSUME NEW v \in Int, NEW facts
    PROVE  Fits(v, v, ExactConstraint(v, facts))
<1>1. PICK c : c = [eq |-> {v}, eqFacts |-> facts, excluded |-> {}, lower |-> {}, upper |-> {}]
    OBVIOUS
<1>2. ExactConstraint(v, facts) = c
    <2>1. PICK none : none = NoConstraint
        OBVIOUS
    <2>2. ExactConstraint(v, facts) = [none EXCEPT !.eq = {v}, !.eqFacts = facts]
        BY <2>1, Zenon DEF ExactConstraint
    <2>3. none = [eq |-> {}, eqFacts |-> {}, excluded |-> {}, lower |-> {}, upper |-> {}]
        BY <2>1, Zenon DEF NoConstraint
    <2> QED BY <1>1, <2>2, <2>3
<1>3. c \in Constraints(facts) /\ Satisfies(v, c)
    BY <1>1 DEF Constraints, AtMostOne, Satisfies
<1> QED BY <1>2, <1>3 DEF Fits

(* Where nothing is known every value is allowed.                          *)
LEMMA AnyFits ==
    ASSUME NEW v \in Int
    PROVE  Fits(v, Unknown, NoConstraint)
<1>1. NoConstraint \in Constraints({}) /\ Satisfies(v, NoConstraint)
    BY DEF NoConstraint, Constraints, AtMostOne, Satisfies
<1> QED BY <1>1 DEF Fits

(* A gate that a value passes is not refused, and what is known behind it  *)
(* still allows the value.                                                 *)
LEMMA GateFits ==
    ASSUME NEW value, NEW c, NEW w, Fits(w, value, c), NEW gate \in Gate, GateHolds(gate, w), NEW e
    PROVE  /\ ~ContradictsAny(c, SupportedTerms(gate), e)
           /\ Fits(w, value, AllNarrowed(c, SupportedTerms(gate), e))
<1>1. PICK F : c \in Constraints(F) /\ Satisfies(w, c)
    BY DEF Fits
<1>2. c \in Constraints(F \cup {e})
    BY <1>1, WiderFacts
<1>3. PICK terms : terms = SupportedTerms(gate)
    OBVIOUS
<1>4. terms \in Seq(Term) /\ \A i \in 1..Len(terms) : TermHolds(terms[i], w)
    <2>1. CASE gate.shape = "or"
        BY <1>3, <2>1 DEF SupportedTerms
    <2>2. CASE gate.shape # "or"
        <3>1. terms = gate.terms
            BY <1>3, <2>2 DEF SupportedTerms
        <3>2. terms \in Seq(Term)
            <4>1. CASE gate = NoGate
                BY <3>1, <4>1 DEF NoGate
            <4>2. CASE gate # NoGate
                BY <3>1, <4>2 DEF Gate
            <4> QED BY <4>1, <4>2
        <3>3. \A i \in DOMAIN terms : TermHolds(terms[i], w)
            BY <2>2, <3>1 DEF GateHolds
        <3> QED BY <3>2, <3>3
    <2> QED BY <2>1, <2>2
<1>5. w \in Int
    BY DEF Fits
<1>6. /\ ~ContradictsAny(c, terms, e)
      /\ AllNarrowed(c, terms, e) \in Constraints(F \cup {e})
      /\ Satisfies(w, AllNarrowed(c, terms, e))
    BY <1>1, <1>2, <1>4, <1>5, e \in F \cup {e}, ConjunctionNarrows
<1> QED BY <1>3, <1>6 DEF Fits

(* _apply_effect: what is known after an effect allows all that it makes   *)
(* of an allowed value.                                                    *)
LEMMA EffectFits ==
    ASSUME NEW s, IsState(s), Plain(s), NEW w, Fits(w, s.value, s.constraint),
           NEW effect \in Effect, NEW x \in Effects(effect, {w}), NEW fact,
           NEW t, t = WithEffect(s, effect, fact)
    PROVE  Fits(x, t.value, t.constraint)
<1>1. effect.op \in {"none", "set", "add", "other"} /\ effect.value \in Int /\ w \in Int
    BY DEF Effect, NoEffect, Fits
<1>2. x \in Int
    BY <1>1, EffectsPointwise
<1>3. CASE effect.op = "none"
    <2>1. t = s /\ x = w
        BY <1>3 DEF WithEffect, Effects
    <2> QED BY <2>1
<1>4. CASE ~Relevant(graph)
    <2>1. t = s
        BY <1>4 DEF WithEffect
    <2>2. s.value = Unknown /\ s.constraint = NoConstraint
        BY <1>4 DEF IsState, Plain
    <2> QED BY <1>2, <2>1, <2>2, AnyFits
<1>5. CASE effect.op = "set" /\ Relevant(graph)
    <2>1. PICK source, constraint :
            /\ t = [s EXCEPT !.value = effect.value, !.source = source, !.constraint = constraint]
            /\ constraint = ExactConstraint(effect.value, ToSet(source.order))
        BY <1>5 DEF WithEffect
    <2>2. t.value = effect.value /\ t.constraint = constraint
        BY <2>1 DEF IsState, IsRecord
    <2>3. x = effect.value
        BY <1>5 DEF Effects
    <2> QED BY <1>1, <2>1, <2>2, <2>3, ExactFits
<1>6. CASE effect.op = "add" /\ Relevant(graph) /\ s.value # Unknown
    <2>1. PICK v, source, constraint :
            /\ t = [s EXCEPT !.value = v, !.source = source, !.constraint = constraint]
            /\ v = s.value + effect.value
            /\ constraint = ExactConstraint(v, ToSet(source.order))
        BY <1>6 DEF WithEffect
    <2>2. t.value = v /\ t.constraint = constraint
        BY <2>1 DEF IsState, IsRecord
    <2>3. x = v
        <3>1. w = s.value
            BY <1>6 DEF Fits
        <3>2. Effects(effect, {w}) = {y + effect.value : y \in {w}}
            BY <1>6 DEF Effects
        <3> QED BY <2>1, <3>1, <3>2
    <2> QED BY <1>2, <2>1, <2>2, <2>3, ExactFits
<1>7. CASE /\ (effect.op = "add" /\ s.value = Unknown) \/ effect.op = "other"
           /\ Relevant(graph)
    <2>1. t.value = Unknown /\ t.constraint = NoConstraint
        BY <1>7 DEF WithEffect, IsState, IsRecord
    <2> QED BY <1>2, <2>1, AnyFits
<1> QED BY <1>1, <1>3, <1>4, <1>5, <1>6, <1>7

(* The same of the effect of a node ...                                    *)
LEMMA ArrivedFits ==
    ASSUME IsGraph(graph), NEW s, IsState(s), Plain(s)
    PROVE  /\ IsState(Arrived(s)) /\ Plain(Arrived(s)) /\ Arrived(s).node = s.node
           /\ \A u \in Int : Fits(u, s.value, s.constraint) =>
                 \A w \in Effects(graph.arrive[s.node], {u}) :
                    Fits(w, Arrived(s).value, Arrived(s).constraint)
<1>1. PICK effect \in Effect : effect = graph.arrive[s.node]
    BY DEF IsGraph, IsState
<1>2. PICK t : t = WithEffect(s, effect, s.node)
    OBVIOUS
<1>3. IsState(t) /\ t.node = s.node /\ t.suppressed = s.suppressed
    BY <1>2, EffectIsTaken
<1>4. ~Relevant(graph) => t = s
    BY <1>2 DEF WithEffect
<1>5. PICK r, warnings : r = Arrived(s) /\ warnings = Unique(t.warnings)
    OBVIOUS
<1>6. r = [t EXCEPT !.warnings = warnings]
    BY <1>1, <1>2, <1>5 DEF Arrived
<1>7. /\ IsRecord(r) /\ r.node = t.node /\ r.path = t.path /\ r.value = t.value
      /\ r.warnings = warnings /\ r.constraint = t.constraint /\ r.suppressed = t.suppressed
    BY <1>3, <1>6 DEF IsState, IsRecord
<1>8. \E T : warnings \in Seq(T)
    BY <1>3, <1>5, UniqueKeepsOne DEF IsState
<1>9. IsState(r)
    BY <1>3, <1>7, <1>8 DEF IsState
<1>10. Plain(r)
    BY <1>3, <1>4, <1>7 DEF Plain
<1>11. \A u \in Int : Fits(u, s.value, s.constraint) =>
                 \A w \in Effects(effect, {u}) : Fits(w, t.value, t.constraint)
    BY <1>2, EffectFits
<1> QED BY <1>1, <1>3, <1>5, <1>7, <1>9, <1>10, <1>11

(* ... and of _traverse_edge, which refuses no value that passes the gate. *)
LEMMA PassedFits ==
    ASSUME IsGraph(graph), NEW s, IsState(s), Plain(s), NEW e \in From(graph, s.node),
           graph.edges[e].dst \in TargetCone(graph)
    PROVE  /\ IsState(Passed(s, e)) /\ Plain(Passed(s, e))
           /\ Passed(s, e).node = graph.edges[e].dst
           /\ \A w \in Int : Fits(w, s.value, s.constraint) /\ GateHolds(graph.edges[e].gate, w) =>
                 /\ ~GateRefuses(s, e)
                 /\ \A x \in Effects(graph.edges[e].effect, {w}) :
                        Fits(x, Passed(s, e).value, Passed(s, e).constraint)
<1>1. PICK effect \in Effect, gate \in Gate :
        e \in Edges(graph) /\ effect = graph.edges[e].effect /\ gate = graph.edges[e].gate
    BY DEF IsGraph, From
<1>2. PICK a, t, r : a = Gated(s, e) /\ t = Taken(s, e) /\ r = Passed(s, e)
    OBVIOUS
<1>3. /\ IsState(a) /\ a.value = s.value /\ a.suppressed = s.suppressed
      /\ a.constraint = AllNarrowed(s.constraint, SupportedTerms(gate), e)
      /\ IsState(r) /\ r.node = graph.edges[e].dst
      /\ r.value = t.value /\ r.constraint = t.constraint
      /\ s.suppressed = None => r.suppressed = None
    BY <1>1, <1>2, PassedParts
<1>4. t = WithEffect(a, effect, e)
    BY <1>1, <1>2 DEF Taken
<1>5. ~Relevant(graph) => a.constraint = NoConstraint /\ t = a
    <2> SUFFICES ASSUME ~Relevant(graph) PROVE a.constraint = NoConstraint /\ t = a
        OBVIOUS
    <2>1. gate = NoGate
        BY <1>1 DEF Relevant
    <2>2. SupportedTerms(gate) = <<>>
        BY <2>1 DEF NoGate, SupportedTerms
    <2>3. a.constraint = NoConstraint
        BY <1>3, <2>2, NothingNarrows DEF Plain
    <2> QED BY <1>4, <2>3 DEF WithEffect
<1>6. Plain(a) /\ Plain(r)
    BY <1>3, <1>5 DEF Plain
<1>7. ASSUME NEW w \in Int, Fits(w, s.value, s.constraint), GateHolds(gate, w)
      PROVE  /\ ~GateRefuses(s, e)
             /\ \A x \in Effects(effect, {w}) : Fits(x, r.value, r.constraint)
    <2>1. /\ ~ContradictsAny(s.constraint, SupportedTerms(gate), e)
          /\ Fits(w, a.value, a.constraint)
        BY <1>3, <1>7, GateFits
    <2>2. ~GateRefuses(s, e)
        BY <1>1, <1>7, <2>1 DEF GateRefuses, Fits
    <2>3. \A x \in Effects(effect, {w}) : Fits(x, t.value, t.constraint)
        BY <1>3, <1>4, <1>6, <2>1, EffectFits
    <2> QED BY <1>3, <2>2, <2>3
<1> QED BY <1>1, <1>2, <1>3, <1>6, <1>7

(* The first partial route allows every start value.                       *)
LEMMA StartFits ==
    ASSUME IsGraph(graph)
    PROVE  /\ Plain(StartState(graph)) /\ StartState(graph).node = Root
           /\ \A u \in StartValues(graph) :
                Fits(u, StartState(graph).value, StartState(graph).constraint)
<1>1. PICK s : s = StartState(graph)
    OBVIOUS
<1>2. /\ s.node = Root /\ s.suppressed = None
    BY <1>1 DEF StartState
<1>3. StartValues(graph) \in SUBSET Int
    BY GraphAssumption DEF IsGraph, StartValues, Values
<1>4. CASE Relevant(graph) /\ graph.init.kind # "unknown"
    <2>1. PICK facts : s.value = graph.init.value
                       /\ s.constraint = ExactConstraint(graph.init.value, facts)
        BY <1>1, <1>4 DEF StartState
    <2>2. StartValues(graph) = {graph.init.value} /\ graph.init.value \in Int
        BY <1>4 DEF StartValues, IsGraph
    <2> QED BY <1>1, <1>2, <1>4, <2>1, <2>2, ExactFits DEF Plain
<1>5. CASE ~(Relevant(graph) /\ graph.init.kind # "unknown")
    <2>1. s.value = Unknown /\ s.constraint = NoConstraint
        BY <1>1, <1>5 DEF StartState
    <2> QED BY <1>1, <1>2, <1>3, <2>1, AnyFits DEF Plain
<1> QED BY <1>4, <1>5

-----------------------------------------------------------------------------
(* The arrival at n with value u, the effect of n still to come, is one of *)
(* those that the search has expanded or still will.                       *)
Covered(n, u) ==
    \/ \E s \in frontier : s.node = n /\ Fits(u, s.value, s.constraint)
    \/ \E r \in retained : r.key[1] = n /\ Fits(u, r.key[2], r.key[3])

(* The edge is among the ways on that are still to be gone, for a value w. *)
Ahead(n, e, w) ==
    \E s : \E way \in options : /\ s = current /\ way.edge = e /\ s.node = n
                                /\ Fits(w, s.value, s.constraint)

(* A play at n with value w can take the edge, and it leads on to the      *)
(* target.                                                                 *)
Leaves(n, e, w) ==
    e \in From(graph, n) /\ graph.edges[e].dst \in TargetCone(graph)
        /\ GateHolds(graph.edges[e].gate, w)

(* All that the edge leads to with value w is covered.                     *)
Gone(e, w) ==
    \A x \in Effects(graph.edges[e].effect, {w}) : Covered(graph.edges[e].dst, x)

(* Every edge out of a retained state is gone or still ahead.              *)
Handled(r) ==
    \A u \in Int : Fits(u, r.key[2], r.key[3]) =>
        \A w \in Effects(graph.arrive[r.key[1]], {u}), e \in Edges(graph) :
            Leaves(r.key[1], e, w) => Ahead(r.key[1], e, w) \/ Gone(e, w)

(* A search that may still answer in the negative.                         *)
StillOpen == limit = None /\ ~alternativeLimit /\ candidates = {}

(* It has every start value covered, has every retained state handled, and *)
(* has retained no state of the target.                                    *)
NothingForgotten ==
    /\ \A u \in StartValues(graph) : Covered(Root, u)
    /\ \A r \in retained : Handled(r) /\ r.key[1] # Target

PlainWays ==
    options # {} => \E s : /\ s = current /\ Plain(s)
                           /\ \A way \in options :
                                way.jump = {} /\ graph.edges[way.edge].dst \in TargetCone(graph)

NegativeIsProved ==
    Answered /\ result.status \in {"state_infeasible", "no_static_route"} => Unreached(graph)

(* The invariant of a search through a graph without loop authority.       *)
SearchInv ==
    /\ RouteInv
    /\ phase # "edges" => options = {}
    /\ \A s \in frontier : Plain(s)
    /\ PlainWays
    /\ StillOpen => NothingForgotten
    /\ NegativeIsProved

(* When nothing is left to expand, what is covered encloses the plays.     *)
LEMMA NothingLeft ==
    ASSUME IsGraph(graph), NothingForgotten, frontier = {}, options = {}
    PROVE  Unreached(graph)
<1>1. PICK cone : cone = TargetCone(graph)
    OBVIOUS
<1>2. /\ Target \in cone
      /\ \A e \in Edges(graph) : graph.edges[e].dst \in cone => graph.edges[e].src \in cone
    BY <1>1, ConeIsClosed DEF TargetCone
<1> DEFINE Met(n, w) == \E u \in Int : Covered(n, u) /\ w \in Effects(graph.arrive[n], {u})
<1>3. PICK C : C = {z \in Nodes \X Int : z[1] \in cone => Met(z[1], z[2])}
    OBVIOUS
<1>4. \A n, w : <<n, w>> \in C <=> n \in Nodes /\ w \in Int /\ (n \in cone => Met(n, w))
    BY <1>3
<1>5. \A n, u : Covered(n, u) => \E r \in retained : r.key[1] = n /\ Fits(u, r.key[2], r.key[3])
    BY DEF Covered
<1>6. \A n \in Nodes, vs \in SUBSET Int :
        /\ Effects(graph.arrive[n], vs) \in SUBSET Int
        /\ vs # {} => \A w \in Effects(graph.arrive[n], vs) :
                        \E u \in vs : w \in Effects(graph.arrive[n], {u})
    BY EffectsPointwise DEF IsGraph
<1>7. \A p \in C : p[1] # Target
    <2> SUFFICES ASSUME NEW p \in C, p[1] = Target PROVE FALSE
        OBVIOUS
    <2>1. Met(Target, p[2])
        BY <1>2, <1>3
    <2> QED BY <1>5, <2>1 DEF NothingForgotten
<1>8. ASSUME NEW w \in Effects(graph.arrive[Root], StartValues(graph)) PROVE <<Root, w>> \in C
    <2>1. StartValues(graph) \in SUBSET Int /\ StartValues(graph) # {}
        <3>1. -Horizon..Horizon \in SUBSET Int /\ 0 \in -Horizon..Horizon
            BY GraphAssumption
        <3> QED BY <3>1 DEF IsGraph, StartValues, Values
    <2>2. PICK u \in StartValues(graph) : w \in Effects(graph.arrive[Root], {u})
        BY <1>6, <1>8, <2>1, GraphAssumption
    <2>3. Met(Root, w)
        BY <2>1, <2>2 DEF NothingForgotten
    <2> QED BY <1>4, <1>6, <2>1, <2>3, GraphAssumption
<1>9. ASSUME NEW e \in Edges(graph), NEW w \in Int, <<graph.edges[e].src, w>> \in C,
             NEW y \in Over(graph, e, {w})
      PROVE  <<graph.edges[e].dst, y>> \in C
    <2>1. PICK n, m \in Nodes : n = graph.edges[e].src /\ m = graph.edges[e].dst
        BY DEF IsGraph
    <2>2. GateHolds(graph.edges[e].gate, w)
          /\ y \in Effects(graph.arrive[m], Effects(graph.edges[e].effect, {w}))
        <3>1. {v \in {w} : GateHolds(graph.edges[e].gate, v)}
                = IF GateHolds(graph.edges[e].gate, w) THEN {w} ELSE {}
            OBVIOUS
        <3> QED BY <1>9, <2>1, <3>1 DEF Over
    <2>3. PICK xs \in SUBSET Int : xs = Effects(graph.edges[e].effect, {w}) /\ xs # {}
        BY EffectsPointwise DEF IsGraph
    <2>4. y \in Int
        BY <1>6, <2>1, <2>2, <2>3
    <2>5. CASE m \notin cone
        BY <1>4, <2>1, <2>4, <2>5
    <2>6. CASE m \in cone
        <3>1. n \in cone
            BY <1>2, <2>1, <2>6
        <3>2. PICK u \in Int : Covered(n, u) /\ w \in Effects(graph.arrive[n], {u})
            BY <1>4, <1>9, <2>1, <3>1
        <3>3. PICK r \in retained : r.key[1] = n /\ Fits(u, r.key[2], r.key[3])
            BY <1>5, <3>2
        <3>4. Leaves(n, e, w)
            BY <1>1, <2>1, <2>2, <2>6 DEF Leaves, From
        <3>5. ~Ahead(n, e, w)
            BY DEF Ahead
        <3>6. Gone(e, w)
            BY <3>2, <3>3, <3>4, <3>5 DEF NothingForgotten, Handled
        <3>7. PICK x \in xs : y \in Effects(graph.arrive[m], {x})
            BY <1>6, <2>1, <2>2, <2>3
        <3>8. Covered(m, x) /\ x \in Int
            BY <2>1, <2>3, <3>6, <3>7 DEF Gone
        <3>9. Met(m, y)
            BY <3>7, <3>8
        <3> QED BY <1>4, <2>1, <2>4, <3>9
    <2> QED BY <2>5, <2>6
<1>10. C \in SUBSET (Nodes \X Int)
    BY <1>3
<1> HIDE DEF Met
<1>11. Encloses(graph, C)
    BY <1>8, <1>9, <1>10 DEF Encloses
<1> QED BY <1>7, <1>11 DEF Unreached

(* A graph stays the same, and with it what is said of it.                 *)
LEMMA SameSearch ==
    ASSUME graph' = graph
    PROVE  /\ \A s : Plain(s) => Plain(s)'
           /\ \A n, e, w : Leaves(n, e, w)' => Leaves(n, e, w)
           /\ Unreached(graph) => Unreached(graph)'
BY DEF Plain, Leaves, Unreached

(* A retained state stays handled when what was covered stays so and a way *)
(* that is gone has covered what it leads to.                              *)
LEMMA HandledStays ==
    ASSUME graph' = graph,
           \A n, u : Covered(n, u) => Covered(n, u)',
           \A n, e, w : Leaves(n, e, w) /\ Ahead(n, e, w) => Ahead(n, e, w)' \/ Gone(e, w)',
           NEW r, Handled(r)
    PROVE  Handled(r)'
<1>1. \A e, w : Gone(e, w) => Gone(e, w)'
    BY DEF Gone
<1>2. \A n, e, w : Leaves(n, e, w)' => Leaves(n, e, w)
    BY SameSearch
<1> SUFFICES ASSUME NEW u \in Int, Fits(u, r.key[2], r.key[3]),
                    NEW w \in Effects(graph.arrive[r.key[1]], {u}), NEW e \in Edges(graph),
                    Leaves(r.key[1], e, w)'
             PROVE  Ahead(r.key[1], e, w)' \/ Gone(e, w)'
    BY DEF Handled
<1>3. Leaves(r.key[1], e, w) /\ (Ahead(r.key[1], e, w) \/ Gone(e, w))
    BY <1>2 DEF Handled
<1> QED BY <1>1, <1>3

(* record_candidates leaves a candidate.                                   *)
LEMMA SomeCandidate ==
    ASSUME NEW all, NEW s
    PROVE  WithCandidate(all, s) # {}
<1>1. PICK new, prior : new = Candidate(s) /\ prior = {c \in all : c.signature = new.signature}
    OBVIOUS
<1>2. WithCandidate(all, s) = IF \E c \in prior : ~LexLess(new.rank, c.rank)
                              THEN all ELSE (all \ prior) \cup {new}
    BY <1>1, Zenon DEF WithCandidate
<1>3. prior \subseteq all
    BY <1>1
<1> QED BY <1>2, <1>3

(* What dominance compares begins with the node, the value and the         *)
(* constraint.                                                             *)
LEMMA KeyParts ==
    ASSUME NEW s
    PROVE  StateKey(s)[1] = s.node /\ StateKey(s)[2] = s.value /\ StateKey(s)[3] = s.constraint
BY DEF StateKey

(* The search begins with every start value covered.                       *)
LEMMA InitialSearch == Init => SearchInv
<1> SUFFICES ASSUME Init PROVE SearchInv
    OBVIOUS
<1>1. RouteInv /\ IsGraph(graph)
    BY InitialRoute, AskedGraph DEF RouteInv
<1>2. /\ options = {} /\ frontier = {StartState(graph)} /\ retained = {} /\ phase = "search"
    BY DEF Init
<1>3. \A u \in StartValues(graph) : Covered(Root, u)
    BY <1>1, <1>2, StartFits DEF Covered
<1> QED BY <1>1, <1>2, <1>3, StartFits DEF SearchInv, PlainWays, NothingForgotten,
                                               NegativeIsProved, Answered

(* A dominated partial route is covered by a retained one, unless it was   *)
(* dropped for want of room, which is remembered.                          *)
LEMMA DiscardForgetsNothing ==
    ASSUME SearchInv, NEW best \in frontier, Discard(best)
    PROVE  SearchInv'
<1>1. /\ graph' = graph /\ options' = options /\ current' = current /\ candidates' = candidates
      /\ frontier' = frontier \ {best} /\ retained' = retained /\ phase' = phase
      /\ phase = "search" /\ limit' = limit /\ Dominated(best)
      /\ alternativeLimit' = (alternativeLimit \/ BucketFull(best))
    BY DEF Discard, request
<1>2. RouteInv'
    BY DiscardKeeps DEF SearchInv
<1>3. options = {}
    BY <1>1 DEF SearchInv
<1>4. ASSUME StillOpen' PROVE NothingForgotten'
    <2>1. StillOpen /\ ~BucketFull(best)
        BY <1>1, <1>4 DEF StillOpen
    <2>2. PICK q \in retained : q.key = StateKey(best)
        BY <1>1, <2>1 DEF Dominated, SameRoute, Bucket
    <2>3. q.key[1] = best.node /\ q.key[2] = best.value /\ q.key[3] = best.constraint
        BY <2>2, KeyParts
    <2>4. \A n, u : Covered(n, u) => Covered(n, u)'
        BY <1>1, <2>3 DEF Covered
    <2>5. \A n, e, w : ~Ahead(n, e, w)
        BY <1>3 DEF Ahead
    <2>6. \A r : Handled(r) => Handled(r)'
        BY <1>1, <2>4, <2>5, HandledStays
    <2>7. NothingForgotten
        BY <2>1 DEF SearchInv
    <2> QED BY <1>1, <2>4, <2>6, <2>7 DEF NothingForgotten
<1>5. \A s \in frontier' : Plain(s)'
    BY <1>1, SameSearch DEF SearchInv
<1>6. PlainWays' /\ (phase' # "edges" => options' = {})
    BY <1>1, <1>3 DEF PlainWays
<1>7. NegativeIsProved'
    BY <1>1 DEF NegativeIsProved, Answered
<1> QED BY <1>2, <1>4, <1>5, <1>6, <1>7 DEF SearchInv

(* An expanded one is retained, with all its edges ahead; what it replaces *)
(* allows the same.                                                        *)
LEMMA ExpandForgetsNothing ==
    ASSUME SearchInv, graph.loops = {}, NEW best \in frontier, Expand(best)
    PROVE  SearchInv'
<1>1. PICK s : s = Arrived(best)
    OBVIOUS
<1>2. /\ IsGraph(graph) /\ IsState(best) /\ Plain(best)
    BY AskedGraph DEF SearchInv, RouteInv, FrontierIsSound, Sound
<1>3. /\ IsState(s) /\ Plain(s) /\ s.node = best.node
      /\ \A u \in Int : Fits(u, best.value, best.constraint) =>
            \A w \in Effects(graph.arrive[best.node], {u}) : Fits(w, s.value, s.constraint)
    BY <1>1, <1>2, ArrivedFits
<1>4. /\ graph' = graph /\ current' = s /\ phase = "search"
      /\ frontier' = frontier \ {best} /\ retained' = WithRetained(best)
      /\ alternativeLimit' = (alternativeLimit \/ BucketFull(best))
      /\ options' \in {{}, OptionsFrom(s)}
      /\ phase' # "edges" => options' = {}
      /\ phase' # "done"
    BY <1>1 DEF Expand, request
<1>5. limit' = None => /\ limit = None
                       /\ IF s.node = Target
                          THEN candidates' # {}
                          ELSE candidates' = candidates /\ options' = OptionsFrom(s)
    <2> DEFINE full == Cardinality(retained') > limits.retained
               last == expanded + 1 > limits.expanded
    <2>1. /\ limit' = CASE full -> "retained_states" [] ~full /\ last -> "expanded_states"
                         [] OTHER -> limit
          /\ candidates' = IF ~full /\ ~last /\ s.node = Target
                           THEN WithCandidate(candidates, s) ELSE candidates
          /\ options' = IF full \/ last \/ s.node = Target THEN {} ELSE OptionsFrom(s)
        BY <1>1 DEF Expand
    <2> HIDE DEF full, last
    <2>2. limit' = None => ~full /\ ~last /\ limit = None
        BY <2>1, NoneAssumption
    <2> QED BY <2>1, <2>2, SomeCandidate
<1>6. RouteInv'
    BY ExpandKeeps DEF SearchInv
<1>7. options = {}
    BY <1>4 DEF SearchInv
<1>8. \A way \in OptionsFrom(s) : /\ way.jump = {}
                                  /\ graph.edges[way.edge].dst \in TargetCone(graph)
    <2>1. Acceleration(s) = {}
        BY DEF Acceleration
    <2> QED BY <2>1 DEF OptionsFrom
<1>9. \A e \in Edges(graph) : \A w : Leaves(s.node, e, w) =>
        \E way \in OptionsFrom(s) : way.edge = e
    <2> SUFFICES ASSUME NEW e \in Edges(graph), NEW w, Leaves(s.node, e, w)
                 PROVE  \E way \in OptionsFrom(s) : way.edge = e
        OBVIOUS
    <2>1. Acceleration(s) = {}
        BY DEF Acceleration
    <2>2. e # s.suppressed
        <3>1. None \notin Edges(graph)
            BY NoneAssumption DEF SearchInv, RouteInv, GraphIsAsked
        <3> QED BY <1>3, <3>1 DEF Plain
    <2>3. [edge |-> e, jump |-> {}] \in OptionsFrom(s)
        BY <2>1, <2>2 DEF OptionsFrom, Leaves
    <2> QED BY <2>3
<1>10. ASSUME StillOpen' PROVE NothingForgotten'
    <2>1. StillOpen /\ ~BucketFull(best) /\ s.node # Target /\ options' = OptionsFrom(s)
        BY <1>4, <1>5, <1>10 DEF StillOpen
    <2>2. PICK new : /\ new.key = StateKey(best)
                     /\ retained' = (retained \ SameRoute(best)) \cup {new}
        BY <1>4, <2>1 DEF WithRetained
    <2>3. /\ new.key[1] = best.node /\ new.key[2] = best.value /\ new.key[3] = best.constraint
          /\ \A r \in retained : r \in retained' \/ r.key = new.key
        BY <2>2, KeyParts DEF SameRoute, Bucket
    <2>4. \A n, u : Covered(n, u) => Covered(n, u)'
        BY <1>4, <2>2, <2>3 DEF Covered
    <2>5. \A n, e, w : ~Ahead(n, e, w)
        BY <1>7 DEF Ahead
    <2>6. \A r : Handled(r) => Handled(r)'
        BY <1>4, <2>4, <2>5, HandledStays
    <2>7. NothingForgotten
        BY <2>1 DEF SearchInv
    <2>8. Handled(new)'
        <3> SUFFICES ASSUME NEW u \in Int, Fits(u, best.value, best.constraint),
                            NEW w \in Effects(graph.arrive[best.node], {u}),
                            NEW e \in Edges(graph), Leaves(best.node, e, w)'
                     PROVE  Ahead(best.node, e, w)'
            BY <1>4, <2>3 DEF Handled
        <3>1. Leaves(s.node, e, w)
            BY <1>3, <1>4, SameSearch
        <3>2. PICK way \in OptionsFrom(s) : way.edge = e
            BY <1>9, <3>1
        <3>3. Fits(w, s.value, s.constraint)
            BY <1>3
        <3> QED BY <1>3, <1>4, <2>1, <3>2, <3>3 DEF Ahead
    <2> QED BY <1>3, <1>4, <2>1, <2>2, <2>3, <2>4, <2>6, <2>7, <2>8 DEF NothingForgotten
<1>11. \A q \in frontier' : Plain(q)'
    BY <1>4, SameSearch DEF SearchInv
<1>12. PlainWays'
    <2>1. Plain(s)' /\ \A way \in options' : way.jump = {}
                                /\ graph.edges[way.edge].dst \in TargetCone(graph)
        BY <1>3, <1>4, <1>8, SameSearch
    <2> QED BY <1>4, <2>1, Zenon DEF PlainWays
<1>13. NegativeIsProved'
    BY <1>4 DEF NegativeIsProved, Answered
<1> QED BY <1>4, <1>6, <1>10, <1>11, <1>12, <1>13 DEF SearchInv

(* What a step on one way may change when it leaves the search open.       *)
LEMMA WayForgetsNothing ==
    ASSUME SearchInv, RouteInv', NEW way \in options,
           graph' = graph, current' = current, retained' = retained, phase # "done",
           phase' # "done", frontier \subseteq frontier', options' \subseteq options,
           phase' # "edges" => options' = {},
           \A s \in frontier' : s \in frontier \/ Plain(s),
           StillOpen' => /\ StillOpen /\ options' = options \ {way}
                         /\ \A w \in Int : Leaves(current.node, way.edge, w)
                                /\ Fits(w, current.value, current.constraint) => Gone(way.edge, w)'
    PROVE  SearchInv'
<1>1. ASSUME StillOpen' PROVE NothingForgotten'
    <2>1. /\ StillOpen /\ options' = options \ {way}
          /\ \A w \in Int : Leaves(current.node, way.edge, w)
                                /\ Fits(w, current.value, current.constraint) => Gone(way.edge, w)'
        BY <1>1
    <2>2. \A n, u : Covered(n, u) => Covered(n, u)'
        BY DEF Covered
    <2>3. ASSUME NEW n, NEW e, NEW w, Leaves(n, e, w), Ahead(n, e, w)
          PROVE  Ahead(n, e, w)' \/ Gone(e, w)'
        <3>1. PICK other \in options : /\ other.edge = e /\ current.node = n
                                       /\ Fits(w, current.value, current.constraint)
            BY <2>3 DEF Ahead
        <3>2. CASE other = way
            BY <2>1, <2>3, <3>1, <3>2 DEF Fits
        <3>3. CASE other # way
            BY <2>1, <3>1, <3>3 DEF Ahead
        <3> QED BY <3>2, <3>3
    <2>4. \A r : Handled(r) => Handled(r)'
        BY <2>2, <2>3, HandledStays
    <2> QED BY <2>1, <2>2, <2>4 DEF NothingForgotten, SearchInv
<1>2. \A s \in frontier' : Plain(s)'
    BY SameSearch DEF SearchInv
<1>3. PlainWays'
    <2> SUFFICES ASSUME options' # {} PROVE PlainWays'
        BY DEF PlainWays
    <2>1. PICK s : /\ s = current /\ Plain(s)
                   /\ \A x \in options :
                        x.jump = {} /\ graph.edges[x.edge].dst \in TargetCone(graph)
        BY DEF SearchInv, PlainWays
    <2>2. Plain(s)' /\ \A x \in options' :
                        x.jump = {} /\ graph.edges[x.edge].dst \in TargetCone(graph)
        BY <2>1, SameSearch
    <2> QED BY <2>1, <2>2, Zenon DEF PlainWays
<1>4. NegativeIsProved'
    BY DEF NegativeIsProved, Answered
<1> QED BY <1>1, <1>2, <1>3, <1>4 DEF SearchInv

(* A way is cut by a limit, which is remembered, or where no value passes. *)
LEMMA BlockedForgetsNothing ==
    ASSUME SearchInv, RouteInv', phase = "edges", NEW way \in options,
           NEW bounded, NEW contradicts, Blocked(way, bounded, contradicts),
           bounded = None => \A w \in Int :
                Leaves(current.node, way.edge, w)
                    => ~Fits(w, current.value, current.constraint)
    PROVE  SearchInv'
<1>1. /\ graph' = graph /\ current' = current /\ retained' = retained /\ phase' # "done"
      /\ frontier' = frontier /\ options' = options \ {way}
      /\ phase' # "edges" => options' = {}
      /\ candidates' = candidates /\ alternativeLimit' = alternativeLimit
      /\ limit' = IF limit = None THEN bounded ELSE limit
    BY DEF Blocked, Done, request
<1>2. StillOpen' => StillOpen /\ bounded = None
    BY <1>1 DEF StillOpen
<1> QED BY <1>1, <1>2, WayForgetsNothing

(* A single edge is taken, cut or refused.                                 *)
LEMMA TakeEdgeForgetsNothing ==
    ASSUME SearchInv, NEW way \in options, TakeEdge(way)
    PROVE  SearchInv'
<1>1. PICK s : s = current
    OBVIOUS
<1>2. /\ IsGraph(graph) /\ IsState(s) /\ May(s, way) /\ Plain(s)
      /\ graph.edges[way.edge].dst \in TargetCone(graph)
    BY <1>1, AskedGraph DEF SearchInv, RouteInv, WaysAreOpen, PlainWays
<1>3. PICK e : e = way.edge
    OBVIOUS
<1>4. phase = "edges" /\ e \in From(graph, s.node)
    BY <1>2, <1>3 DEF TakeEdge, May
<1>5. RouteInv'
    BY TakeEdgeKeeps DEF SearchInv
<1>6. /\ IsState(Passed(s, e)) /\ Plain(Passed(s, e))
      /\ Passed(s, e).node = graph.edges[e].dst
      /\ \A w \in Int : Fits(w, s.value, s.constraint) /\ GateHolds(graph.edges[e].gate, w) =>
            /\ ~GateRefuses(s, e)
            /\ \A x \in Effects(graph.edges[e].effect, {w}) :
                   Fits(x, Passed(s, e).value, Passed(s, e).constraint)
    BY <1>2, <1>3, <1>4, PassedFits
<1>7. CASE Blocked(way, "repetition_per_transition", FALSE)
    BY <1>4, <1>5, <1>7, BlockedForgetsNothing, NoneAssumption
<1>8. CASE GateRefuses(s, e) /\ \E contradicts : Blocked(way, None, contradicts)
    <2>1. \A w \in Int : Leaves(s.node, e, w) => ~Fits(w, s.value, s.constraint)
        BY <1>6, <1>8 DEF Leaves
    <2> QED BY <1>1, <1>3, <1>4, <1>5, <1>8, <2>1, BlockedForgetsNothing
<1>9. CASE Advance(way, Passed(s, e), 1)
    <2>1. PICK t : t = Passed(s, e)
        OBVIOUS
    <2>2. Advance(way, t, 1)
        BY <1>9, <2>1, Zenon
    <2>3. /\ graph' = graph /\ current' = current /\ retained' = retained /\ phase' # "done"
          /\ frontier \subseteq frontier' /\ frontier' \subseteq frontier \cup {t}
          /\ options' \subseteq options /\ (phase' # "edges" => options' = {})
        BY <2>2 DEF Advance, Done, request
    <2>4. StillOpen' => StillOpen /\ options' = options \ {way} /\ t \in frontier'
        <3> DEFINE cut == prefixes' > limits.prefixes
                   crowded == /\ prefixes' <= limits.prefixes
                              /\ Cardinality(frontier') > limits.frontier
                   stop == CASE cut -> "prefix_records"
                             [] crowded -> "frontier_states"
                             [] OTHER -> None
        <3>1. /\ candidates' = IF t.node = Target THEN WithCandidate(candidates, t) ELSE candidates
              /\ frontier' = IF t.node = Target \/ cut THEN frontier ELSE frontier \cup {t}
              /\ IF stop = None THEN limit' = limit /\ Done(way)
                 ELSE limit' = stop /\ options' = {}
              /\ alternativeLimit' = alternativeLimit
            BY <2>2, Zenon DEF Advance
        <3> HIDE DEF cut, crowded
        <3>2. stop = None => ~cut
            BY NoneAssumption
        <3> HIDE DEF stop
        <3>3. ASSUME StillOpen' PROVE StillOpen /\ options' = options \ {way} /\ t \in frontier'
            <4>1. stop = None /\ limit' = limit /\ Done(way) /\ ~cut
                BY <3>1, <3>2, <3>3, NoneAssumption DEF StillOpen
            <4>2. t.node # Target /\ candidates' = candidates
                BY <3>1, <3>3, SomeCandidate DEF StillOpen
            <4> QED BY <3>1, <3>3, <4>1, <4>2 DEF StillOpen, Done
        <3> QED BY <3>3
    <2>5. t \in frontier' => \A w \in Int :
                Leaves(s.node, e, w) /\ Fits(w, s.value, s.constraint) => Gone(e, w)'
        BY <1>6, <2>1, <2>3 DEF Leaves, Gone, Covered
    <2>6. \A q \in frontier' : q \in frontier \/ Plain(q)
        BY <1>6, <2>1, <2>3
    <2> QED BY <1>1, <1>3, <1>4, <1>5, <2>3, <2>4, <2>5, <2>6, WayForgetsNothing
<1> QED BY <1>1, <1>3, <1>7, <1>8, <1>9, Zenon DEF TakeEdge

(* Without loop authority no way is a jump.                                *)
LEMMA NoJump ==
    ASSUME SearchInv, NEW way \in options
    PROVE  ~RepeatLoop(way)
<1>1. way.jump = {}
    BY DEF SearchInv, PlainWays
<1> QED BY <1>1 DEF RepeatLoop

(* A negative answer is given of a search with nothing left.               *)
LEMMA FinishForgetsNothing ==
    ASSUME SearchInv, Finish
    PROVE  SearchInv'
<1>1. /\ graph' = graph /\ options' = options /\ current' = current
      /\ candidates' = candidates /\ frontier' = frontier /\ retained' = retained
      /\ limit' = limit /\ alternativeLimit' = alternativeLimit /\ phase # "edges"
    BY DEF Finish, request
<1>2. RouteInv'
    BY FinishKeeps DEF SearchInv
<1>3. options = {}
    BY <1>1 DEF SearchInv
<1>4. NegativeIsProved'
    <2> SUFFICES ASSUME result'.status \in {"state_infeasible", "no_static_route"}
                 PROVE  Unreached(graph)'
        BY DEF NegativeIsProved
    <2>1. StillOpen /\ frontier = {}
        BY NegativeClaim DEF StillOpen
    <2>2. IsGraph(graph) /\ NothingForgotten
        BY <2>1, AskedGraph DEF SearchInv, RouteInv
    <2>3. Unreached(graph)
        BY <1>3, <2>1, <2>2, NothingLeft
    <2> QED BY <1>1, <2>3, SameSearch
<1>5. \A n, u : Covered(n, u) => Covered(n, u)'
    BY <1>1 DEF Covered
<1>6. \A n, e, w : ~Ahead(n, e, w)
    BY <1>3 DEF Ahead
<1>7. \A r : Handled(r) => Handled(r)'
    BY <1>1, <1>5, <1>6, HandledStays
<1>8. StillOpen' => NothingForgotten'
    BY <1>1, <1>5, <1>7 DEF SearchInv, StillOpen, NothingForgotten
<1>9. \A s \in frontier' : Plain(s)'
    BY <1>1, SameSearch DEF SearchInv
<1> QED BY <1>1, <1>2, <1>3, <1>4, <1>8, <1>9 DEF SearchInv, PlainWays

(* A cancelled search answers nothing.                                     *)
LEMMA NothingElseForgets ==
    ASSUME SearchInv, Cancel \/ UNCHANGED vars
    PROVE  SearchInv'
<1>1. /\ graph' = graph /\ options' = options /\ current' = current
      /\ candidates' = candidates /\ frontier' = frontier /\ retained' = retained
      /\ limit' = limit /\ alternativeLimit' = alternativeLimit
      /\ (phase' = "cancelled" /\ phase = "search") \/ (phase' = phase /\ result' = result)
    BY DEF Cancel, vars, request
<1>2. RouteInv'
    BY NothingElseKeeps DEF SearchInv
<1>3. \A n, u : Covered(n, u) => Covered(n, u)'
    BY <1>1 DEF Covered
<1>4. \A n, e, w : Ahead(n, e, w) => Ahead(n, e, w)'
    BY <1>1 DEF Ahead
<1>5. \A r : Handled(r) => Handled(r)'
    BY <1>1, <1>3, <1>4, HandledStays
<1>6. StillOpen' => NothingForgotten'
    BY <1>1, <1>3, <1>5 DEF SearchInv, StillOpen, NothingForgotten
<1>7. \A s \in frontier' : Plain(s)'
    BY <1>1, SameSearch DEF SearchInv
<1>8. PlainWays'
    BY <1>1, SameSearch, Zenon DEF SearchInv, PlainWays
<1>9. NegativeIsProved'
    BY <1>1, SameSearch DEF SearchInv, NegativeIsProved, Answered
<1> QED BY <1>1, <1>2, <1>6, <1>7, <1>8, <1>9 DEF SearchInv

(* A destination the solver calls infeasible or without a route is reached *)
(* by no play of the story, over all integers, where no loop may be jumped *)
(* through: neither what dominance drops nor what the collected            *)
(* constraints refuse hides a play, and whatever a limit cuts keeps the    *)
(* answer from being given. With loop authority it is false: the edge      *)
(* behind the exit of a jump is suppressed (MCRouteGatedExit).             *)
THEOREM NegativeAnswersAreTrue ==
    Spec => [](graph.loops = {} /\ Answered
                    /\ result.status \in {"state_infeasible", "no_static_route"}
                => Unreached(graph))
<1> DEFINE Inv == graph.loops = {} => SearchInv
<1>1. Init => Inv
    BY InitialSearch
<1>2. Inv /\ [Next]_vars => Inv'
    <2> SUFFICES ASSUME Inv, [Next]_vars, graph'.loops = {} PROVE SearchInv'
        OBVIOUS
    <2>1. graph' = graph
        BY DEF Next, Discard, Expand, TakeEdge, RepeatLoop, Blocked, Advance, Finish, Cancel,
               vars, request
    <2>2. SearchInv /\ graph.loops = {}
        BY <2>1
    <2>3. CASE \E s \in frontier : Discard(s) \/ Expand(s)
        BY <2>2, <2>3, DiscardForgetsNothing, ExpandForgetsNothing
    <2>4. CASE \E way \in options : TakeEdge(way) \/ RepeatLoop(way)
        BY <2>2, <2>4, TakeEdgeForgetsNothing, NoJump
    <2>5. CASE Finish
        BY <2>2, <2>5, FinishForgetsNothing
    <2>6. CASE Cancel \/ UNCHANGED vars
        BY <2>2, <2>6, NothingElseForgets
    <2> QED BY <2>3, <2>4, <2>5, <2>6 DEF Next
<1>3. Inv => (graph.loops = {} /\ Answered
                    /\ result.status \in {"state_infeasible", "no_static_route"}
                => Unreached(graph))
    BY DEF SearchInv, NegativeIsProved
<1> QED BY <1>1, <1>2, <1>3, PTL DEF Spec

(* The plays stay within the horizon, so that nothing is cut off.          *)
WithinHorizon(g) == \E D \in SUBSET (Nodes \X Values) : Encloses(g, D)

(* Then what an enclosure keeps out Reachable keeps out.                   *)
LEMMA UnreachedIsUnreachable ==
    ASSUME NEW g, IsGraph(g), Unreached(g), WithinHorizon(g)
    PROVE  ~RouteExists(g)
<1>1. PICK C : Encloses(g, C) /\ \A p \in C : p[1] # Target
    BY DEF Unreached
<1>2. PICK D \in SUBSET (Nodes \X Values) : Encloses(g, D)
    BY DEF WithinHorizon
<1>3. PICK B : B = C \cap D
    OBVIOUS
<1>4. \A n, w : <<n, w>> \in D => Cut(w) = w
    <2>1. \A w \in Values : Cut(w) = w
        BY GraphAssumption DEF Values, Cut
    <2> QED BY <1>2, <2>1
<1>5. B \in SUBSET (Nodes \X Int)
    BY <1>1, <1>3 DEF Encloses
<1>6. \A w \in Effects(g.arrive[Root], StartValues(g)) : <<Root, Cut(w)>> \in B
    BY <1>1, <1>2, <1>3, <1>4 DEF Encloses
<1>7. ASSUME NEW e \in Edges(g), NEW w \in Int, <<g.edges[e].src, w>> \in B,
             NEW y \in Over(g, e, {w})
      PROVE  <<g.edges[e].dst, Cut(y)>> \in B
    <2>1. <<g.edges[e].dst, y>> \in C /\ <<g.edges[e].dst, y>> \in D
        BY <1>1, <1>2, <1>3, <1>7 DEF Encloses
    <2> QED BY <1>3, <1>4, <2>1
<1>8. Reachable(g) \subseteq B
    BY <1>5, <1>6, <1>7, ReachableWithin DEF CutEncloses
<1> QED BY <1>1, <1>3, <1>8 DEF RouteExists

(* The property the runs check, of stories whose values stay within the    *)
(* horizon: Reachable cuts values off there, and is exact as long as it    *)
(* does not have to.                                                       *)
THEOREM NegativeIsTrueWithinTheHorizon ==
    Spec => [](graph.loops = {} /\ WithinHorizon(graph) => NegativeIsTrue)
<1>1. Init => GraphIsAsked
    BY DEF Init, GraphIsAsked
<1>2. GraphIsAsked /\ [Next]_vars => GraphIsAsked'
    BY DEF Next, Discard, Expand, TakeEdge, RepeatLoop, Blocked, Advance, Finish, Cancel,
           vars, request, GraphIsAsked
<1>3. GraphIsAsked /\ (graph.loops = {} /\ Answered
                            /\ result.status \in {"state_infeasible", "no_static_route"}
                        => Unreached(graph))
        => (graph.loops = {} /\ WithinHorizon(graph) => NegativeIsTrue)
    BY AskedGraph, UnreachedIsUnreachable DEF NegativeIsTrue
<1> QED BY <1>1, <1>2, <1>3, NegativeAnswersAreTrue, PTL DEF Spec
=============================================================================
