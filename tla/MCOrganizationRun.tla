------------------------- MODULE MCOrganizationRun -------------------------
(* Constant values for model-checking OrganizationRun.                     *)
EXTENDS OrganizationRun, TLC

CONSTANTS g1, g2, id1, id2, id3, text1

\* The second generation changes the first scope only.
TwoIdentities == [g \in {g1, g2} |-> [s \in Scopes |-> (IF g = g1 THEN <<id1, id2>> ELSE <<id3, id2>>)[s]]]
\* Exchanging the generations exchanges the two identities of the first scope.
GenerationSymmetry == {(g1 :> g2) @@ (g2 :> g1) @@ (id1 :> id3) @@ (id3 :> id1)}
\* Nothing reported; and: nothing, a malformed count, a count over the ceiling.
NoReports == {Unreported}
AllReports == {Unreported, Negative, 3}
OnePart == [s \in Scopes |-> 1]
SplitFirst == [s \in Scopes |-> IF s = 1 THEN 2 ELSE 1]
=============================================================================
