------------------------- MODULE MCStoryMapWorkflow -------------------------
(* Constant values for model-checking StoryMapWorkflow.                    *)
EXTENDS StoryMapWorkflow, TLC

CONSTANTS r1, w1, w2, cloud1, cloud2, cloud3, cloud4, local1, good, dubious

\* Workers are interchangeable: sound for invariants, not used for liveness.
WorkerSymmetry == Permutations(Tokens)

OneRun == [j \in Jobs |-> r1]
WorkersOfOne == [w \in Tokens |-> r1]
CloudKeys == [j \in Jobs |-> <<cloud1, cloud2, cloud3, cloud4>>[j]]
\* Only job 1 is ever explored with the fallback allowed.
LocalKeys == [j \in Jobs |-> local1]
\* The first derived job is a section, the second the rollup.
SectionDerived == [j \in Derived |-> IF \E i \in Derived : i < j THEN "rollup_synthesis"
                                     ELSE "section_synthesis"]
OneOfEach == [kind \in Kinds |-> 1]
TwoMappings == [kind \in Kinds |-> IF kind = "mapping" THEN 2 ELSE 1]
\* Never reached: each attempt beyond mapping, continuation and retry costs a fault.
EnoughAttempts == [j \in Jobs |-> 3 + MaxFaults]
=============================================================================
