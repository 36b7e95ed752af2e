------------------------ MODULE MCStoryMapRepository ------------------------
(* Constant values for model-checking StoryMapRepositorySpec.              *)
EXTENDS StoryMapRepositorySpec, TLC

CONSTANTS r1, r2, w1, k1, a1, a2

ResultSymmetry == Permutations(Results)

OneRun == [j \in Jobs |-> r1]
RunEach == [j \in Jobs |-> IF j = 1 THEN r1 ELSE r2]
OneKey == [j \in Jobs |-> k1]

MappingOnly == [kind \in Kinds |-> IF kind = "mapping" THEN 1 ELSE 0]
WithReview ==
    [kind \in Kinds |-> IF kind \in {"mapping", "replacement_review"} THEN 1 ELSE 0]

\* Bounds on the attempts of each job.
ThreeAttempts == [j \in Jobs |-> 3]
OneThenNone == [j \in Jobs |-> IF j = 1 THEN 1 ELSE 0]
TwoThenNone == [j \in Jobs |-> IF j = 1 THEN 2 ELSE 0]
=============================================================================
