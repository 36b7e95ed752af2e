--------------------------- MODULE MCNarrativeRun ---------------------------
(* Constant values for model-checking NarrativeRun.                        *)
EXTENDS NarrativeRun

CONSTANTS s1, s2, g1, g2

AllScenes == [g \in Segments |-> Scenes]
EachScene == [g \in Segments |-> IF g = g1 THEN {s1} ELSE {s2}]
StoryOrder ==
    [unit \in Scenes \cup Segments |->
        CASE unit = s1 -> 1 [] unit = s2 -> 2 [] unit = g1 -> 3 [] OTHER -> 4]
=============================================================================
