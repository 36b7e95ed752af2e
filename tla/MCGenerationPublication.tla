---------------------- MODULE MCGenerationPublication ----------------------
(* Constant values for model-checking GenerationPublication.               *)
EXTENDS GenerationPublication, TLC

CONSTANTS p1, p2

Twins == Permutations({p1, p2})
=============================================================================
