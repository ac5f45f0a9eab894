--------------------------- MODULE MCIntegration ---------------------------
(* Model-checking instance of Integration: reported values are             *)
(* interchangeable; the entities are not, one has a timer of its own.      *)
EXTENDS Integration, TLC

ValueSymmetry == Permutations(Values)
=============================================================================
