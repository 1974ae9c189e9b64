---------------------------- MODULE MCTabLifecycle ----------------------------
(* A model-checking instance of TabLifecycle. *)
EXTENDS TabLifecycle, TLC

\* Tabs are interchangeable, and so are callers.
TabSymmetry == Permutations(Tabs) \cup Permutations(Callers)
===============================================================================
