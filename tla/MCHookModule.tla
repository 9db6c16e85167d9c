---------------------------- MODULE MCHookModule -----------------------------
(* Symmetry for model checking HookModule, and its mutants. *)
EXTENDS HookModule, TLC

Symmetry == Permutations(Firers) \cup Permutations(Hooks)
=============================================================================
