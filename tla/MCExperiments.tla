---------------------------- MODULE MCExperiments ----------------------------
(***************************************************************************)
(* Experiments at two evaluation times, one warmup bar and a horizon of    *)
(* one bar, so that three bars decide every context and every outcome.     *)
(***************************************************************************)
EXTENDS Experiments, TLC

Symmetry == Permutations(Callers) \cup Permutations(Contexts)
=============================================================================
