-------------------------- MODULE MCWeightLearning --------------------------
(***************************************************************************)
(* Two bars of horizon.  The store holds two trials that may train before  *)
(* the cutoff 5, one whose truth comes with it, and two to hold out; a     *)
(* rerun of a trial is saved while learners work.                          *)
(***************************************************************************)
EXTENDS WeightLearning, TLC

Trial(t, g, r) == [time |-> t, generation |-> g, run |-> r]

MCOld == {Trial(1, 0, 1), Trial(2, 0, 1), Trial(3, 0, 1), Trial(5, 0, 1), Trial(7, 0, 1)}
MCEpisodes == MCOld \cup {Trial(1, 0, 2)}

Symmetry == Permutations(Learners) \cup Permutations(Savers)
=============================================================================
