---------------------------- MODULE JobServiceMC ----------------------------
(* Small instances of JobService for TLC; the cfg files give the constants. *)
EXTENDS JobService, TLC

\* Ids are interchangeable, and so are processes: no action and no safety
\* property names one of them.
JobSymmetry == Permutations(Jobs)
Symmetry == Permutations(Jobs) \cup Permutations(Processes)
=============================================================================
