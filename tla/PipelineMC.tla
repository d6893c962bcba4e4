------------------------------ MODULE PipelineMC ------------------------------
(* Small instances of Pipeline for TLC; the cfg files give the constants. *)
EXTENDS Pipeline, TLC

\* Historical failures are interchangeable: no action and no property names one.
Symmetry == Permutations(Cases)
=============================================================================
