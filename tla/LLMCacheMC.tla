------------------------------ MODULE LLMCacheMC ------------------------------
(* Small instances of LLMCache for TLC; the cfg files give the constants. *)
EXTENDS LLMCache, TLC

\* Callers are interchangeable, and so are keys: no action and no property names one.
Symmetry == Permutations(Callers) \cup Permutations(Keys)

\* A session twelve hours west of UTC, at UTC and twelve hours east of it.
SessionZones == {-1, 0, 1}
SQLiteZone == {0}
=============================================================================
