-------------------------- MODULE RetrievalThreadsMC --------------------------
(* A small instance of RetrievalThreads for TLC; the cfg gives the constants. *)
EXTENDS RetrievalThreads
=============================================================================
