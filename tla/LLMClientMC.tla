----------------------------- MODULE LLMClientMC -----------------------------
(* A small instance of LLMClient for TLC; the cfg gives the constants. *)
EXTENDS LLMClient
=============================================================================
