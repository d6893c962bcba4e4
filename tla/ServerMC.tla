------------------------------- MODULE ServerMC -------------------------------
(***************************************************************************)
(* Small instances for TLC of a server process from its start on: what it  *)
(* reads of the artifacts, and what the start-up makes the routes answer.  *)
(* LoadArtifacts may end in every way, whatever files there are, so a      *)
(* behaviour follows either the files or the API; the cfg gives the other  *)
(* constants.                                                              *)
(***************************************************************************)
EXTENDS Artifacts, HttpApi

\* The second edition has a case without a company: its text is not empty, its document is
\* refused.
EmptyCompany == {<<2, "failure_documents">>}

ServerInit == ArtifactsInit /\ ApiInit

\* The files are followed beside one of the models only.
ServerNext ==
    \/ ArtifactsNext /\ ApiInit /\ modelDir = 1 /\ UNCHANGED apiVars
    \/ ApiNext /\ ArtifactsInit /\ UNCHANGED artifactsVars

ServerSpec == ServerInit /\ [][ServerNext]_<<artifactsVars, apiVars>>
=============================================================================
