-------------------------------- MODULE Startup --------------------------------
(***************************************************************************)
(* The lifespan of an API process: the database, the artifacts, the        *)
(* identity of the embedding model and the encoder, in this order, and     *)
(* what it leaves in app.state for the routes.  Whoever administers the    *)
(* model directory may replace it at any time; the process reads it twice, *)
(* once for its fingerprint and once to load it.                           *)
(***************************************************************************)
EXTENDS Integers

CONSTANT Models  \* the models the directory may hold, by the fingerprint of their files

ASSUME StartupAssumption == Models \subseteq Nat \ {0}

VARIABLES
    phase,       \* how far the lifespan is
    database,    \* app.state.database_ready
    fingerprint, \* the fingerprint in the manifest of the loaded artifacts
    encoder,     \* the model of app.state.retrieval_service
    checks,      \* app.state.readiness_checks
    modelDir,    \* the model in EMBEDDING_MODEL_PATH_OR_ID
    steady       \* the directory did not change between its fingerprint and its loading

startupVars == <<phase, database, fingerprint, encoder, checks, modelDir, steady>>

NoModel == 0     \* no encoder; a directory that is not configured or cannot be read
Unhashed == -1   \* a manifest without local_sha256

\* Slip: the checks are filled in without looking at the database.
ChecksForgettingDatabase(artifacts, model) ==
    [database |-> TRUE, artifacts |-> artifacts, embedding_model |-> model]

Checks(artifacts, model) ==
    [database |-> database, artifacts |-> artifacts, embedding_model |-> model]
NoChecks == [database |-> FALSE, artifacts |-> FALSE, embedding_model |-> FALSE]

StartupInit ==
    /\ phase = "down"
    /\ database = FALSE
    /\ fingerprint = NoModel /\ encoder = NoModel
    /\ checks = NoChecks
    /\ modelDir \in Models
    /\ steady = FALSE

ReplaceModel ==
    /\ modelDir' \in (Models \cup {NoModel}) \ {modelDir}
    /\ steady' = (steady /\ phase # "loading")
    /\ UNCHANGED <<phase, database, fingerprint, encoder, checks>>

\* The version of the schema and the reconciliation; any error leaves the process not ready.
CheckDatabase ==
    /\ phase = "down"
    /\ database' \in BOOLEAN
    /\ phase' = "artifacts"
    /\ UNCHANGED <<fingerprint, encoder, checks, modelDir, steady>>

\* load_data_artifacts succeeds, raises ArtifactValidationError, or raises something the
\* lifespan does not catch, which ends the process.
LoadArtifacts ==
    /\ phase = "artifacts"
    /\ \/ /\ fingerprint' \in Models \cup {Unhashed}
          /\ phase' = "identity"
          /\ UNCHANGED <<database, checks>>
       \/ /\ checks' = Checks(FALSE, FALSE)
          /\ phase' = "serving"
          /\ UNCHANGED <<database, fingerprint>>
       \/ /\ database' = FALSE
          /\ phase' = "down"
          /\ UNCHANGED <<fingerprint, checks>>
    /\ UNCHANGED <<encoder, modelDir, steady>>

\* A RetrievalError: the artifacts were in order, the model is not.
ModelNotReady ==
    /\ checks' = Checks(TRUE, FALSE)
    /\ fingerprint' = NoModel
    /\ phase' = "serving"

\* Slip: the fingerprint is computed and not compared.
IdentifiedAny == modelDir # NoModel

\* local_model_fingerprint, if the manifest has one to compare with.
Identified == fingerprint = Unhashed \/ modelDir = fingerprint

VerifyModel ==
    /\ phase = "identity"
    /\ \/ /\ Identified
          /\ phase' = "loading"
          /\ steady' = TRUE
          /\ UNCHANGED <<checks, fingerprint>>
       \/ /\ ~Identified
          /\ ModelNotReady
          /\ UNCHANGED steady
    /\ UNCHANGED <<database, encoder, modelDir>>

\* The encoder is loaded from the directory as it is now; RetrievalService refuses it when
\* its dimension is not that of the artifacts.
LoadEncoder ==
    /\ phase = "loading"
    /\ \/ /\ modelDir # NoModel
          /\ encoder' = modelDir
          /\ checks' = Checks(TRUE, TRUE)
          /\ phase' = "serving"
          /\ UNCHANGED fingerprint
       \/ ModelNotReady /\ UNCHANGED encoder
    /\ UNCHANGED <<database, modelDir, steady>>

\* The part of the lifespan after its yield, or a kill.
Shutdown ==
    /\ phase = "serving"
    /\ phase' = "down"
    /\ database' = FALSE
    /\ fingerprint' = NoModel /\ encoder' = NoModel
    /\ checks' = NoChecks
    /\ UNCHANGED <<modelDir, steady>>

StartupNext ==
    \/ ReplaceModel \/ CheckDatabase \/ LoadArtifacts
    \/ VerifyModel \/ LoadEncoder \/ Shutdown
-----------------------------------------------------------------------------
\* The values the state can take.
StartupTypeOK ==
    /\ phase \in {"down", "artifacts", "identity", "loading", "serving"}
    /\ database \in BOOLEAN
    /\ fingerprint \in Models \cup {NoModel, Unhashed}
    /\ encoder \in Models \cup {NoModel}
    /\ checks \in [database : BOOLEAN, artifacts : BOOLEAN, embedding_model : BOOLEAN]
    /\ modelDir \in Models \cup {NoModel}
    /\ steady \in BOOLEAN
=============================================================================
