-------------------------------- MODULE HttpApi --------------------------------
(***************************************************************************)
(* One API process as its clients see it: the lifespan decides what its    *)
(* routes answer, the request boundary what reaches them.  A route is      *)
(* synchronous once the body is there, so each answer is one step.         *)
(***************************************************************************)
EXTENDS RequestBoundary, Startup

VARIABLES
    route,    \* the route of the request in progress
    answered  \* the codes of Telling given since the process serves

apiVars == <<vars, startupVars, route, answered>>

Routes == {"live", "ready", "create", "list", "get"}

\* The answers that tell a client what the process is able to do.
Telling == {"READY", "NOT_READY", "ACCEPTED", "DATABASE_NOT_READY", "ARTIFACTS_NOT_READY"}

ApiInit ==
    /\ Init
    /\ StartupInit
    /\ route = "live"
    /\ answered = {}
-----------------------------------------------------------------------------
\* create_analysis after the validation of its body.
Created ==
    IF ~database THEN {"DATABASE_NOT_READY"}
    ELSE IF encoder = NoModel THEN {"ARTIFACTS_NOT_READY"}
    ELSE {"ACCEPTED", "CAPACITY_EXCEEDED"}

\* What ready looks at.
AllReady == \A check \in DOMAIN checks : checks[check]

\* The codes a route may answer.
Codes ==
    CASE route = "live" -> {"OK"}
      [] route = "ready" -> IF AllReady THEN {"READY"} ELSE {"NOT_READY"}
      [] route = "create" -> Created \cup {"VALIDATION_ERROR"}
      [] route = "list" -> IF database THEN {"OK", "INVALID_CURSOR"} ELSE {"DATABASE_NOT_READY"}
      [] route = "get" -> IF database THEN {"OK", "ANALYSIS_NOT_FOUND"} ELSE {"DATABASE_NOT_READY"}

\* The routes that reach the database, where an operation may fail.
Querying ==
    database /\ (route \in {"list", "get"} \/ (route = "create" /\ encoder # NoModel))

BeginRequest ==
    /\ phase = "serving"
    /\ Begin
    /\ route' \in Routes
    /\ UNCHANGED <<startupVars, answered>>

Boundary ==
    /\ \/ \E n \in 0 .. MaxChunk, more \in BOOLEAN : Receive(n, more)
       \/ Disconnect
       \/ route = "create" /\ Replay
    /\ UNCHANGED <<startupVars, route, answered>>

\* Errors pass through error_response, which names the request; other answers do not.
Answer ==
    /\ route = "create" => delivered
    /\ \E code \in Codes :
          /\ Respond(code, IF code \in {"OK", "READY", "ACCEPTED"} THEN <<>> ELSE <<id>>)
          /\ answered' = answered \cup ({code} \cap Telling)
    /\ UNCHANGED <<startupVars, route>>

Fail ==
    /\ route = "create" => delivered
    /\ Querying
    /\ Raise
    /\ UNCHANGED <<startupVars, route, answered>>

\* The server finishes the request in progress before it shuts down.
Lifespan ==
    /\ StartupNext
    /\ phase = "serving" /\ phase' = "down" => pc \in {"idle", "done"}
    /\ answered' = IF phase' = "down" THEN {} ELSE answered
    /\ UNCHANGED <<vars, route>>

ApiNext == BeginRequest \/ Boundary \/ Answer \/ Fail \/ Lifespan

ApiSpec == ApiInit /\ [][ApiNext]_apiVars
-----------------------------------------------------------------------------
\* Readiness predicts acceptance: after READY no analysis is refused for want of the database
\* or the evidence as long as the process lives, after NOT_READY none is accepted, although
\* the two routes look at different parts of app.state (ready, create_analysis).
ReadinessPredicts ==
    /\ "READY" \in answered =>
           answered \cap {"NOT_READY", "DATABASE_NOT_READY", "ARTIFACTS_NOT_READY"} = {}
    /\ "NOT_READY" \in answered => "ACCEPTED" \notin answered

\* README: the identity of the model is validated before analyses are accepted.  It is, for
\* a manifest that carries the fingerprint and a directory nobody replaces between the
\* fingerprint and the loading (initialize_retrieval).
AcceptsVerifiedModelOnly ==
    "ACCEPTED" \in answered =>
        database /\ (fingerprint # Unhashed /\ steady => encoder = fingerprint)
=============================================================================
