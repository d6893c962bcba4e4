------------------------------ MODULE HttpApiProofs ------------------------------
(***************************************************************************)
(* What holds of every answer, for every size limit, every way to cut a    *)
(* body into chunks and every set of models the directory may hold.        *)
(***************************************************************************)
EXTENDS HttpApi, TLAPS

\* What has been sent to the client: nothing, or one answer that names the request, which is
\* a refusal only if the body or its declared length exceeds the limit.
Answered ==
    \/ responses = <<>>
    \/ /\ pc = "done"
       /\ \E c \in AnswerCodes :
             /\ responses = <<Response(c, <<id>>)>>
             /\ c = "REQUEST_TOO_LARGE" => declared > MaxBytes \/ sent > MaxBytes

\* The boundary keeps all that was sent, and stops at the message that exceeds the limit.
Kept ==
    /\ chunks = sent /\ chunks \in 0 .. MaxBytes + MaxChunk
    /\ pc = "receiving" => chunks <= MaxBytes /\ body = NotRead
    /\ pc = "app" => chunks <= MaxBytes /\ complete
    /\ body # NotRead => body = sent /\ complete

BoundaryInv == TypeOK /\ Answered /\ Kept

\* The checks of readiness are what the routes find in app.state; what the clients were told
\* is what it still is; and the loaded encoder is the model whose fingerprint was compared.
StateInv ==
    /\ phase # "serving" => encoder = NoModel /\ answered = {}
    /\ phase = "serving" =>
          /\ checks.database <=> database
          /\ checks.artifacts /\ checks.embedding_model <=> encoder # NoModel
    /\ phase = "loading" /\ fingerprint # Unhashed /\ steady => modelDir = fingerprint
    /\ encoder # NoModel /\ fingerprint # Unhashed /\ steady => encoder = fingerprint
    /\ "READY" \in answered => database /\ encoder # NoModel
    /\ "NOT_READY" \in answered => ~database \/ encoder = NoModel
    /\ "ACCEPTED" \in answered => database /\ encoder # NoModel
    /\ "DATABASE_NOT_READY" \in answered => ~database
    /\ "ARTIFACTS_NOT_READY" \in answered => encoder = NoModel

IInv == BoundaryInv /\ StartupTypeOK /\ route \in Routes /\ StateInv
-----------------------------------------------------------------------------
\* One answer makes the list of answers a list of one.
LEMMA FirstAnswer ==
    ASSUME NEW c \in AnswerCodes, NEW i \in RequestIds
    PROVE  /\ Append(<<>>, Response(c, <<i>>)) = <<Response(c, <<i>>)>>
           /\ <<Response(c, <<i>>)>> \in Seq([code : AnswerCodes, ids : Seq(RequestIds)])
BY DEF Response

LEMMA BeginStep ==
    ASSUME BoundaryInv, Begin
    PROVE  BoundaryInv'
<1> USE RequestBoundaryAssumption DEF BoundaryInv
<1>1. declared' \in Declared /\ id' \in RequestIds
  BY DEF Begin
<1>2. CASE ExceedsDeclared /\ RefuseBody(id')
  <2>1. pc' = "done" /\ responses' = <<Response("REQUEST_TOO_LARGE", <<id'>>)>>
    BY <1>2 DEF RefuseBody, WithId
  <2>2. TypeOK'
    <3>1. responses' \in Seq([code : AnswerCodes, ids : Seq(RequestIds)])
      BY <1>1, <2>1, FirstAnswer DEF AnswerCodes
    <3> QED
      BY <1>1, <2>1, <3>1 DEF Begin, TypeOK
  <2>3. Answered'
    BY <1>2, <2>1 DEF Answered, ExceedsDeclared, AnswerCodes
  <2>4. Kept'
    BY <2>1 DEF Begin, Kept, NotRead
  <2> QED
    BY <2>2, <2>3, <2>4
<1>3. CASE pc' = "receiving" /\ responses' = <<>>
  <2>1. TypeOK'
    <3>1. responses' \in Seq([code : AnswerCodes, ids : Seq(RequestIds)])
      BY <1>3
    <3> QED
      BY <1>1, <1>3, <3>1 DEF Begin, TypeOK
  <2>2. Answered'
    BY <1>3 DEF Answered
  <2>3. Kept'
    BY <1>3 DEF Begin, Kept, NotRead
  <2> QED
    BY <2>1, <2>2, <2>3
<1> QED
  BY <1>2, <1>3 DEF Begin

LEMMA ReceiveStep ==
    ASSUME BoundaryInv, NEW n \in 0 .. MaxChunk, NEW more \in BOOLEAN, Receive(n, more)
    PROVE  BoundaryInv'
<1> USE RequestBoundaryAssumption DEF BoundaryInv
<1>1. responses = <<>> /\ sent' = chunks + n /\ chunks' = chunks + n
  BY DEF Receive, Answered, Kept
<1>0. complete' \in BOOLEAN
  <2>1. complete' = ~more
    BY Zenon DEF Receive
  <2> QED
    BY <2>1, Zenon
<1>2. CASE Exceeds(n) /\ RefuseBody(id)
  <2>1. pc' = "done" /\ responses' = <<Response("REQUEST_TOO_LARGE", <<id>>)>> /\ id' = id
    BY <1>2 DEF RefuseBody, WithId, Receive
  <2>2. TypeOK'
    <3>1. responses' \in Seq([code : AnswerCodes, ids : Seq(RequestIds)])
      BY <2>1, FirstAnswer DEF AnswerCodes, TypeOK
    <3> QED
      BY <1>0, <1>1, <2>1, <3>1 DEF Receive, TypeOK, Kept
  <2>3. Answered'
    BY <1>1, <1>2, <2>1 DEF Answered, Exceeds, AnswerCodes
  <2>4. Kept'
    BY <1>1, <2>1 DEF Receive, Kept, TypeOK
  <2> QED
    BY <2>2, <2>3, <2>4
<1>3. CASE ~Exceeds(n) /\ pc' = (IF more THEN "receiving" ELSE "app") /\ UNCHANGED responses
  <2>1. TypeOK'
    <3>1. responses' \in Seq([code : AnswerCodes, ids : Seq(RequestIds)])
      BY <1>3 DEF TypeOK
    <3>2. pc' \in {"idle", "receiving", "app", "done"}
      BY <1>3
    <3> QED
      BY <1>0, <1>1, <3>1, <3>2 DEF Receive, TypeOK, Kept
  <2>2. Answered'
    BY <1>1, <1>3 DEF Answered
  <2>3. pc' = "app" => complete'
    <3>1. more => pc' # "app"
      BY <1>3
    <3>2. ~more => complete'
      BY Zenon DEF Receive
    <3> QED
      BY <3>1, <3>2, Zenon
  <2>4. Kept'
    BY <1>1, <1>3, <2>3 DEF Receive, Kept, Exceeds, TypeOK
  <2> QED
    BY <2>1, <2>2, <2>4
<1> QED
  BY <1>2, <1>3 DEF Receive

\* Neither the end of the connection nor the hand-over answers anything.
LEMMA UnansweredStep ==
    ASSUME BoundaryInv, Disconnect \/ Replay
    PROVE  BoundaryInv'
BY DEF BoundaryInv, Disconnect, Replay, TypeOK, Answered, Kept

\* The application answers once; the limit is not among what it answers.
LEMMA AnswerStep ==
    ASSUME BoundaryInv, NEW c \in AnswerCodes, c # "REQUEST_TOO_LARGE",
           pc = "app", pc' = "done", responses' = Append(responses, Response(c, <<id>>)),
           UNCHANGED <<declared, id, sent, complete, chunks, delivered, body>>
    PROVE  BoundaryInv'
<1> USE DEF BoundaryInv
<1>1. responses' = <<Response(c, <<id>>)>>
  BY FirstAnswer DEF Answered, TypeOK
<1>2. TypeOK'
  BY <1>1, FirstAnswer DEF TypeOK
<1>3. Answered'
  BY <1>1 DEF Answered
<1>4. Kept'
  BY DEF Kept
<1> QED
  BY <1>2, <1>3, <1>4

\* What a route answers.
LEMMA CodesNotRefusal ==
    ASSUME route \in Routes, NEW c \in Codes
    PROVE  c \in AnswerCodes /\ c # "REQUEST_TOO_LARGE"
BY DEF Routes, Codes, Created, AnswerCodes

LEMMA BoundaryStep ==
    ASSUME BoundaryInv, route \in Routes, ApiNext
    PROVE  BoundaryInv' /\ route' \in Routes
<1>1. CASE BeginRequest
  BY <1>1, BeginStep DEF BeginRequest
<1>2. CASE Boundary
  BY <1>2, ReceiveStep, UnansweredStep DEF Boundary
<1>3. CASE Answer
  <2>1. PICK c \in Codes :
           Respond(c, IF c \in {"OK", "READY", "ACCEPTED"} THEN <<>> ELSE <<id>>)
    BY <1>3 DEF Answer
  <2>2. BoundaryInv'
    BY <2>1, CodesNotRefusal, AnswerStep DEF Respond, WithId
  <2> QED
    BY <1>3, <2>2 DEF Answer
<1>4. CASE Fail
  BY <1>4, AnswerStep DEF Fail, Raise, AnswerCodes
<1>5. CASE Lifespan
  BY <1>5 DEF Lifespan, vars, BoundaryInv, TypeOK, Answered, Kept
<1> QED
  BY <1>1, <1>2, <1>3, <1>4, <1>5 DEF ApiNext
-----------------------------------------------------------------------------
LEMMA CheckFields ==
    ASSUME NEW a \in BOOLEAN, NEW m \in BOOLEAN, database \in BOOLEAN
    PROVE  /\ Checks(a, m) \in [database : BOOLEAN, artifacts : BOOLEAN,
                                embedding_model : BOOLEAN]
           /\ Checks(a, m).database <=> database
           /\ Checks(a, m).artifacts <=> a
           /\ Checks(a, m).embedding_model <=> m
BY DEF Checks

\* A model that is not ready leaves the artifacts in order and no encoder.
LEMMA NotReadyStep ==
    ASSUME StartupTypeOK, StateInv, phase # "serving", ModelNotReady,
           answered' = answered, UNCHANGED <<database, encoder, modelDir>>,
           steady' \in BOOLEAN
    PROVE  StartupTypeOK' /\ StateInv'
<1>1. checks' = Checks(TRUE, FALSE) /\ fingerprint' = NoModel /\ phase' = "serving"
  BY DEF ModelNotReady
<1>2. StartupTypeOK'
  BY <1>1, CheckFields DEF StartupTypeOK
<1>3. /\ checks'.database <=> database'
      /\ checks'.artifacts /\ checks'.embedding_model <=> encoder' # NoModel
  BY <1>1, CheckFields DEF StartupTypeOK, StateInv
<1>4. StateInv'
  BY <1>1, <1>3 DEF StateInv
<1> QED
  BY <1>2, <1>4

LEMMA LifespanStep ==
    ASSUME StartupTypeOK, StateInv, Lifespan
    PROVE  StartupTypeOK' /\ StateInv'
<1> USE StartupAssumption DEF NoModel, Unhashed
<1>0. answered' = IF phase' = "down" THEN {} ELSE answered
  BY DEF Lifespan
<1>1. CASE ReplaceModel
  <2>1. /\ steady' \in BOOLEAN
        /\ steady' => steady /\ phase # "loading"
    <3>1. steady' = (steady /\ phase # "loading")
      BY <1>1 DEF ReplaceModel
    <3> QED
      BY <3>1, Zenon
  <2>2. modelDir' \in Models \cup {NoModel} /\ UNCHANGED <<phase, database, fingerprint, encoder, checks>>
    BY <1>1 DEF ReplaceModel
  <2>3. StartupTypeOK'
    BY <2>1, <2>2 DEF StartupTypeOK
  <2>4. answered' = answered
    BY <1>0, <2>2 DEF StateInv
  <2>5. StateInv'
    BY <2>1, <2>2, <2>4 DEF StateInv
  <2> QED
    BY <2>3, <2>5
<1>2. CASE CheckDatabase
  BY <1>0, <1>2 DEF CheckDatabase, StateInv, StartupTypeOK
<1>3. CASE LoadArtifacts
  <2>1. encoder = NoModel /\ answered = {} /\ answered' = {}
    BY <1>0, <1>3 DEF LoadArtifacts, StateInv
  <2>2. UNCHANGED <<encoder, modelDir, steady>>
    BY <1>3 DEF LoadArtifacts
  <2>3. CASE fingerprint' \in Models \cup {Unhashed} /\ phase' = "identity"
              /\ UNCHANGED <<database, checks>>
    BY <2>1, <2>2, <2>3 DEF StartupTypeOK, StateInv
  <2>4. CASE checks' = Checks(FALSE, FALSE) /\ phase' = "serving"
              /\ UNCHANGED <<database, fingerprint>>
    <3>1. StartupTypeOK'
      BY <2>2, <2>4, CheckFields DEF StartupTypeOK
    <3>2. (checks'.database <=> database') /\ ~checks'.embedding_model
      BY <2>4, CheckFields DEF StartupTypeOK
    <3>3. StateInv'
      BY <2>1, <2>2, <2>4, <3>2 DEF StateInv
    <3> QED
      BY <3>1, <3>3
  <2>5. CASE database' = FALSE /\ phase' = "down" /\ UNCHANGED <<fingerprint, checks>>
    BY <2>1, <2>2, <2>5 DEF StartupTypeOK, StateInv
  <2> QED
    BY <1>3, <2>3, <2>4, <2>5, Zenon DEF LoadArtifacts
<1>4. CASE VerifyModel
  <2>1. encoder = NoModel /\ answered = {} /\ answered' = {}
    BY <1>0, <1>4 DEF VerifyModel, StateInv
  <2>2. UNCHANGED <<database, encoder, modelDir>> /\ phase = "identity"
    BY <1>4 DEF VerifyModel
  <2>3. CASE Identified /\ phase' = "loading" /\ steady' = TRUE /\ UNCHANGED <<checks, fingerprint>>
    BY <2>1, <2>2, <2>3 DEF StartupTypeOK, StateInv, Identified
  <2>4. CASE ModelNotReady /\ UNCHANGED steady
    <3>1. steady' \in BOOLEAN
      BY <2>4 DEF StartupTypeOK
    <3> QED
      BY <2>1, <2>2, <2>4, <3>1, NotReadyStep
  <2> QED
    BY <1>4, <2>3, <2>4 DEF VerifyModel
<1>5. CASE LoadEncoder
  <2>1. encoder = NoModel /\ answered = {} /\ answered' = {}
    BY <1>0, <1>5 DEF LoadEncoder, StateInv
  <2>2. UNCHANGED <<database, modelDir, steady>> /\ phase = "loading"
    BY <1>5 DEF LoadEncoder
  <2>3. CASE /\ modelDir # NoModel /\ encoder' = modelDir /\ checks' = Checks(TRUE, TRUE)
             /\ phase' = "serving" /\ UNCHANGED fingerprint
    <3>1. StartupTypeOK'
      BY <2>2, <2>3, CheckFields DEF StartupTypeOK
    <3>2. (checks'.database <=> database') /\ checks'.artifacts /\ checks'.embedding_model
      BY <2>2, <2>3, CheckFields DEF StartupTypeOK
    <3>3. StateInv'
      BY <2>1, <2>2, <2>3, <3>2 DEF StateInv
    <3> QED
      BY <3>1, <3>3
  <2>4. CASE ModelNotReady /\ UNCHANGED encoder
    <3>1. steady' \in BOOLEAN
      BY <2>2 DEF StartupTypeOK
    <3> QED
      BY <2>1, <2>2, <2>4, <3>1, NotReadyStep
  <2> QED
    BY <1>5, <2>3, <2>4 DEF LoadEncoder
<1>6. CASE Shutdown
  BY <1>0, <1>6 DEF Shutdown, StateInv, NoChecks, StartupTypeOK
<1> QED
  BY <1>1, <1>2, <1>3, <1>4, <1>5, <1>6 DEF Lifespan, StartupNext

\* The checks of readiness agree with what create_analysis looks at.
LEMMA ReadyIsAble ==
    ASSUME StartupTypeOK, StateInv, phase = "serving"
    PROVE  AllReady <=> database /\ encoder # NoModel
<1>1. DOMAIN checks = {"database", "artifacts", "embedding_model"}
  BY DEF StartupTypeOK
<1>2. AllReady <=> checks["database"] /\ checks["artifacts"] /\ checks["embedding_model"]
  BY <1>1 DEF AllReady
<1> QED
  BY <1>2 DEF StateInv

LEMMA ToldStep ==
    ASSUME StartupTypeOK, StateInv, route \in Routes, phase = "serving", Answer
    PROVE  StateInv'
<1>1. PICK c \in Codes : answered' = answered \cup ({c} \cap Telling)
  BY DEF Answer
<1>2. /\ c = "READY" => database /\ encoder # NoModel
      /\ c = "NOT_READY" => ~database \/ encoder = NoModel
      /\ c = "ACCEPTED" => database /\ encoder # NoModel
      /\ c = "DATABASE_NOT_READY" => ~database
      /\ c = "ARTIFACTS_NOT_READY" => encoder = NoModel
  BY <1>1, ReadyIsAble DEF Codes, Created, Routes
<1> QED
  BY <1>1, <1>2 DEF StateInv, Answer, startupVars

\* A request in progress finds its process serving.
InService == pc \in {"receiving", "app"} => phase = "serving"

LEMMA InServiceStep ==
    ASSUME BoundaryInv, InService, ApiNext
    PROVE  InService'
<1> USE DEF InService
<1>1. CASE BeginRequest
  BY <1>1 DEF BeginRequest, startupVars
<1>2. CASE Boundary
  BY <1>2 DEF Boundary, Receive, Disconnect, Replay, RefuseBody, startupVars
<1>3. CASE Answer \/ Fail
  BY <1>3 DEF Answer, Fail, Respond, Raise
<1>4. CASE Lifespan
  <2>1. UNCHANGED pc /\ (phase = "serving" /\ phase' = "down" => pc \in {"idle", "done"})
    BY <1>4 DEF Lifespan, vars
  <2>2. phase = "serving" => phase' \in {"serving", "down"}
    BY <1>4 DEF Lifespan, StartupNext, ReplaceModel, CheckDatabase, LoadArtifacts,
       VerifyModel, LoadEncoder, Shutdown
  <2> QED
    BY <2>1, <2>2
<1> QED
  BY <1>1, <1>2, <1>3, <1>4 DEF ApiNext

LEMMA ApiStep == IInv /\ InService /\ [ApiNext]_apiVars => (IInv /\ InService)'
<1> SUFFICES ASSUME IInv, InService, [ApiNext]_apiVars PROVE (IInv /\ InService)'
  OBVIOUS
<1> USE DEF IInv
<1>1. CASE UNCHANGED apiVars
  BY <1>1 DEF apiVars, vars, startupVars, BoundaryInv, TypeOK, Answered, Kept,
     StartupTypeOK, StateInv, InService
<1>2. CASE ApiNext
  <2>1. BoundaryInv' /\ route' \in Routes /\ InService'
    BY <1>2, BoundaryStep, InServiceStep
  <2>2. CASE BeginRequest \/ Boundary \/ Fail
    <3>1. UNCHANGED <<startupVars, answered>>
      BY <2>2 DEF BeginRequest, Boundary, Fail
    <3> QED
      BY <2>1, <3>1 DEF startupVars, StartupTypeOK, StateInv
  <2>3. CASE Answer
    <3>1. StateInv'
      BY <2>3, ToldStep DEF InService, Answer, Respond
    <3>2. StartupTypeOK'
      BY <2>3 DEF Answer, startupVars, StartupTypeOK
    <3> QED
      BY <2>1, <3>1, <3>2
  <2>4. CASE Lifespan
    BY <2>1, <2>4, LifespanStep
  <2> QED
    BY <1>2, <2>2, <2>3, <2>4 DEF ApiNext
<1> QED
  BY <1>1, <1>2

LEMMA ApiInvariance == ApiSpec => [](IInv /\ InService)
<1>1. ASSUME ApiInit PROVE IInv /\ InService
  <2> USE <1>1, RequestBoundaryAssumption, StartupAssumption DEF ApiInit, Init
  <2>1. TypeOK
    <3>1. responses \in Seq([code : AnswerCodes, ids : Seq(RequestIds)])
      OBVIOUS
    <3> QED
      BY <3>1 DEF TypeOK, RequestIds, Declared, NoLength
  <2>2. Answered /\ Kept
    BY DEF Answered, Kept, NotRead
  <2>3. StartupTypeOK
    BY DEF StartupInit, StartupTypeOK, NoModel, NoChecks
  <2>4. StateInv
    BY DEF StartupInit, StateInv, NoModel, NoChecks
  <2> QED
    BY <2>1, <2>2, <2>3, <2>4 DEF IInv, BoundaryInv, InService, Routes
<1> QED
  BY <1>1, ApiStep, PTL DEF ApiSpec
-----------------------------------------------------------------------------
\* Every state of the boundary and of the start-up is well typed.
THEOREM TypeCorrect == ApiSpec => [](TypeOK /\ StartupTypeOK)
<1>1. IInv => TypeOK /\ StartupTypeOK
  BY DEF IInv, BoundaryInv
<1> QED
  BY <1>1, ApiInvariance, PTL

\* No client makes the boundary keep more than the limit and one message.
THEOREM BufferNeverExceeds == ApiSpec => []BufferBounded
<1>1. IInv => BufferBounded
  BY RequestBoundaryAssumption DEF IInv, BoundaryInv, Kept, BufferBounded
<1> QED
  BY <1>1, ApiInvariance, PTL

\* No route ever runs with a part of a body, or with a body beyond the limit.
THEOREM WholeBodyOrNone == ApiSpec => []AppGetsWholeBody
<1>1. IInv => AppGetsWholeBody
  BY DEF IInv, BoundaryInv, Kept, AppGetsWholeBody
<1> QED
  BY <1>1, ApiInvariance, PTL

\* No body within the limit is refused.
THEOREM RefusalIsEarned == ApiSpec => []RefusedOnlyIfTooLarge
<1>1. IInv => RefusedOnlyIfTooLarge
  BY DEF IInv, BoundaryInv, Answered, RefusedOnlyIfTooLarge, Response
<1> QED
  BY <1>1, ApiInvariance, PTL

\* Every request gets at most one answer, and the answer its id.
THEOREM OneAnswer == ApiSpec => []AnsweredOnceWithItsId
<1>1. ASSUME IInv PROVE AnsweredOnceWithItsId
  <2>1. CASE responses = <<>>
    BY <2>1 DEF AnsweredOnceWithItsId
  <2>2. CASE \E c \in AnswerCodes : responses = <<Response(c, <<id>>)>>
    <3>1. Len(responses) = 1 /\ DOMAIN responses = {1} /\ responses[1].ids = <<id>>
      BY <2>2 DEF Response
    <3> QED
      BY <3>1 DEF AnsweredOnceWithItsId
  <2> QED
    BY <1>1, <2>1, <2>2 DEF IInv, BoundaryInv, Answered
<1> QED
  BY <1>1, ApiInvariance, PTL

\* What the readiness route says of a process stays true for as long as it serves.
THEOREM ReadinessIsTrue == ApiSpec => []ReadinessPredicts
<1>1. IInv => ReadinessPredicts
  BY DEF IInv, StateInv, ReadinessPredicts
<1> QED
  BY <1>1, ApiInvariance, PTL

\* No analysis is accepted with a model that was not identified, while nobody replaces it.
THEOREM ModelIsVerified == ApiSpec => []AcceptsVerifiedModelOnly
<1>1. IInv => AcceptsVerifiedModelOnly
  BY DEF IInv, StateInv, AcceptsVerifiedModelOnly
<1> QED
  BY <1>1, ApiInvariance, PTL
=============================================================================
