---------------------------- MODULE RequestBoundary ----------------------------
(***************************************************************************)
(* The ASGI middleware in front of every route.  It collects the body of a *)
(* request, whatever Content-Length says and however the body is cut into  *)
(* chunks, refuses it at the size limit, and hands it to the application   *)
(* as one message.  Of a body only the number of bytes remains.  A client  *)
(* may stop, disconnect or go on at any time; one request follows another. *)
(***************************************************************************)
EXTENDS Integers, Sequences

CONSTANTS
    MaxBytes,  \* RequestBoundary.max_bytes
    MaxChunk   \* bound: the bytes the server delivers in one message

ASSUME RequestBoundaryAssumption == MaxBytes \in Nat /\ MaxChunk \in Nat

VARIABLES
    pc,         \* where the middleware is in its request
    declared,   \* the Content-Length the request carries
    id,         \* the request id
    sent,       \* the bytes of the body the client has sent so far
    complete,   \* the client has sent the whole body
    chunks,     \* the bytes the middleware keeps
    delivered,  \* replay has handed them over
    body,       \* the bytes the application has received, NotRead before
    responses   \* what was sent to the client

vars == <<pc, declared, id, sent, complete, chunks, delivered, body, responses>>

\* A header that is absent counts as 0; one that is no number is ignored.
NoLength == 0
Declared == {NoLength} \cup 1 .. MaxBytes + 1
NotRead == -1

\* An id of the client that has the right form is kept, any other replaced by a new one.
RequestIds == {"client", "generated"}

\* What an answer is: a success of one of the routes, or the code of an ErrorResponse.
AnswerCodes == {"OK", "READY", "NOT_READY", "ACCEPTED", "REQUEST_TOO_LARGE",
                "INTERNAL_SERVER_ERROR", "VALIDATION_ERROR", "DATABASE_NOT_READY",
                "ARTIFACTS_NOT_READY", "CAPACITY_EXCEEDED", "INVALID_CURSOR",
                "ANALYSIS_NOT_FOUND"}

Init ==
    /\ pc = "idle"
    /\ declared = NoLength
    /\ id = "generated"
    /\ sent = 0 /\ complete = FALSE
    /\ chunks = 0 /\ delivered = FALSE
    /\ body = NotRead
    /\ responses = <<>>
-----------------------------------------------------------------------------
\* Slip: an id the application has set stays beside the one of the boundary.
IdAdded(ids, own) == Append(ids, own)

\* send_with_id removes every x-request-id from the headers and adds the boundary's own.
WithId(ids, own) == <<own>>

Response(code, ids) == [code |-> code, ids |-> ids]
RefuseBody(own) ==
    /\ pc' = "done"
    /\ responses' = <<Response("REQUEST_TOO_LARGE", WithId(<<>>, own))>>

\* Slip: a declared length at the limit is refused.
ExceedsDeclaredAtLimit == declared' >= MaxBytes

ExceedsDeclared == declared' > MaxBytes

Begin ==
    /\ pc \in {"idle", "done"}
    /\ declared' \in Declared
    /\ id' \in RequestIds
    /\ sent' = 0 /\ complete' = FALSE
    /\ chunks' = 0 /\ delivered' = FALSE
    /\ body' = NotRead
    /\ \/ ExceedsDeclared /\ RefuseBody(id')
       \/ ~ExceedsDeclared /\ pc' = "receiving" /\ responses' = <<>>

\* Slip: the chunk is measured, not what has been collected.
ExceedsInChunk(n) == n > MaxBytes

\* chunks already holds the message.
Exceeds(n) == chunks + n > MaxBytes

\* The server delivers n bytes; "more" says whether the body goes on.
Receive(n, more) ==
    /\ pc = "receiving"
    /\ sent' = sent + n /\ complete' = ~more
    /\ chunks' = chunks + n
    /\ \/ Exceeds(n) /\ RefuseBody(id)
       \/ ~Exceeds(n) /\ pc' = (IF more THEN "receiving" ELSE "app") /\ UNCHANGED responses
    /\ UNCHANGED <<declared, id, delivered, body>>

\* Slip: an incomplete body is handed over when the client is gone.
DisconnectToApp ==
    /\ pc = "receiving"
    /\ pc' = "app"
    /\ UNCHANGED <<declared, id, sent, complete, chunks, delivered, body, responses>>

\* The client is gone before the body is complete: nobody is answered.
Disconnect ==
    /\ pc = "receiving"
    /\ pc' = "done"
    /\ UNCHANGED <<declared, id, sent, complete, chunks, delivered, body, responses>>

\* The application receives the body; a second receive would wait for the disconnect.
Replay ==
    /\ pc = "app" /\ ~delivered
    /\ delivered' = TRUE
    /\ body' = chunks
    /\ UNCHANGED <<pc, declared, id, sent, complete, chunks, responses>>

\* The application answers; error_response sets the id itself.
Respond(code, ids) ==
    /\ pc = "app"
    /\ responses' = Append(responses, Response(code, WithId(ids, id)))
    /\ pc' = "done"
    /\ UNCHANGED <<declared, id, sent, complete, chunks, delivered, body>>

\* An exception passes the boundary; the server error middleware outside of it answers
\* through unhandled_exception_handler.
Raise ==
    /\ pc = "app"
    /\ responses' = Append(responses, Response("INTERNAL_SERVER_ERROR", <<id>>))
    /\ pc' = "done"
    /\ UNCHANGED <<declared, id, sent, complete, chunks, delivered, body>>
-----------------------------------------------------------------------------
\* The values the state can take.
TypeOK ==
    /\ pc \in {"idle", "receiving", "app", "done"}
    /\ declared \in Declared /\ id \in RequestIds
    /\ sent \in Nat /\ complete \in BOOLEAN
    /\ chunks \in Nat /\ delivered \in BOOLEAN
    /\ body \in Nat \cup {NotRead}
    /\ responses \in Seq([code : AnswerCodes, ids : Seq(RequestIds)])

\* However the body arrives, no more of it is kept than the limit and one message
\* (the while loop of RequestBoundary).
BufferBounded == chunks <= MaxBytes + MaxChunk

\* The application only ever runs with the whole body of its request, and that body is
\* within the limit, whatever Content-Length has promised and whenever the client left.
AppGetsWholeBody ==
    /\ pc = "app" => complete /\ sent <= MaxBytes
    /\ body # NotRead => body = sent /\ complete

\* A body is refused only if it, or the length the client has declared for it, exceeds the
\* limit: a complete body of exactly max_bytes passes in every division into chunks.
RefusedOnlyIfTooLarge ==
    \A k \in DOMAIN responses :
        responses[k].code = "REQUEST_TOO_LARGE" => declared > MaxBytes \/ sent > MaxBytes

\* No request is answered twice, and every answer names its request exactly once, the 413
\* of the boundary and the 500 from outside of it included.
AnsweredOnceWithItsId ==
    Len(responses) <= 1 /\ \A k \in DOMAIN responses : responses[k].ids = <<id>>
=============================================================================
