----------------------------- MODULE McpClient -----------------------------
(***************************************************************************)
(* The MCP client of src/api/factor_data_mcp_api.py: the handshake, the    *)
(* session it keeps, and what of an HTTP response counts as an answer.     *)
(* A response is [status, media, events, session]: events are the JSON     *)
(* envelopes in the body, in a plain JSON body there is one, and a body    *)
(* that does not parse has none.  An envelope is [id, version, result,     *)
(* error].  NoResponse is a request that raised in the HTTP client.        *)
(***************************************************************************)
EXTENDS Sequences

CONSTANTS
  None,       \* None or an absent field
  NoResponse  \* the request raised

VARIABLES
  session,  \* self._session_id
  protocol  \* self._protocol_version

mcpVars == <<session, protocol>>

McpInit == session = None /\ protocol = None

-----------------------------------------------------------------------------
(* Responses.                                                              *)

\* _validate_envelope
ValidEnvelope(e) == e.version = "2.0" /\ e.id = "request" /\ (e.result = None) # (e.error = None)

\* _parse_response: the one envelope of the request, or None for a protocol error.
ParseResponse(response) ==
  LET own == IF response.media = "sse" THEN SelectSeq(response.events, LAMBDA e : e.id = "request")
             ELSE response.events
  IN  IF response.media # "other" /\ Len(own) = 1 /\ ValidEnvelope(own[1]) THEN own[1] ELSE None

\* _send_request: None when it raises, whatever it raises; an RPC error is told from the
\* status only after the envelope, and a session is kept only from an answer.
Answer(response) ==
  IF response = NoResponse THEN None
  ELSE LET e == ParseResponse(response)
       IN  IF e = None THEN None
           ELSE IF e.error # None \/ response.status # "2xx" THEN None
           ELSE e.result

\* _capture_session
CaptureSession(response, current) == IF response.session = None THEN current ELSE response.session

\* _headers: what a request carries.
Headers(includeSession) ==
  IF includeSession THEN [session |-> session, protocol |-> protocol]
  ELSE [session |-> None, protocol |-> None]

-----------------------------------------------------------------------------
(* Requests.                                                               *)

\* initialize: the old session is dropped before the request.
Initialize(response) ==
  LET accepted == Answer(response) # None /\ Answer(response).protocol # None
  IN  /\ session' = IF accepted THEN CaptureSession(response, None) ELSE None
      /\ protocol' = IF accepted THEN Answer(response).protocol ELSE None

\* notify_initialized: only the status counts.
Notified(response) == response # NoResponse /\ response.status = "2xx"

NotifyInitialized(response) ==
  /\ session' = IF Notified(response) THEN CaptureSession(response, session) ELSE session
  /\ UNCHANGED protocol

\* call_tool and the tools built on it
CallTool(response) ==
  /\ session' = IF Answer(response) # None THEN CaptureSession(response, session) ELSE session
  /\ UNCHANGED protocol
=============================================================================
