------------------------------ MODULE HttpStack ------------------------------
(***************************************************************************)
(* The middleware around every handler: internal/middleware/http.go, the   *)
(* JSON helpers of internal/httpx and the order in which cmd/server/main.go*)
(* stacks them.                                                            *)
(*                                                                         *)
(* A request goes down the layers to a handler and comes back through      *)
(* their deferred calls, by return or by panic; the 30 s deadline may pass *)
(* at any moment.  Status codes are numbers; a body is the list of what was*)
(* written to it: the form and the status it was written for.              *)
(***************************************************************************)
EXTENDS Integers, Sequences

CONSTANTS
  HandlerCodes,  \* statuses handlers answer with once they have their input:
                 \* 400 among them, if a service refuses it
  CORSOn         \* whether CORS_ALLOWED_ORIGINS is set

\* net/http refuses to write any other status.
ASSUME CodesAssumption == HandlerCodes \subseteq 100..999

\* What is sent, compared with MAX_REQUEST_BYTES.  A "two" body has a second
\* JSON value; in a "tail" body the value fits and only the blanks after it do
\* not.
Sizes == {"fits", "two", "tail", "over"}
\* A "plain" route reads no body; "none" has no route.
Paths == {"probe", "login", "json", "plain", "none"}
Request == [path : Paths, options : BOOLEAN, size : Sizes]

VARIABLES
  req,
  layer,     \* how many layers the request is inside of
  going,     \* "down", "back", "done"
  panicking, \* a panic is unwinding
  late,      \* the context of the request has passed its deadline
  input,     \* what is left in r.Body
  rw,        \* responseWriter: status and wroteHeader
  sent,      \* the status on the wire, 0 before there is one
  body,      \* what is on the wire after the header
  logged     \* the statuses logged by Logger

httpVars == <<req, layer, going, panicking, late, input, rw, sent, body, logged>>

\* Variant: the order that the comment of Recoverer asks for.
LayersByComment == <<"Recoverer", "Logger", "BodyLimit", "Timeout", "CORS", "Limiter">>

\* The calls of r.Use that matter here, and the rate limiter of the route.
Layers == <<"Logger", "Recoverer", "BodyLimit", "Timeout", "CORS", "Limiter">>

Depth(name) == CHOOSE i \in DOMAIN Layers : Layers[i] = name

-----------------------------------------------------------------------------
(***************************************************************************)
(* Writing.                                                                *)
(***************************************************************************)

\* Variant: every call of WriteHeader is recorded and passed on.
RecordedAlways(code) == [status |-> code, wrote |-> TRUE]

\* responseWriter.WriteHeader: the first call decides.
Recorded(code) == IF rw.wrote THEN rw ELSE [status |-> code, wrote |-> TRUE]

\* WriteHeader by somebody inside the given layer.  Outside of Logger there is
\* no responseWriter; net/http itself keeps the first status.
WriteHeader(code, inside) ==
  /\ rw' = IF inside > Depth("Logger") THEN Recorded(code) ELSE rw
  /\ sent' = IF sent = 0 THEN code ELSE sent

\* httpx.Respond, Error and RespondMeta: a header and one JSON envelope.
Envelope(code) == [form |-> "json", status |-> code]

Respond(code, inside) ==
  /\ WriteHeader(code, inside)
  /\ body' = Append(body, Envelope(code))

\* http.Error, which chi (404) and httprate answer with: a line of text.
RespondText(code, inside) ==
  /\ WriteHeader(code, inside)
  /\ body' = Append(body, [form |-> "text", status |-> code])

NothingWritten == UNCHANGED <<rw, sent, body>>

-----------------------------------------------------------------------------
(***************************************************************************)
(* Down.                                                                   *)
(***************************************************************************)
Enter(name) ==
  /\ going = "down"
  /\ layer < Len(Layers)
  /\ Layers[layer + 1] = name
  /\ layer' = layer + 1

Pass == UNCHANGED <<req, going, panicking, late, input, logged>> /\ NothingWritten

\* chi or httprate answers, and the request turns round.
Turn(code) ==
  /\ going' = "back"
  /\ RespondText(code, layer + 1)
  /\ UNCHANGED <<req, panicking, late, input, logged>>

\* The same with a header only.
TurnEmpty(code) ==
  /\ going' = "back"
  /\ WriteHeader(code, layer + 1)
  /\ UNCHANGED <<req, panicking, late, input, body, logged>>

\* Logger and Recoverer set up their deferred calls, BodyLimit wraps r.Body.
GoDown == \E name \in {"Logger", "Recoverer", "BodyLimit", "Timeout"} : Enter(name) /\ Pass

\* Variant: the return after the answer to OPTIONS is missing.
PreflightGoesOn ==
  /\ WriteHeader(204, layer + 1)
  /\ UNCHANGED <<req, going, panicking, late, input, body, logged>>

\* Every OPTIONS request is answered by CORS, whatever its Origin.
Preflight == TurnEmpty(204)

CORS ==
  /\ Enter("CORS")
  /\ IF CORSOn /\ req.options THEN Preflight ELSE Pass

\* chi: a path or method without a route is answered outside of the limiters,
\* with a line of text for the path and an empty 405 for the method.
Unrouted == req.path = "none" \/ (req.options /\ ~CORSOn)

RefuseRoute ==
  /\ going = "down" /\ layer = Depth("CORS")
  /\ Unrouted
  /\ layer' = layer
  /\ (req.path = "none" /\ Turn(404)) \/ TurnEmpty(405)

\* Variant: the key function does not put the body back.
RestoredNot(in) == "empty"

\* The body after LoginAccountKey: what ReadAll got before the limit.
Restored(in) == IF in = "tail" THEN "fits" ELSE IF in = "over" THEN "cut" ELSE in

\* httprate: probes are outside of it; the login route has a second limiter,
\* keyed by the address in the body.  Either may answer 429.
Limiter ==
  /\ Enter("Limiter")
  /\ ~Unrouted
  /\ \/ /\ input' = IF req.path = "login" THEN Restored(input) ELSE input
        /\ UNCHANGED <<req, going, panicking, late, logged>>
        /\ NothingWritten
     \/ /\ req.path # "probe"
        /\ Turn(429)

\* DecodeJSON: an error for a body that is cut off, too long, empty or has a
\* second value.  More takes the read error after blanks for the end.
DecodeJSON(in) == in \in {"fits", "tail"}

Reads == req.path \in {"login", "json"}

Answer ==
  IF Reads /\ ~DecodeJSON(input)
    THEN Respond(400, layer + 1)
    ELSE \E code \in HandlerCodes : Respond(code, layer + 1)

\* The handler reads its input and answers; Respond is the last thing it does.
Handler ==
  /\ going = "down" /\ layer = Len(Layers)
  /\ going' = "back"
  /\ Answer
  /\ UNCHANGED <<req, layer, panicking, late, input, logged>>

\* Something inside the handler panics before it has answered.
HandlerPanics ==
  /\ going = "down" /\ layer = Len(Layers)
  /\ going' = "back"
  /\ panicking' = TRUE
  /\ UNCHANGED <<req, layer, late, input, logged>>
  /\ NothingWritten

-----------------------------------------------------------------------------
(***************************************************************************)
(* Back.                                                                   *)
(***************************************************************************)
Leave(name) ==
  /\ going = "back"
  /\ layer > 0
  /\ Layers[layer] = name
  /\ layer' = layer - 1
  /\ UNCHANGED <<req, going, late, input>>

LeaveQuietly ==
  /\ \E name \in {"BodyLimit", "CORS", "Limiter"} : Leave(name)
  /\ NothingWritten
  /\ UNCHANGED <<panicking, logged>>

\* chi's Timeout: the deferred call reports a deadline that has passed.
LeaveTimeout ==
  /\ Leave("Timeout")
  /\ IF late THEN WriteHeader(504, layer) ELSE UNCHANGED <<rw, sent>>
  /\ UNCHANGED <<body, panicking, logged>>

\* httpx.Internal in the deferred call of Recoverer.
AnswerPanic == Respond(500, layer)

\* (http.ErrAbortHandler, which it would swallow, is raised by no handler here.)
LeaveRecoverer ==
  /\ Leave("Recoverer")
  /\ IF panicking THEN AnswerPanic ELSE NothingWritten
  /\ panicking' = FALSE
  /\ UNCHANGED logged

\* The deferred call of Logger; probes are skipped.
LeaveLogger ==
  /\ Leave("Logger")
  /\ logged' = IF req.path = "probe" THEN logged ELSE Append(logged, rw.status)
  /\ NothingWritten
  /\ UNCHANGED panicking

\* net/http: a handler that wrote nothing has said 200, and a panic that gets
\* here ends the connection.
Finish ==
  /\ going = "back" /\ layer = 0
  /\ going' = "done"
  /\ sent' = IF panicking THEN -1 ELSE IF sent = 0 THEN 200 ELSE sent
  /\ UNCHANGED <<req, layer, panicking, late, input, rw, body, logged>>

Deadline ==
  /\ ~late
  /\ going # "done"
  /\ layer >= Depth("Timeout")
  /\ late' = TRUE
  /\ UNCHANGED <<req, layer, going, panicking, input, rw, sent, body, logged>>

InitHttp ==
  /\ req \in Request
  /\ layer = 0
  /\ going = "down"
  /\ panicking = FALSE /\ late = FALSE
  /\ input = req.size
  /\ rw = [status |-> 200, wrote |-> FALSE]
  /\ sent = 0
  /\ body = <<>> /\ logged = <<>>

NextHttp ==
  \/ GoDown \/ CORS \/ RefuseRoute \/ Limiter \/ Handler \/ HandlerPanics
  \/ LeaveQuietly \/ LeaveTimeout \/ LeaveRecoverer \/ LeaveLogger \/ Finish
  \/ Deadline

SpecHttp == InitHttp /\ [][NextHttp]_httpVars

-----------------------------------------------------------------------------
\* Logger writes one line for every request but a probe, and its status is the
\* one the client got: through panics, through a deadline that passes after the
\* answer, and through both at once.
LoggedAsSent ==
  going = "done" /\ req.path # "probe" => logged = <<sent>>

\* The body belongs to the status that was sent, and only the answers to OPTIONS
\* and to a method without a route have none: a panic neither ends the connection
\* nor looks like success.  The one exception: after a panic past the deadline
\* the 500 envelope follows the 504 of Timeout.
EnvelopeMatches ==
  going = "done" =>
    \/ body = <<>> /\ sent \in {204, 405}
    \/ Len(body) = 1 /\ body[1].status = sent
    \/ body = <<Envelope(500)>> /\ sent = 504 /\ late

AtHandler == going = "down" /\ layer = Len(Layers)

\* A handler that reads its input decodes what the client sent: the body within
\* the limit is the one that was sent, and DecodeJSON decides about every other
\* as it would about the one sent, also where LoginAccountKey has read it before
\* and has put back what the limit let through.
BodyDecodedAsSent ==
  AtHandler /\ Reads =>
    /\ req.size \in {"fits", "two"} => input = req.size
    /\ DecodeJSON(input) = DecodeJSON(req.size)
=============================================================================
