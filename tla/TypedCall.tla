----------------------------- MODULE TypedCall ------------------------------
(***************************************************************************)
(* One typed call or event of the babelforce.v1 catalog, from the client   *)
(* method of one peer to the handler of the other and back: serialise,     *)
(* envelope, dispatch, assert, handler, serialise, envelope, assert        *)
(* (generated roles, handler.ts, and the frame handling of session.ts).    *)
(*                                                                         *)
(* Either side may be the SDK or a peer that is not ("raw") and may send   *)
(* any frame.  Cancellation, deferred answers and the races of a timeout   *)
(* with a late answer are the subject of TsSession; here a call is alone   *)
(* and what matters is which values pass.                                  *)
(***************************************************************************)
EXTENDS Catalog

CONSTANTS
  Samples,     \* message type -> the values a caller or a handler tries
  RawRequests, \* frames a raw peer sends
  RawReplies   \* frames a raw peer answers an SDK call with

VARIABLES
  stage,       \* "idle", "sent", "handling", "answered", "unanswered", "done"
  call,        \* who calls which role: [by, role, name]; name is "" for a raw peer
  given,       \* the value the SDK caller passed
  request,     \* the bytes sent, undefined if none
  server,      \* who took the request: "none", "sdk", "raw"
  seen,        \* the value the handler was called with
  produced,    \* what it returned, or <<"thrown", error>>
  reply,       \* the bytes sent back, undefined if none
  outcome,     \* of an SDK call: [is, value]
  stopped      \* the sessions that were told to stop

vars == <<stage, call, given, request, server, seen, produced, reply, outcome, stopped>>

CallId == "1"
Outcome(is, value) == [is |-> is, value |-> value]

(* What a handler may throw: any error, one with an empty message, and a   *)
(* ProtocolHandlerError with a code of its own, 0 included, and data of    *)
(* its own (the field `any'), that no JSON text stands for included.      *)
HandlerErrors ==
  {WireError(500, "failed"), WireError(500, ""), WireError(7, "own"), WireError(0, "own")}
  \cup {Obj(WireError(7, "own")[2] @@ ("any" :> v)) : v \in {S("x"), Null, <<"huge">>, Arr(<<<<"nan">>>>)}}

Init ==
  /\ stage = "idle"
  /\ call = [by |-> "none", role |-> "application", name |-> ""]
  /\ given = Undefined
  /\ request = Undefined
  /\ server = "none"
  /\ seen = Undefined
  /\ produced = Undefined
  /\ reply = Undefined
  /\ outcome = Outcome("pending", Undefined)
  /\ stopped = {}

-----------------------------------------------------------------------------
(* The caller.                                                             *)

(* A value that does not validate, or a frame that does not encode, fails  *)
(* in the caller and nothing is sent.                                      *)
Sends(role, name, v, frame, valid) ==
  LET bytes == IF valid THEN EncodeFrame(frame) ELSE Undefined
  IN /\ stage = "idle"
     /\ call' = [by |-> "sdk", role |-> role, name |-> name]
     /\ given' = v
     /\ request' = bytes
     /\ IF bytes = Undefined
        THEN stage' = "done" /\ outcome' = Outcome("refused", Undefined)
        ELSE stage' = "sent" /\ UNCHANGED outcome
     /\ UNCHANGED <<server, seen, produced, reply, stopped>>

(* A method of ApplicationPeer or VoicePeer.                               *)
ClientCalls(role, m, v) ==
  LET type == Clients(role)[m].request
  IN Sends(role, m, v, Request(CallId, m, SerializeMessage(v, type)), AssertMessage(v, type))

(* A method of ApplicationEvents or VoiceEvents.                           *)
EmitterNotifies(role, e, v) ==
  LET type == Emitters(role)[e]
  IN Sends(role, e, v, Event(CallId, e, SerializeMessage(v, type)), AssertMessage(v, type))

RawSends(role, bytes) ==
  /\ stage = "idle"
  /\ call' = [by |-> "raw", role |-> role, name |-> ""]
  /\ request' = bytes
  /\ stage' = "sent"
  /\ UNCHANGED <<given, server, seen, produced, reply, outcome, stopped>>

-----------------------------------------------------------------------------
(* The receiving session.                                                  *)

Inbound == DecodeFrame(request)
OrEmpty(v) == IF v \in {Undefined, Null} THEN EmptyObject ELSE v
Registered == Inbound.name \in DOMAIN Handlers(call.role)
Registration == Handlers(call.role)[Inbound.name]

(* readControl: a frame that does not decode is skipped, a response nobody *)
(* waits for is dropped.                                                   *)
IgnoresFrame ==
  /\ stage = "sent"
  /\ Inbound.kind \in {"bad", "response"}
  /\ server' = "sdk"
  /\ stage' = "unanswered"
  /\ UNCHANGED <<call, given, request, seen, produced, reply, outcome, stopped>>

(* handleRequest answers with an error: the response counts as sent before *)
(* it is encoded, and an error that does not encode stops the session.     *)
RespondsError(error) ==
  LET bytes == EncodeFrame(Response(Inbound.id, Undefined, error))
  IN /\ reply' = bytes
     /\ stage' = IF bytes = Undefined THEN "unanswered" ELSE "answered"
     /\ stopped' = IF bytes = Undefined THEN stopped \cup {"server"} ELSE stopped

(* handleRequest answers with the result: one that does not encode is not  *)
(* answered at all.  A terminal operation stops the session once it is out.*)
Responds(result, terminal) ==
  LET bytes == EncodeFrame(Response(Inbound.id, result, Undefined))
  IN /\ reply' = bytes
     /\ stage' = IF bytes = Undefined THEN "unanswered" ELSE "answered"
     /\ stopped' = IF terminal /\ bytes # Undefined THEN stopped \cup {"server"} ELSE stopped

TakesRequest ==
  /\ stage = "sent"
  /\ Inbound.kind = "request"
  /\ server' = "sdk"

(* Seeded fault: the generated handler is called without the assert.       *)
InvokesUnchecked ==
  /\ TakesRequest
  /\ Registered /\ Registration.supported
  /\ seen' = OrEmpty(Inbound.payload)
  /\ stage' = "handling"
  /\ UNCHANGED <<call, given, request, produced, reply, outcome, stopped>>

(* dispatchRequest up to the call of the handler.                          *)
Invokes ==
  /\ TakesRequest
  /\ Registered /\ Registration.supported
  /\ AssertMessage(OrEmpty(Inbound.payload), Registration.request)
  /\ seen' = OrEmpty(Inbound.payload)
  /\ stage' = "handling"
  /\ UNCHANGED <<call, given, request, produced, reply, outcome, stopped>>

(* ... or to the exception that stands in for it.                          *)
RefusesRequest ==
  /\ TakesRequest
  /\ Registered
  /\ \/ ~Registration.supported /\ RespondsError(WireError(501, "unsupported"))
     \/ /\ Registration.supported
        /\ ~AssertMessage(OrEmpty(Inbound.payload), Registration.request)
        /\ RespondsError(WireError(400, "invalid"))
  /\ UNCHANGED <<call, given, request, seen, produced, outcome>>

(* No registration: 501, or 500 when the application installed a hook and  *)
(* the hook returns without answering or deferring.                        *)
UnknownRequest ==
  /\ TakesRequest
  /\ ~Registered
  /\ \E code \in {501, 500} : RespondsError(WireError(code, "unknown method"))
  /\ UNCHANGED <<call, given, request, seen, produced, outcome>>

(* dispatchEvent; an event that fails its assert, or that nobody           *)
(* registered, is dropped.                                                 *)
ReceivesEvent ==
  LET type == EventHandlers(call.role)[Inbound.name]
      data == OrEmpty(Inbound.payload)
  IN /\ stage = "sent"
     /\ Inbound.kind = "event"
     /\ server' = "sdk"
     /\ stage' = "done"
     /\ seen' = IF Inbound.name \in DOMAIN EventHandlers(call.role) /\ AssertMessage(data, type)
                THEN data ELSE seen
     /\ UNCHANGED <<call, given, request, produced, reply, outcome, stopped>>

(* Seeded fault: the result is sent as the handler returned it.            *)
HandlerReturnsAsIs(v) ==
  /\ stage = "handling"
  /\ produced' = v
  /\ Responds(v, Registration.terminal)
  /\ UNCHANGED <<call, given, request, server, seen, outcome>>

(* Seeded fault: the session is not stopped after a terminal operation.    *)
HandlerReturnsStaying(v) ==
  /\ stage = "handling"
  /\ produced' = v
  /\ IF AssertMessage(v, Registration.response)
     THEN Responds(SerializeMessage(v, Registration.response), FALSE)
     ELSE RespondsError(WireError(400, "invalid"))
  /\ UNCHANGED <<call, given, request, server, seen, outcome>>

(* The handler's own result is validated like a request, and a failure is  *)
(* reported with the same code.                                            *)
HandlerReturns(v) ==
  /\ stage = "handling"
  /\ produced' = v
  /\ IF AssertMessage(v, Registration.response)
     THEN Responds(SerializeMessage(v, Registration.response), Registration.terminal)
     ELSE RespondsError(WireError(400, "invalid"))
  /\ UNCHANGED <<call, given, request, server, seen, outcome>>

HandlerThrows(error) ==
  /\ stage = "handling"
  /\ produced' = <<"thrown", error>>
  /\ RespondsError(error)
  /\ UNCHANGED <<call, given, request, server, seen, outcome>>

(* The peer of an SDK call is not the SDK.                                 *)
RawAnswers(bytes) ==
  /\ stage = "sent"
  /\ call.by = "sdk" /\ call.name \in DOMAIN Clients(call.role) /\ Inbound.kind = "request"
  /\ server' = "raw"
  /\ reply' = bytes
  /\ stage' = "answered"
  /\ UNCHANGED <<call, given, request, seen, produced, outcome, stopped>>

-----------------------------------------------------------------------------
(* The caller again.                                                       *)

(* readControl and completePending, then the assert of the client method.  *)
(* Any response, an error too, ends a session that sent a terminal request.*)
CallCompletes ==
  LET frame == DecodeFrame(reply)
      client == Clients(call.role)[call.name]
      value == OrEmpty(frame.payload)
  IN /\ stage = "answered"
     /\ call.by = "sdk"
     /\ IF frame.kind # "response" \/ frame.id # CallId
        THEN stage' = "unanswered" /\ UNCHANGED <<outcome, stopped>>
        ELSE /\ stage' = "done"
             /\ stopped' = IF client.terminal THEN stopped \cup {"caller"} ELSE stopped
             /\ outcome' = IF frame.error # Undefined THEN Outcome("remote", frame.error)
                           ELSE IF AssertMessage(value, client.response) THEN Outcome("returned", value)
                           ELSE Outcome("badResponse", value)
     /\ UNCHANGED <<call, given, request, server, seen, produced, reply>>

RequestTimeout ==
  /\ stage = "unanswered"
  /\ call.by = "sdk"
  /\ stage' = "done"
  /\ outcome' = Outcome("timeout", Undefined)
  /\ UNCHANGED <<call, given, request, server, seen, produced, reply, stopped>>

Next ==
  \/ \E role \in Roles :
       \/ \E m \in DOMAIN Clients(role) :
            \E v \in Samples[Clients(role)[m].request] : ClientCalls(role, m, v)
       \/ \E e \in DOMAIN Emitters(role) :
            \E v \in Samples[Emitters(role)[e]] : EmitterNotifies(role, e, v)
       \/ \E bytes \in RawRequests : RawSends(role, bytes)
  \/ IgnoresFrame \/ Invokes \/ RefusesRequest \/ UnknownRequest \/ ReceivesEvent
  \/ \E v \in IF stage = "handling" THEN Samples[Registration.response] ELSE {} : HandlerReturns(v)
  \/ \E error \in HandlerErrors : HandlerThrows(error)
  \/ \E bytes \in RawReplies : RawAnswers(bytes)
  \/ CallCompletes \/ RequestTimeout

Spec == Init /\ [][Next]_vars

-----------------------------------------------------------------------------
(* `v' is a value of the TypeScript type `t': an optional field is absent  *)
(* or of its type, and an object type that declares no field is            *)
(* Record<string, never>.                                                  *)
RECURSIVE Conforms(_, _)
Conforms(v, t) ==
  CASE t.is = "string" -> Kind(v) = "str"
    [] t.is = "number" -> Kind(v) \in {"int", "frac"}
    [] t.is = "json" -> EncodeValue(v)
    [] t.is = "map" -> Kind(v) = "obj" /\ EncodeValue(v)
    [] t.is = "list" -> Kind(v) = "arr" /\ \A i \in DOMAIN v[2] : Conforms(v[2][i], t.of)
    [] t.is = "orNull" -> v = Null \/ Conforms(v, t.of)
    [] t.is = "fields" ->
         /\ Kind(v) = "obj"
         /\ \A n \in DOMAIN t.req : n \in DOMAIN v[2] /\ Conforms(v[2][n], t.req[n])
         /\ \A n \in DOMAIN t.opt \cap DOMAIN v[2] : Conforms(v[2][n], t.opt[n])
         /\ DOMAIN t.req \cup DOMAIN t.opt = {} => DOMAIN v[2] = {}

(* `v' without what the schemas let through although the type `t' of the   *)
(* whole message excludes it: an optional field that is null (its schema   *)
(* says ["string", "null"], its type `reason?: string'), and every field   *)
(* of a Record<string, never>.                                             *)
LetThrough(v, t, n) ==
  \/ n \in DOMAIN t.opt /\ v[2][n] = Null
  \/ DOMAIN t.req \cup DOMAIN t.opt = {}
Tidied(v, t) ==
  IF t.is = "fields" /\ Kind(v) = "obj"
  THEN Obj([n \in {f \in DOMAIN v[2] : ~LetThrough(v, t, f)} |-> v[2][n]])
  ELSE v

(* The part of `v' that the type `t' declares; a value that is no object   *)
(* or array where `t' wants one has no parts and is left alone.            *)
RECURSIVE Declared(_, _)
Declared(v, t) ==
  CASE t.is = "orNull" -> Declared(v, t.of)
    [] t.is = "list" /\ Kind(v) = "arr" ->
         Arr([i \in DOMAIN v[2] |-> Declared(v[2][i], t.of)])
    [] t.is = "fields" /\ Kind(v) = "obj" ->
         LET all == t.req @@ t.opt
         IN Obj([n \in DOMAIN all \cap DOMAIN v[2] |-> Declared(v[2][n], all[n])])
    [] OTHER -> v

SeenType ==
  IF Inbound.kind = "request" THEN Registration.request ELSE EventHandlers(call.role)[Inbound.name]

(* Whatever a peer sends, the value a handler is called with and the value *)
(* a client method returns depart from the TypeScript type that the        *)
(* generated assert claims for them in no more than two ways, those of     *)
(* LetThrough: an optional field may be null, and an object that should be *)
(* empty may have fields.  The rest is of the declared type, and every     *)
(* number in it is a safe one.                                             *)
ConformsToInterfaces ==
  LET Fits(v, type) == Conforms(Tidied(v, Interfaces[type]), Interfaces[type])
  IN /\ seen # Undefined => Fits(seen, SeenType)
     /\ outcome.is = "returned" => Fits(outcome.value, Clients(call.role)[call.name].response)

(* Between two SDK peers a handler receives exactly the declared fields of *)
(* what the caller passed, and the caller exactly the declared fields of   *)
(* what the handler returned, null and absent told apart: serialising,     *)
(* both envelopes and both asserts neither drop, add nor refuse anything.  *)
DeliveredExactly ==
  call.by = "sdk" =>
    /\ seen # Undefined => seen = Declared(given, Interfaces[SeenType])
    /\ server = "sdk" /\ outcome.is \in {"returned", "badResponse"} =>
         outcome = Outcome("returned",
                           Declared(produced, Interfaces[Clients(call.role)[call.name].response]))

(* Every request that decodes is answered, except one whose valid result   *)
(* or whose error cannot be encoded; the server's session stops exactly    *)
(* after the result of a terminal operation or such an error; and the two  *)
(* generated sides agree: no SDK call is refused for its method or its     *)
(* parameters, and a call that returns stops both sessions or neither.     *)
AnsweredExactly ==
  LET unencodable ==
        IF Kind(produced) = "thrown" THEN ~ErrorCarries(produced[2]) \/ ~EncodeValue(produced[2])
        ELSE /\ AssertMessage(produced, Registration.response)
             /\ ~EncodeValue(Declared(produced, Interfaces[Registration.response]))
      sdkCall == call.by = "sdk" /\ server = "sdk" /\ stage = "done"
  IN /\ (server = "sdk" /\ stage # "handling" /\ Inbound.kind = "request" /\ reply = Undefined)
          => produced # Undefined /\ unencodable
     /\ "server" \in stopped <=>
          /\ produced # Undefined
          /\ IF Kind(produced) = "thrown" THEN unencodable
             ELSE /\ Registration.terminal /\ ~unencodable
                  /\ AssertMessage(produced, Registration.response)
     /\ sdkCall /\ outcome.is = "remote" => produced # Undefined
     /\ sdkCall /\ outcome.is = "returned" => ("caller" \in stopped <=> "server" \in stopped)
=============================================================================
