------------------------------ MODULE Catalog -------------------------------
(***************************************************************************)
(* The babelforce.v1 catalog: the message schemas the validator runs on,   *)
(* the TypeScript types the application is given for the same messages,    *)
(* and what each role registers, calls and emits                           *)
(* (sdk/typescript/src/generated/zz_generated_babelforcev1_types.ts and    *)
(* _roles.ts).  Schemas, types, handlers and clients are four tables in    *)
(* the source as well: nothing but the generator keeps them in agreement.  *)
(***************************************************************************)
EXTENDS WireFormat

(* BABELFORCE_V1_SCHEMAS, in its order.                                    *)
AgentToolCallEvent == Struct([name |-> Str], NoFields)
AppInfo == Struct([id |-> Str], NoFields)
ApplicationMoveRequest ==
  Struct(NoFields, [reason |-> OrNull(Str), application_id |-> OrNull(Str)])
ApplicationMoveResponse == Struct(NoFields, [next_application_id |-> OrNull(Str)])
AudioBufferClearRequest == Struct(NoFields, NoFields)
AudioBufferClearResponse == Struct([len |-> SafeInt], NoFields)
AudioCodec ==
  Struct([id |-> Str, name |-> Str, sample_rate |-> SafeInt, bit_depth |-> SafeInt, channels |-> SafeInt],
         NoFields)
AudioInfoItem ==
  Struct([bytes |-> SafeInt, bytes_per_second |-> Num, bytes_total |-> SafeInt], NoFields)
AudioInfoEvent == Struct([read |-> AudioInfoItem, write |-> AudioInfoItem], NoFields)
AudioSpeechStartedEvent == Struct([origin |-> Str], NoFields)
CallHangupEvent == Struct(NoFields, [reason |-> OrNull(Str)])
CallHangupRequest == Struct([reason |-> Text], NoFields)
CallInfo == Struct([id |-> Str, session_id |-> Str, from |-> Str, to |-> Str], NoFields)
DtmfEvent ==
  Ordered([seq |-> Count, pressed_at |-> Count, released_at |-> Count, digit |-> Text],
          NoFields, {<<"pressed_at", "released_at">>})
EmptyResponse == Struct(NoFields, NoFields)
InputTranscriptEvent == Struct([delta |-> Str], NoFields)
OutputTranscriptDeltaEvent == Struct([delta |-> Str], NoFields)
OutputTranscriptDoneEvent == Struct(NoFields, [text |-> OrNull(Str)])
PingRequest == Struct([t0 |-> Stamp], [rtt |-> OrNull(SafeInt), data |-> AnyJson])
PingResponse ==
  Struct([t0 |-> Stamp, t1 |-> Stamp, t2 |-> Stamp, owd |-> SafeInt], [data |-> AnyJson])
RecordingStartRequest == Struct(NoFields, [tags |-> OrNull(List(Str))])
RecordingStartResponse == Struct([id |-> Text], NoFields)
RecordingStopRequest == Struct([id |-> Text], NoFields)
SessionGetRequest == Struct([keys |-> List(Str)], NoFields)
SessionGetResponse == Open
SessionInitializeRequest ==
  Struct([application |-> AppInfo, call |-> CallInfo,
          audio_codec_offerings |-> List(AudioCodec), metadata |-> OrNull(Open)], NoFields)
SessionInitializeResponse == Struct([audio_codec |-> OrNull(AudioCodec)], NoFields)
SessionSetRequest == Struct([data |-> Open], NoFields)
SessionTerminateRequest == Struct([reason |-> Text], NoFields)
SessionUpdatedEvent == Struct([audio_codec |-> OrNull(AudioCodec)], NoFields)

(* The messages of the operations and events, by name; the four shared     *)
(* parts (AppInfo, CallInfo, AudioCodec, AudioInfoItem) are inside them.   *)
Schemas ==
  [AgentToolCallEvent |-> AgentToolCallEvent,
   ApplicationMoveRequest |-> ApplicationMoveRequest,
   ApplicationMoveResponse |-> ApplicationMoveResponse,
   AudioBufferClearRequest |-> AudioBufferClearRequest,
   AudioBufferClearResponse |-> AudioBufferClearResponse,
   AudioInfoEvent |-> AudioInfoEvent,
   AudioSpeechStartedEvent |-> AudioSpeechStartedEvent,
   CallHangupEvent |-> CallHangupEvent,
   CallHangupRequest |-> CallHangupRequest,
   DtmfEvent |-> DtmfEvent,
   EmptyResponse |-> EmptyResponse,
   InputTranscriptEvent |-> InputTranscriptEvent,
   OutputTranscriptDeltaEvent |-> OutputTranscriptDeltaEvent,
   OutputTranscriptDoneEvent |-> OutputTranscriptDoneEvent,
   PingRequest |-> PingRequest,
   PingResponse |-> PingResponse,
   RecordingStartRequest |-> RecordingStartRequest,
   RecordingStartResponse |-> RecordingStartResponse,
   RecordingStopRequest |-> RecordingStopRequest,
   SessionGetRequest |-> SessionGetRequest,
   SessionGetResponse |-> SessionGetResponse,
   SessionInitializeRequest |-> SessionInitializeRequest,
   SessionInitializeResponse |-> SessionInitializeResponse,
   SessionSetRequest |-> SessionSetRequest,
   SessionTerminateRequest |-> SessionTerminateRequest,
   SessionUpdatedEvent |-> SessionUpdatedEvent]

(* The generated assert and serialize functions of a message type.  A      *)
(* failed assert is FALSE; serialize asserts first.                        *)
AssertMessage(v, type) == ValidateAt(v, Schemas[type])
SerializeMessage(v, type) == SerializeAt(v, Schemas[type])

-----------------------------------------------------------------------------
(* The TypeScript types.  A declared interface says nothing of fields it   *)
(* does not name.                                                          *)
TsString == [is |-> "string"]
TsNumber == [is |-> "number"]
TsJson == [is |-> "json"]
TsMap == [is |-> "map"]
TsList(t) == [is |-> "list", of |-> t]
TsOrNull(t) == [is |-> "orNull", of |-> t]
TsFields(required, optional) == [is |-> "fields", req |-> required, opt |-> optional]

TsAudioCodec ==
  TsFields([id |-> TsString, name |-> TsString, sample_rate |-> TsNumber,
            bit_depth |-> TsNumber, channels |-> TsNumber], NoFields)
TsAudioInfoItem ==
  TsFields([bytes |-> TsNumber, bytes_per_second |-> TsNumber, bytes_total |-> TsNumber], NoFields)
TsAppInfo == TsFields([id |-> TsString], NoFields)
TsCallInfo ==
  TsFields([id |-> TsString, session_id |-> TsString, from |-> TsString, to |-> TsString], NoFields)

Interfaces ==
  [AgentToolCallEvent |-> TsFields([name |-> TsString], NoFields),
   ApplicationMoveRequest |->
     TsFields(NoFields, [reason |-> TsString, application_id |-> TsString]),
   ApplicationMoveResponse |-> TsFields(NoFields, [next_application_id |-> TsString]),
   AudioBufferClearRequest |-> TsFields(NoFields, NoFields),
   AudioBufferClearResponse |-> TsFields([len |-> TsNumber], NoFields),
   AudioInfoEvent |-> TsFields([read |-> TsAudioInfoItem, write |-> TsAudioInfoItem], NoFields),
   AudioSpeechStartedEvent |-> TsFields([origin |-> TsString], NoFields),
   CallHangupEvent |-> TsFields(NoFields, [reason |-> TsString]),
   CallHangupRequest |-> TsFields([reason |-> TsString], NoFields),
   DtmfEvent |-> TsFields([seq |-> TsNumber, pressed_at |-> TsNumber,
                           released_at |-> TsNumber, digit |-> TsString], NoFields),
   EmptyResponse |-> TsFields(NoFields, NoFields),
   InputTranscriptEvent |-> TsFields([delta |-> TsString], NoFields),
   OutputTranscriptDeltaEvent |-> TsFields([delta |-> TsString], NoFields),
   OutputTranscriptDoneEvent |-> TsFields(NoFields, [text |-> TsString]),
   PingRequest |-> TsFields([t0 |-> TsNumber], [rtt |-> TsNumber, data |-> TsJson]),
   PingResponse |-> TsFields([t0 |-> TsNumber, t1 |-> TsNumber, t2 |-> TsNumber,
                              owd |-> TsNumber], [data |-> TsJson]),
   RecordingStartRequest |-> TsFields(NoFields, [tags |-> TsList(TsString)]),
   RecordingStartResponse |-> TsFields([id |-> TsString], NoFields),
   RecordingStopRequest |-> TsFields([id |-> TsString], NoFields),
   SessionGetRequest |-> TsFields([keys |-> TsList(TsString)], NoFields),
   SessionGetResponse |-> TsMap,
   SessionInitializeRequest |->
     TsFields([application |-> TsAppInfo, call |-> TsCallInfo,
               audio_codec_offerings |-> TsList(TsAudioCodec), metadata |-> TsOrNull(TsMap)],
              NoFields),
   SessionInitializeResponse |-> TsFields([audio_codec |-> TsOrNull(TsAudioCodec)], NoFields),
   SessionSetRequest |-> TsFields([data |-> TsMap], NoFields),
   SessionTerminateRequest |-> TsFields([reason |-> TsString], NoFields),
   SessionUpdatedEvent |-> TsFields([audio_codec |-> TsOrNull(TsAudioCodec)], NoFields)]

-----------------------------------------------------------------------------
(* Roles.  A registration or a client method is [request, response,        *)
(* terminal]; the voice role registers session.terminate only to refuse it.*)
Operation(request, response, terminal) ==
  [request |-> request, response |-> response, terminal |-> terminal, supported |-> TRUE]
Unsupported == [request |-> "EmptyResponse", response |-> "EmptyResponse",
                terminal |-> FALSE, supported |-> FALSE]

MethodNames ==
  {"application.move", "audio.buffer.clear", "call.hangup", "ping", "recording.start",
   "recording.stop", "session.get", "session.initialize", "session.set", "session.terminate"}

ApplicationRequestHandlers ==
  ("ping" :> Operation("PingRequest", "PingResponse", FALSE))
  @@ ("session.initialize" :>
        Operation("SessionInitializeRequest", "SessionInitializeResponse", FALSE))
  @@ ("session.terminate" :> Operation("SessionTerminateRequest", "EmptyResponse", TRUE))

ApplicationEventHandlers ==
  ("audio.info" :> "AudioInfoEvent") @@ ("call.hangup" :> "CallHangupEvent")
  @@ ("dtmf" :> "DtmfEvent") @@ ("session.updated" :> "SessionUpdatedEvent")

ApplicationPeer ==
  ("ping" :> Operation("PingRequest", "PingResponse", FALSE))
  @@ ("session.initialize" :>
        Operation("SessionInitializeRequest", "SessionInitializeResponse", FALSE))
  @@ ("session.terminate" :> Operation("SessionTerminateRequest", "EmptyResponse", TRUE))

ApplicationEvents ==
  ("agent.tool.call" :> "AgentToolCallEvent")
  @@ ("audio.speech.started" :> "AudioSpeechStartedEvent")
  @@ ("input.transcript" :> "InputTranscriptEvent")
  @@ ("output.transcript.delta" :> "OutputTranscriptDeltaEvent")
  @@ ("output.transcript.done" :> "OutputTranscriptDoneEvent")

VoiceRequestHandlers ==
  ("application.move" :> Operation("ApplicationMoveRequest", "ApplicationMoveResponse", TRUE))
  @@ ("audio.buffer.clear" :>
        Operation("AudioBufferClearRequest", "AudioBufferClearResponse", FALSE))
  @@ ("call.hangup" :> Operation("CallHangupRequest", "EmptyResponse", TRUE))
  @@ ("ping" :> Operation("PingRequest", "PingResponse", FALSE))
  @@ ("recording.start" :> Operation("RecordingStartRequest", "RecordingStartResponse", FALSE))
  @@ ("recording.stop" :> Operation("RecordingStopRequest", "EmptyResponse", FALSE))
  @@ ("session.get" :> Operation("SessionGetRequest", "SessionGetResponse", FALSE))
  @@ ("session.set" :> Operation("SessionSetRequest", "EmptyResponse", FALSE))
  @@ ("session.terminate" :> Unsupported)

VoiceEventHandlers ==
  ("agent.tool.call" :> "AgentToolCallEvent")
  @@ ("audio.speech.started" :> "AudioSpeechStartedEvent")
  @@ ("input.transcript" :> "InputTranscriptEvent")
  @@ ("output.transcript.delta" :> "OutputTranscriptDeltaEvent")
  @@ ("output.transcript.done" :> "OutputTranscriptDoneEvent")

VoicePeer ==
  ("application.move" :> Operation("ApplicationMoveRequest", "ApplicationMoveResponse", TRUE))
  @@ ("audio.buffer.clear" :>
        Operation("AudioBufferClearRequest", "AudioBufferClearResponse", FALSE))
  @@ ("call.hangup" :> Operation("CallHangupRequest", "EmptyResponse", TRUE))
  @@ ("ping" :> Operation("PingRequest", "PingResponse", FALSE))
  @@ ("recording.start" :> Operation("RecordingStartRequest", "RecordingStartResponse", FALSE))
  @@ ("recording.stop" :> Operation("RecordingStopRequest", "EmptyResponse", FALSE))
  @@ ("session.get" :> Operation("SessionGetRequest", "SessionGetResponse", FALSE))
  @@ ("session.set" :> Operation("SessionSetRequest", "EmptyResponse", FALSE))

VoiceEvents ==
  ("audio.info" :> "AudioInfoEvent") @@ ("call.hangup" :> "CallHangupEvent")
  @@ ("dtmf" :> "DtmfEvent") @@ ("session.updated" :> "SessionUpdatedEvent")

(* The role that receives: what it registers, and what its peer calls and  *)
(* emits.                                                                  *)
Roles == {"application", "voice"}
Handlers(role) ==
  IF role = "application" THEN ApplicationRequestHandlers ELSE VoiceRequestHandlers
EventHandlers(role) ==
  IF role = "application" THEN ApplicationEventHandlers ELSE VoiceEventHandlers
Clients(role) == IF role = "application" THEN ApplicationPeer ELSE VoicePeer
Emitters(role) == IF role = "application" THEN VoiceEvents ELSE ApplicationEvents
=============================================================================
