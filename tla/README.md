# RTVBP: a verification development for the SDK runtimes

RTVBP (real-time voice bridge protocol) connects two peers by one *control*
channel, on which both sides send JSON requests, responses and events, and at
most one *media* channel that carries audio. The repository holds the protocol
specification, SDKs in TypeScript, Go and Rust, bridges for one product,
conformance tools and a website. The SDKs carry the logic that is hard to get
right: a session with half a dozen concurrent tasks that share a lifecycle, a
table of pending requests, one-shot replies and an audio stream; below it
transports, a server and browser devices that must not lose or leak anything
when something fails; above it generated tables of message types.

This directory models the whole runtime path of the TypeScript SDK and the
session of the Go SDK in TLA+, model-checks small instances with TLC and proves
every safety property of its state machines for every value of the constants
with TLAPS.
`PROJECT.json` lists components, runs, the correspondence between definitions
and source lines, hazards, findings and theorems.

    tlc -workers 2 -config MCTsSession.cfg MCTsSession     # one run
    tlapm TsSession_proofs.tla                             # one set of proofs

## Inventory

Paths are relative to `src/`; "TS" is `sdk/typescript/src`, "Go" is `sdk/go`.

| Component | State it keeps | Operations | What makes it correct |
|---|---|---|---|
| TS asynchronous queue (`async.ts`) | buffer, parked producers, parked consumers, closed flag | tryPush, push, shift, close, clear, abort of a parked call | no lost wake-up; order of the calls; one fate per value; the capacity |
| TS session (`session.ts`, `handler.ts`) | lifecycle, abort signal, `ready`, pending requests, dispatch queue, reply states | run, close, request, the reader, the dispatcher, respond / defer / respondThenClose, shutdown | every call settled once, every reply sent at most once, frames dispatched in order, the outcome of run() exact, a stop always completes |
| TS audio stream (`audio.ts`) | partial outbound frame, inbound queue, current frame and offset, chains of reads and writes | bind, write, read, clear, close, the inbound pump | one ordered byte stream each way; bytes accounted for; close settles everything |
| Go session (`session.go`, `session_control.go`, `session_request.go`, `handler.go`) | lifecycle, closing flag, queue of stops, transport factory, pending map with result cells, dispatch queue, reply states | Run, Close, Request, requestStop, reader, dispatcher, Respond / DeferResponse / RespondThenClose, teardown | the same, plus: result cells published once under the lock, no failure hidden by an earlier orderly stop, no transport leaked by an abandoned factory |
| Go media binding (`session_media.go`) | bind state, bound channel, format, pumps | OpenAudio, AcceptAudio, the pumps, the media part of the shutdown | one owner, no channel leaked, no pump started after the join began |
| TS WebSocket transport (`websocket.ts`, adapters in `node.ts`, `browser_socket.ts`) | write chain, two inbound queues, pong queue, closed flag, ready state of the socket | dial, send, receive, clear, keepalive, close | writes in order and flushed; no gap in what is read; a dead peer is noticed; no socket outlives a failed dial or a close |
| TS Node server (`node.ts`) | ws server, set of sessions | listen, admission, close | close() releases what it found; every refused or lost connection ends |
| TS browser audio device (`browser_audio.ts`) | state, microphone, context, worklets, capture chain, playback task and its generation, remote track | attach, prepare, clear, detach, close | a clear silences what came before; the count of buffered audio is right; what is owned is released and what is lent is not |
| TS browser WebRTC (`browser_webrtc.ts`) | peer connection, signalling socket, claim, failure, remote track | factory, openMedia / acceptMedia, monitor, close | a failed factory or a close leaves nothing behind; one claim; a failure reaches the session |
| TS wire, validation, envelope (`wire.ts`, `validation.ts`, `envelope.ts`) | none | encode, decode, validate, serialise | what validates conforms to the declared types; nothing changes on the way |
| TS babelforce.v1 catalog (`generated/`) | none | schemas, types, handlers, clients of both roles | the four tables agree |
| TS memory transport; Go transports and ring buffers; Rust SDK; bridges, generator, tools, website | | | not modelled, see below |

How they interact. The session asks its transport factory for a transport,
starts a *reader* on its control channel and a *dispatcher* that runs the
application's handler one frame at a time. The reader hands responses directly
to the callers that wait for them and queues requests and events for the
dispatcher. Callers register in the pending table, send and wait. Replies are
sent by the handler, automatically when it returns or throws, or later by
background work. Anything can ask for a stop: the application, the handler, a
worker, a monitor, the audio stream. The *supervisor* then fails the pending
requests, closes audio and transport, joins the workers within a timeout and
decides between `closed` and `failed`. In TypeScript the tasks interleave at
each `await`; in Go at each lock, atomic access and channel operation.

Under the session, `WebSocketTransport` chains all writes, pings included,
behind one promise and hands what arrives to two bounded queues; an adapter per
platform turns the events of the socket into its callbacks. The Node server
admits connections and gives each a session of its own. In the browser the
audio device moves samples between worklets and the session's audio stream, or
lends its microphone to a WebRTC transport that negotiates over the WebSocket.
Above the session, generated clients serialise and assert messages by schemas,
and the generated registrations assert, call the handler and serialise back.

What is hard: several events race for one pending request or one reply; a call
registers while the shutdown empties the table; a stop that failed arrives
behind one that did not; a factory returns after it was given up; a media
channel is bound while the session stops; an operation is cut off between two
of its parts; blocked calls must be released; a write fails in the middle of a
chain that close() waits for; a pong comes after its deadline; a clear overtakes
a frame between two threads; setup fails at any of six awaits with some
resources created. The list with its lines is
`hazards` in `PROJECT.json`.

## Modules

| Module | Models | Extends / uses |
|---|---|---|
| `SessionContract` | what a session of any SDK promises: forward lifecycle, calls opened once and settled once, none open at the end, replies at most once and none after a session that ended well | |
| `AsyncQueue`, `MCAsyncQueue`, `AsyncQueue_proofs` | `async.ts` | |
| `TsSession`, `MCTsSession`, `TsSession_proofs` | `session.ts`, `handler.ts` | instantiates `SessionContract` and `AsyncQueue`, its proofs `AsyncQueue_proofs` |
| `TsAudio`, `MCTsAudio`, `TsAudio_proofs` | `audio.ts` | |
| `GoSession`, `MCGoSession`, `GoSession_proofs` | the Go session | instantiates `SessionContract` |
| `GoMedia`, `MCGoMedia`, `GoMedia_proofs` | `session_media.go` with its part of `session.go` | |
| `TsWebSocket`, `MCTsWebSocket`, `TsWebSocket_proofs` | `websocket.ts`, both socket adapters and factories, composed with the session's reader, stop and close | |
| `NodeServer`, `MCNodeServer`, `NodeServer_proofs` | `NodeWebSocketServer` in `node.ts` | |
| `BrowserAudio` | `browser_audio.ts` with its worklets | |
| `BrowserWebRtc`, `MCBrowserWebRtc`, `BrowserWebRtc_proofs` | `browser_webrtc.ts` composed with the audio device | extends `BrowserAudio` |
| `WireFormat` | `wire.ts`, `validation.ts`, `envelope.ts`, classic.v1, as operators | |
| `Catalog` | the generated schemas, types and roles of babelforce.v1 | extends `WireFormat` |
| `TypedCall`, `MCTypedCall` | one call or event through two peers: generated client, session frames, `handler.ts`, generated registration, and back | extends `Catalog` |

Definitions keep the names of the source where possible. An operator marked
*Seeded fault* stands in front of the definition it is a faulty version of: put
in its place it must make TLC report the property it is meant for (`mutants` in
`PROJECT.json`). It is not part of any specification.

**AsyncQueue.** JavaScript runs one call at a time, so each method is one step.
A parked promise is an element of `readers` or `writers`. Values are numbered by
the `push` that offers them, and the history variables `taken`, `dropped` and
`refused` record what became of them.

**TsSession.** One step is the code between two awaits. `supervisor`, `reader`,
`dispatcher` and `call[r]` say where each task is suspended; `pending`, `reply`,
`dispatch`, `state`, `aborted` and `stopFailed` are the fields of the class. The
dispatch queue has one producer and one consumer, so that its parked push is the
reader's control state `push` with the frame in `held`. That this is the queue
of `async.ts` is not assumed but stated: `DispatchIsQueue` maps the session's
state to the variables of `AsyncQueue` and says that every step is one of its
steps. The dispatcher's `shift()` is taken when its frame is; the mapping moves
it back to the time of the call, when the frame was handed over, and a stop that
comes in between finds the frame already gone from the queue. Frames carry an identity;
inbound requests and events are numbered in the order of the peer. The handler
is a nondeterministic client: it may request, respond, defer, end in any way or
never end. The middleware chain is reduced to these outcomes. A send that was
accepted is not withdrawn by the stop: the transport looks at the signal only
before it queues a frame, so `SendCompletes` and `ReplyCompletes` happen as long
as the link is open, after the stop too, and a peer may answer a request before
the await of its send has returned. `transport.close()` that succeeds closes the
link and so ends all of that; one that fails or times out leaves it open.

**TsAudio.** Bytes are numbered in the order in which the application offers
them or the channel receives them, so that "nothing repeated, lost or reordered"
can be read off the numbers. `write()` is modelled per frame because each frame
is an await at which an abort, a failure or close() can come. Observers and
time stamps are left out.

**GoSession.** One step is one critical section, one atomic access, one channel
operation or one call that can block, and the order of these steps follows the
code: `Request` checks `closing`, registers, and checks `closing` again in
`sendFrame`; `respond` checks, claims the reply with a compare-and-swap, and
sends. The factory is a goroutine that may return a transport, fail, obey its
cancellation or be abandoned by the teardown timer. The queue of stops is
reduced to "holds a failed one", which is how it is folded.

**GoMedia.** Any number of concurrent `OpenAudio` and `AcceptAudio` calls
against the shutdown. A step is one section under `mediaMu`, one call of the
transport or one close. `closing` is set without the mutex, as in the code.

**TsWebSocket.** One connection from the dial to the end, on either platform.
`tail` is the promise chain of writes with the running one first; `mending` is
the `#finish` a failed write awaits inside the chain; `closer` is `close()`. The
ready state and the events of the socket are external. ws may report an error
while its closing handshake still runs (`SocketError`): the adapter's `close()`
resolves on it and the transport ends its queues, before the close event comes.
The error of a failed dial and its close event are one step, as in ws. A ping
carries a serial number, of which only "answers the last ping" or "answers an
earlier one" is kept.

**NodeServer.** `conn` says how far the admission of a connection is, `sessions`
is the set of the class, `snapshot` what the running `close()` awaits. Of the
sessions only the lifecycle is left; `deaf` is a session whose socket closed
before its transport attached listeners.

**BrowserAudio and BrowserWebRtc.** The unit of audio is a frame, named by the
playback generation in which the stream delivered it. The playback worklet is a
second thread behind a port in each direction. `own` says whether the device
creates microphone and context or the caller lends them. With the mode `webrtc`
the factory of `BrowserWebRtc` starts the device, in the mode `websocket` the
application does. A waiter of the transport that has looked at the connection
and found nothing is `parked` in `#stateWaiters` until `Wake` takes it out; only
the four places of the code that call `#wakeStateWaiters` do. `raced` records
that `close()` was overlapped by a start or by the attachment of a remote track.

**WireFormat, Catalog and TypedCall.** A JavaScript value is tagged by its kind,
with the kinds of number the wire tells apart (safe integer, fraction, unsafe
integer, NaN / infinity / -0). `ValidateAt`, `SerializeAt`, `EncodeFrame` and
`DecodeFrame` are the functions of the source over these values. `Catalog`
writes down twice what the generator emits twice: schemas for the validator and
interfaces for the compiler, registrations for the server and methods for the
client. `TypedCall` sends one message through all of it; either peer may also be
one that sends anything.

## Runs

| Run | Instance | What it shows |
|---|---|---|
| `async_queue` | capacity 2, 3 producers, 2 consumers, 7 pushes | no wake-up is lost, order of the calls, one fate per value (and well-typed) |
| `ts_session` | 1 call and 3 inbound frames, 3 of both together (`Traffic`), dispatch queue and wire of 1 | no orphaned call, replies and their order exact, exact outcome; implements `SessionContract`; uses its dispatch queue as `AsyncQueue` allows |
| `ts_live` | 1 call, 1 inbound frame | a stop completes; every request() returns, if no send is blocked for ever |
| `ts_audio` | frames of 2 bytes, queue of 1, 3 bytes out, 3 frames in, 2 reads | both byte streams in order and accounted for, a clear leaves at most one frame, close settles everything |
| `go_session` | 2 inbound frames, or 1 beside 1 caller | no orphaned call, replies and ends exact (no hidden failure, no leaked transport), outcomes final; implements `SessionContract` |
| `go_live` | 1 caller | a stop completes and releases every caller, whatever factory, peer and Send do |
| `go_media` | 3 binding calls, 2 formats | one owner, no leaked channel, no late pump, every pump ends after a stop |
| `websocket` | queues and send buffer of 1, 2 misses, 2 sends, 2 messages of each kind, both platforms | order and flush of writes, no gap in what is read, late pongs bounded, no leaked socket (one that outlives close() is closing after an error), every connection settles |
| `node_server` | 3 connections | close() releases what it found and completes, connections end |
| `browser` | buffer of 2 frames, 3 frames, 2 clears, 2 starts, 2 claimants, every mix of owned and lent | no stale playback, exact count, everything owned released and nothing lent, WebRTC set-up and close leave nothing, no wake-up is lost and what is begun ends |
| `typed_calls` | every operation and event, each with its ordinary value and all that differ in one place; arbitrary frames from a foreign peer | only values of the declared types, but for two named departures, pass; nothing is dropped or added, every request answered but for two named cases, both tables agree on terminal operations |
| `ts_ready` | small | the finding below |

*Why the bounds are enough.* The races are between the few parties that compete
for one call, one reply or one slot; a second call or reply adds none, because
calls and replies of different identity share only the lifecycle and the queue.
One call therefore meets every order of response, timer, abort, failed send and
stop. Two inbound frames are needed where order matters. With a dispatch queue
of one, three of them let a handler run, a frame wait and the reader block with
the third in hand; `Traffic` admits the third only where no call is made, so
that a call meets up to two frames. A frame that does not decode is dropped by
the reader and needs no third one after it. `QuietAfterStop` keeps the peer from
sending and the link from failing once the session was told to stop: nobody
receives then, and each send may still succeed or fail. `ts_live` has neither
bound. In `async_queue` three producers exceed the capacity, so that all of the
buffer and two levels of parked writers occur. In `ts_audio` three frames fill
current frame, queue and the hands of the pump at once. Three binding calls let
one fail, one retry and one lose. In `websocket` two sends and a ping put a
failing write in front of, behind and between others; two messages overflow a
queue of one; two misses let a pong be late and still count as one of the
allowed. In `node_server` one connection is inside the snapshot of close(), one
behind it and one in between. In `browser` three frames fill a buffer of two and
leave one waiting for room when a clear comes; the second clear meets the
message of the first on its way. Validation looks at each field by itself,
except for the one ordered pair of `DtmfEvent`, so that values that differ from
a valid one in one place meet every rule. The theorems remove the bounds for the
properties they cover.

`CHECK_DEADLOCK FALSE` is set where the system may come to rest: an ended
session, a closed server or a completed call has no steps left. `async_queue`
and `websocket` check for deadlock.

*Fairness.* Weak fairness is assumed only for what the runtime itself schedules:
the supervisor, the workers, timers and abort signals that have fired, promise
chains, and goroutines that are not blocked. Nothing is assumed of the
application's handler, its begin included, or of the peer. In TypeScript the
factory and `audio.close()` are taken to settle, as their contracts demand,
since `run()` awaits them without a timeout; `transport.close()` and the join
are bounded by one. In Go the factory and OnBegin need not return; closing the
media channel, closing the transport, which is given a deadline, and the close
handlers are taken to. `StopsAndCallsReturn` also assumes that
the transport writes or refuses each frame in the end (`WireFairness`): without it a
`request()` whose timer has fired or whose signal is aborted stays in the await
of its send. A pump is only assumed to end when both the channel and the
buffers it may be blocked in are closed. In `websocket` a closing handshake ends
(ws and browsers have a timer for it) and an open socket takes or fails each
write; in `node_server` the application's `authenticate` and `createHandler`
settle. In `browser` promise reactions and ports run, the abort signal ends reads
and writes, sockets and contexts close; nothing makes the user answer the
permission prompt, the browser settle `context.resume()` or `addModule`, or the
peer connection change its state, and the deadline of a claim is not relied on:
a claimant that learns of a failure learns of it by its wake-up.

## Findings and known limits

`ts_ready` is a `violation` run: a session that fails while connecting leaves
`ready` pending, because the catch block asks whether the state is `connecting`
after `requestStop` has moved it to `closing`.

Known limits of the code, which the passing properties make precise rather than
refute:

- *Queue and audio.* `clear()` of the queue admits every parked writer and may
  so exceed the capacity; `clear()` of the audio stream leaves the frame the
  parked pump holds (`ClearLeavesOneFrame`). A `write()` that is cut off behind
  its first frame leaves `#partial` as it was, so that the next one sends those
  bytes again (`audio.ts:103`).
- *Sessions.* An aborted `request()` returns only when its send does. Behind a
  full dispatch queue the reader does not reach the response a handler waits
  for, so only the request timer or a stop ends that wait. A TypeScript reply is
  marked as sent before it is encoded and sent: if that fails the request stays
  unanswered, although `website/docs/getting-started/protocol.md:44` demands one
  response (`AnsweredExactly` names the cases). In Go, `Close` between the check
  of `respond` and that of `sendFrame` ends an orderly close as failed. When the
  close of the transport fails or times out, a TypeScript session ends failed
  while frames it accepted before the stop may still be written; after an
  orderly end none is.
- *WebSocket.* A ping waits in the write chain: behind a write that never
  completes it does not leave, and only the operating system ends the
  connection. An overflow while `close()` already runs is not acted upon. After an
  error of ws `close()` resolves before the socket is closed; it is closing then.
- *Server.* A connection lost while `createHandler` is pending becomes a session
  that never hears of it. An `onSession` that throws leaves a session in
  `#sessions` for good. A connection admitted after the snapshot of `close()`
  keeps `close()` waiting until its client leaves.
- *Browser.* A `close()` during the permission prompt leaves the microphone that
  is then granted live and the device active. A remote track attached after the
  transport or the device was closed keeps its probe timer, and a factory that
  fails behind the `track` event does not detach it. The report of audio played
  before a clear is subtracted from the count after it, so that the worklet may
  later drop its oldest frame. A stopping session interrupts neither the
  permission prompt nor a `context.resume()` that waits for a user gesture, and
  its factory does not end before they do. When creating the worklet nodes fails
  half-way, the next attach finds `#captureNode`, skips the rest and reports an
  active device that plays nothing. One failed capture write breaks the chain
  for good.
- *Typed calls.* The schemas admit null for a field the interface declares as
  optional only (`["string", "null"]` in the schema of `ApplicationMoveRequest`,
  `reason?: string` in the type its assert function claims), and any field in a
  `Record<string, never>`. `Conforms` is the type as declared; `LetThrough`
  names these two departures and `ConformsToInterfaces` says that there is no
  third. A handler's invalid result is answered with 400, as if the request were
  wrong. A handler that throws an Error without a message, or a
  `ProtocolHandlerError` of code 0 or with data that no JSON text stands for,
  stops the whole session as failed, because that error cannot be encoded.

## Proofs

Every invariant and action property that a run checks of a state machine is also
a theorem, for every value of the constants: any capacity, frame size, number of
producers, consumers, calls, formats, connections, frames and clears. The
exceptions are named below. The assumptions are those of the modules
(`CapacityAssumption`, `DispatchAssumption`, `FormatAssumption`, bounds are
natural numbers, sizes are positive, `None` is neither a call nor a format),
which TLC evaluates in the runs. Each proof has the same shape: an inductive
invariant as a conjunction of named parts, one lemma per part with one step per
action, and the properties as consequences. TLC has checked each inductive
invariant on the instance of its run.

- `AsyncQueue_proofs`: `TypeCorrect`, `NoLostWakeup`, `CallOrderTheorem`,
  `AccountedTheorem`. `ParkedOnlyWhenBlocked` is inductive with `TypeOK`: calls
  park and are released on the lengths of sequences. `CallOrder` and `Accounted`
  are inductive only together: that a new value follows all the others needs
  that every value under way has been offered, and that no value has two fates
  needs that the values under way differ. The lemmas say what each operation
  does to the pipeline of taken, buffered and parked values: leave it alone,
  append to it, cut a piece out of it.
- `TsSession_proofs`: `NoOrphanedCallTheorem`, `OutcomeExactTheorem`,
  `RepliesExactTheorem`, `ContractTheorem`, `DispatchIsQueueTheorem`,
  `DispatchKeepsPromises`. For the calls, `CallInv` adds to `NoOrphanedCall`
  that a call that awaits its send is pending or settled and that a session that
  shuts down has its signal aborted, so that `request()` refuses to register
  behind `#failPending`. `SessionInv` has five more parts. `LifeInv` ties the
  lifecycle state to the supervisor and a recorded failure to a real one, and
  says that a link that is open behind `transport.close()` means a failure, so
  that nothing is written after a good end; `WorkerInv` says that a response
  sent by the dispatcher is for the frame it works on; `FlowInv` that the frames
  dispatched, queued, in the reader's hand and on the wire continue one another;
  `ReplyInv` that a reply exists only for a frame that has been dispatched, so
  that dispatching the next one never reopens a reply, and that a claimed reply
  has one owner; `HoldInv` that the reader holds a frame only behind a full
  queue, unless a stop has cut its push off.
- `DispatchIsQueueTheorem` is the refinement of `AsyncQueue` by the two users of
  `#dispatch`. Every action is, under `SessionInv`, a push that is buffered,
  handed to the waiting dispatcher or parked, a shift with the admission of the
  parked frame, the abort of the one parked call, `close()`, or no step of the
  queue. `HoldInv` is what makes it true: at most one of the two is parked, so
  that a stop is the abort of one call, and an aborted push is either refused or
  was admitted before. `DispatchKeepsPromises` then proves nothing again: it
  instantiates `AsyncQueue_proofs` with the same mapping and concludes, from the
  queue's theorems, that the reader waits only behind a full queue and the
  dispatcher only when nothing is queued or parked, so that they never wait for
  each other, and that every frame offered has one fate and keeps its order.
- `GoSession_proofs`: `NoOrphanedCallTheorem`, `SettledOnceTheorem`,
  `EndsExactTheorem`, `RepliesExactTheorem`, `ContractTheorem`. The parts of
  `SessionInv` are those of TypeScript at the grain of Go's steps, where a check
  and the act it guards are apart: a caller may register behind `failPending`, and
  `CallInv` says that it then still has the second check of `closing` before it;
  several responders may have passed the check of one reply, and `ReplyInv` says
  that one of them is past the compare-and-swap. `TransportInv` names the owner
  of a live transport at any time: the factory goroutine until its result is
  taken or discarded, then the session.
- `ContractTheorem` of both sessions is the refinement of `SessionContract`: the
  initial states map to initial states, and under `SessionInv` each step is an
  action of the contract (a phase moves forward, a call opens, calls settle, a
  reply is sent) or leaves the mapped variables alone.
- `TsAudio_proofs`: `WritesInOrderTheorem`, `ReadsExactTheorem`, `ClearTheorem`.
  `WriteInv` adds that the waiting `write()` calls follow each other and the
  stream and hold nothing that was refused. For reading, `OrderInv` speaks of
  frames where the property speaks of bytes: the frames in the queue, in the
  pump's hand and in the channel are in order, and every byte taken comes before
  them all; `DataOfFrames` translates this to bytes. `CountInv` is the balance of
  bytes, and `PumpInv` says when the pump and a read are parked; the hand-over
  of a frame to a parked read passes by the queue and keeps order only because
  the queue is empty then. The lemma `ReadEffect` reduces all actions to five
  effects: nothing, an arrival, a frame taken, a frame lost to an abort, a clear.
- `TsWebSocket_proofs`: `NoSocketLeakTheorem`, `PongBacklogTheorem`,
  `WriteOrderTheorem`, `InboundExactTheorem`. The bound on pongs is not
  inductive: `PongInv` counts those under way against the misses of the monitor,
  admits one ping in the chain at a time, and says that only the last pong can
  answer the last ping, so that when it does no other is left. `DownInv` says who
  took the socket down before `close()` reached it, `ChainInv` that the chain is
  in order and holds what was neither taken nor rejected, `LifeInv` that `close()`
  waits for the chain after it forbids further writes, `ErrorInv` that only ws
  reports an error and only of a socket that closes.
- `BrowserWebRtc_proofs`: `NoStalePlaybackTheorem`, `PlaybackAccountedTheorem`,
  `CloseReleasesTheorem`, `RtcReleasesTheorem`, for the device alone and with the
  WebRTC transport. `PlayInv` adds that a task that waits for room with a frame
  either has one of the current generation or is behind it, which is what makes
  the check after the wait enough. A wake-up neither takes nor gives back a claim
  (`WakeKeeps`). `CloseInv` and `RtcInv` follow a resource from
  its creation to its owner through every point where a start can fail.
- `GoMedia_proofs`: `SoleOwnerTheorem`, `NoChannelLeakTheorem`,
  `NoLatePumpTheorem`. `MediaInv` adds that the supervisor past "running" implies
  `closing`. That is the heart of the argument: `finishAudioBind` reads `closing`
  under the mutex `closeAudioMedia` takes after `closing` was set, so a bind is
  either visible to the supervisor or refused. It also adds that a call about to
  bind has set the format and that a call has no channel before the transport
  answers.
- `NodeServer_proofs`: `ClosedMeansReleasedTheorem`. `ServerInv` adds that a
  connection still being admitted has no session, so that one which completes
  behind `close()` cannot be among those it awaited; that a session that ended
  has left the set; and that a closed server meets no open connection again
  before the next `listen()`.

Only model-checked:

- liveness, which the prover does not reach: `StopsAndCallsReturn`,
  `StopReleasesAll`, `CloseSettlesAll`, `PumpsEnd`, `ConnectionSettles`,
  `ServerCloseCompletes`, `ConnectionsEnd`, `BrowserSettles`, and the finding
  about `ReadySettles`;
- messages: `ConformsToInterfaces`, `DeliveredExactly` and `AnsweredExactly`,
  since validation and serialisation are recursive operators over nested values,
  about which the prover cannot do induction.

## Not modelled

- The sessions reduce a payload to "decodes or not", "encodes or not";
  `TypedCall` has the payloads, without concurrency. JSON text, key order, sparse
  arrays, accessors and cycles only add to what the encoder refuses.
- Logging, observers, statistics and time stamps keep no state that matters.
  Resampling and sample formats are arithmetic on floats.
- The TypeScript memory transport is a pair of the modelled queues, used by
  tests; profiles and media formats are tables of constants; the demo catalog is
  more output of the generator modelled in `Catalog`.
- Go transports and ring buffers: the session's assumptions on its transport are
  in `GoSession`, the transports themselves rest on gorilla/websocket, pion and
  a ring-buffer library.
- The Rust SDK implements the same contract; nothing of it is modelled.
- Bridges translate messages for one product. Generator, conformance tools,
  release tools and website have no concurrent state of their own.
- `close()` of the server during a pending `listen()`, a second `close()` of a
  device that came back to life, and two concurrent starts of a device.

## Plan

What is left, in the order in which it would say most:

1. The other users of `AsyncQueue` (the inbound queues of `TsWebSocket`, the
   queue of `TsAudio`) as refinements of it, in the way of `DispatchIsQueue`, so
   that they too inherit its theorems.
2. The Rust session as third implementation of `SessionContract`, and the Go
   WebSocket write pump.
