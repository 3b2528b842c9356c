----------------------------- MODULE BrowserAudio -----------------------------
(***************************************************************************)
(* BrowserAudioDevice of the TypeScript SDK (browser_audio.ts): it starts   *)
(* the microphone and the audio context, loads the worklets, moves audio    *)
(* between them and the session's stream, and releases what it owns.        *)
(*                                                                          *)
(* The unit of audio is one frame; a frame on its way to the loudspeaker is *)
(* the number of the playback generation in which the session's stream     *)
(* delivered it, a clear is the message Clear.  The playback worklet runs   *)
(* on its own thread, behind a FIFO port in each direction.  Resampling and *)
(* sample formats do not matter to the properties and are left out.         *)
(***************************************************************************)
EXTENDS Integers, Sequences

CONSTANTS
    PlaybackFrames,  \* playbackBufferMs, in frames
    MaxFrames,       \* bound: frames the session's stream delivers
    MaxClears,       \* bound: calls of clearPlayback
    MaxStarts,       \* bound: attempts to start the device
    MaxCaptures      \* bound: messages of the capture worklet

ASSUME PlaybackAssumption == PlaybackFrames \in Nat \ {0}
ASSUME DeviceBoundsAssumption ==
    MaxFrames \in Nat /\ MaxClears \in Nat /\ MaxStarts \in Nat /\ MaxCaptures \in Nat

Clear == -1

VARIABLES
    mode,       \* what the device is used for: websocket or webrtc
    own,        \* what it has to create: the caller's config gives the rest
    dstate,     \* #state
    aborted,    \* #abort
    core,       \* #corePromise: none, media, resume, ready, cleaning
    start,      \* the attachWebSocket or prepareWebRtc call in progress
    starts,     \* how many there were
    mic, ctx,   \* the tracks of #stream and #context
    remote,     \* #remoteSource and its probe timer
    closing,    \* close(): no, tails, context, done
    raced,      \* history: a start or a new remote track overlapped close()
    capture,    \* messages chained behind #captureTail
    captured,   \* messages of the capture worklet so far
    broken,     \* #captureTail is rejected
    \* playback
    gen,        \* #playbackGeneration
    play,       \* #playbackTask: off, halfway (only #captureNode is there), reading,
                \* waiting, done
    playGen,    \* its local generation
    frame,      \* the generation in which its frame was delivered
    delivered,  \* frames delivered so far
    buffered,   \* #playbackBufferedDeviceSamples
    port,       \* messages on their way to the worklet
    worklet,    \* the queue of RtvbpPlayback
    consumed    \* "consumed" messages on their way back

coreVars == <<mode, own, starts, core, start, mic, ctx>>
captureVars == <<capture, captured, broken>>
playVars == <<gen, play, playGen, frame, delivered, buffered, port, worklet, consumed>>
deviceVars == <<coreVars, dstate, aborted, remote, closing, raced, captureVars, playVars>>

DeviceInit ==
    /\ mode \in {"websocket", "webrtc"} /\ own \in SUBSET {"mic", "ctx"}
    /\ dstate = "inactive" /\ aborted = FALSE
    /\ core = "none" /\ start = "idle" /\ starts = 0
    /\ mic = "none" /\ ctx = "none" /\ remote = FALSE
    /\ closing = "no" /\ raced = FALSE
    /\ capture = 0 /\ captured = 0 /\ broken = FALSE
    /\ gen = 0 /\ play = "off" /\ playGen = 0 /\ frame = 0 /\ delivered = 0
    /\ buffered = 0 /\ port = <<>> /\ worklet = <<>> /\ consumed = 0

-----------------------------------------------------------------------------
(* Starting *)

InFlight == start \in {"core", "worklet"}

\* #fail: a closed device stays closed.
Fail == dstate' = IF dstate = "closed" THEN dstate ELSE "failed"

\* What the device owns is released: the tracks at once.
MicReleased == IF "mic" \in own /\ mic = "live" THEN "stopped" ELSE mic

\* A start fails after the microphone was opened: #ensureCore stops what it
\* owns, awaits the close of its context and forgets #corePromise.
StartCleanup ==
    /\ mic' = MicReleased
    /\ core' = IF "ctx" \in own /\ ctx = "open" THEN "cleaning" ELSE "none"

\* attachWebSocket or prepareWebRtc up to the first await: a closed device
\* refuses; a started core is shared; with the caller's stream and context
\* the first thing awaited is context.resume().
Start ==
    /\ start \in {"idle", "failed"} /\ starts < MaxStarts
    /\ starts' = starts + 1
    /\ raced' = (raced \/ (closing # "no" /\ dstate # "closed"))
    /\ IF dstate = "closed" THEN start' = "failed" /\ UNCHANGED <<dstate, core, mic, ctx>>
       ELSE IF core = "ready"
       THEN start' = (IF mode = "websocket" THEN "worklet" ELSE "done")
            /\ dstate' = (IF mode = "websocket" THEN dstate ELSE "active")
            /\ UNCHANGED <<core, mic, ctx>>
       ELSE /\ start' = "core" /\ dstate' = "starting" /\ core = "none"
            /\ IF "mic" \in own THEN core' = "media" /\ UNCHANGED <<mic, ctx>>
               ELSE core' = "resume" /\ mic' = "live" /\ ctx' = "open"
    /\ UNCHANGED <<mode, own, aborted, remote, closing, captureVars, playVars>>

\* getUserMedia resolves; the context is created and resumed.
MediaGranted ==
    /\ core = "media"
    /\ mic' = "live" /\ ctx' = "open" /\ core' = "resume"
    /\ UNCHANGED <<mode, own, starts, start, dstate, aborted, remote, closing, raced, captureVars, playVars>>

\* getUserMedia rejects, or its stream is unfit or no longer wanted.
MediaRefused(granted) ==
    /\ core = "media"
    /\ mic' = IF granted THEN "stopped" ELSE mic
    /\ core' = "none" /\ start' = "failed" /\ Fail
    /\ UNCHANGED <<mode, own, starts, ctx, aborted, remote, closing, raced, captureVars, playVars>>

\* context.resume() resolves, which may take for ever.
CoreReady ==
    /\ core = "resume"
    /\ core' = "ready"
    /\ start' = IF mode = "websocket" THEN "worklet" ELSE "done"
    /\ dstate' = IF mode = "websocket" THEN dstate ELSE "active"
    /\ UNCHANGED <<mode, own, starts, mic, ctx, aborted, remote, closing, raced, captureVars, playVars>>

CoreBlocked ==
    /\ core = "resume"
    /\ StartCleanup
    /\ start' = IF core' = "none" THEN "failed" ELSE start
    /\ IF core' = "none" THEN Fail ELSE UNCHANGED dstate
    /\ UNCHANGED <<mode, own, starts, ctx, aborted, remote, closing, raced, captureVars, playVars>>

CoreCleaned ==
    /\ core = "cleaning"
    /\ core' = "none" /\ ctx' = "closed" /\ start' = "failed" /\ Fail
    /\ UNCHANGED <<mode, own, starts, mic, aborted, remote, closing, raced, captureVars, playVars>>

\* #startWorklets: addModule resolves, the nodes are connected and the
\* playback task begins, unless the device is aborted.  Where #captureNode is
\* there already this is skipped.
WorkletsStart ==
    /\ start = "worklet"
    /\ start' = "done" /\ dstate' = "active"
    /\ IF play = "off" THEN play' = (IF aborted THEN "done" ELSE "reading") /\ playGen' = gen
                       ELSE UNCHANGED <<play, playGen>>
    /\ UNCHANGED <<mode, own, starts, core, mic, ctx, aborted, remote, closing, raced, captureVars,
                   gen, frame, delivered, buffered, port, worklet, consumed>>

\* addModule rejects, or a later step throws when #captureNode is set: the next
\* attach then finds it and reports an active device that plays nothing.
WorkletsFail(half) ==
    /\ start = "worklet" /\ play = "off"
    /\ start' = "failed" /\ Fail
    /\ play' = IF half THEN "halfway" ELSE play
    /\ UNCHANGED <<mode, own, starts, core, mic, ctx, aborted, remote, closing, raced, captureVars,
                   gen, playGen, frame, delivered, buffered, port, worklet, consumed>>

-----------------------------------------------------------------------------
(* Capture *)

\* The capture worklet posts samples; their write is chained.
CaptureMessage ==
    /\ play \notin {"off", "halfway"} /\ mic = "live" /\ captured < MaxCaptures
    /\ captured' = captured + 1 /\ capture' = capture + 1
    /\ UNCHANGED <<coreVars, dstate, aborted, remote, closing, raced, broken, playVars>>

\* #writeCapture settles.  After a failure the chain stays rejected.
CaptureWritten(ok) ==
    /\ capture > 0
    /\ capture' = capture - 1
    /\ broken' = (broken \/ ~ok)
    /\ IF broken' THEN Fail ELSE UNCHANGED dstate
    /\ UNCHANGED <<coreVars, aborted, remote, closing, raced, captured, playVars>>

-----------------------------------------------------------------------------
(* Playback *)

\* read() delivers a frame; it is dropped when a clear came meanwhile.
PlayReads ==
    /\ play = "reading" /\ ~aborted /\ delivered < MaxFrames
    /\ delivered' = delivered + 1
    /\ IF playGen = gen THEN play' = "waiting" /\ frame' = gen /\ UNCHANGED playGen
                        ELSE playGen' = gen /\ UNCHANGED <<play, frame>>
    /\ UNCHANGED <<coreVars, dstate, aborted, remote, closing, raced, captureVars,
                   gen, buffered, port, worklet, consumed>>

\* Seeded fault: the generation is not looked at again after the wait.
PlayPostsStale ==
    /\ play = "waiting" /\ ~aborted /\ buffered < PlaybackFrames
    /\ play' = "reading" /\ playGen' = gen
    /\ buffered' = buffered + 1 /\ port' = Append(port, frame)
    /\ UNCHANGED <<coreVars, dstate, aborted, remote, closing, raced, captureVars,
                   gen, frame, delivered, worklet, consumed>>

\* Seeded fault: the frame is posted without waiting for room.
PlayPostsEagerly ==
    /\ play = "waiting" /\ ~aborted
    /\ play' = "reading" /\ playGen' = gen
    /\ IF playGen = gen THEN buffered' = buffered + 1 /\ port' = Append(port, frame)
                        ELSE UNCHANGED <<buffered, port>>
    /\ UNCHANGED <<coreVars, dstate, aborted, remote, closing, raced, captureVars,
                   gen, frame, delivered, worklet, consumed>>

\* There is room: the frame is counted and posted, unless a clear came while
\* the task waited.
PlayPosts ==
    /\ play = "waiting" /\ ~aborted /\ buffered < PlaybackFrames
    /\ play' = "reading" /\ playGen' = gen
    /\ IF playGen = gen THEN buffered' = buffered + 1 /\ port' = Append(port, frame)
                        ELSE UNCHANGED <<buffered, port>>
    /\ UNCHANGED <<coreVars, dstate, aborted, remote, closing, raced, captureVars,
                   gen, frame, delivered, worklet, consumed>>

\* The abort signal ends read() and the wait; a failing read ends the task.
PlayEnds ==
    /\ play \in {"reading", "waiting"}
    /\ play = "waiting" => aborted
    /\ play' = "done"
    /\ IF aborted THEN UNCHANGED dstate ELSE Fail
    /\ UNCHANGED <<coreVars, aborted, remote, closing, raced, captureVars,
                   gen, playGen, frame, delivered, buffered, port, worklet, consumed>>

\* The worklet's port: a clear empties the queue; when it is full the oldest
\* frame makes room and is reported as consumed.
WorkletReceives ==
    /\ port # <<>>
    /\ port' = Tail(port)
    /\ IF Head(port) = Clear THEN worklet' = <<>> /\ UNCHANGED consumed
       ELSE IF Len(worklet) = PlaybackFrames
       THEN worklet' = Append(Tail(worklet), Head(port)) /\ consumed' = consumed + 1
       ELSE worklet' = Append(worklet, Head(port)) /\ UNCHANGED consumed
    /\ UNCHANGED <<coreVars, dstate, aborted, remote, closing, raced, captureVars,
                   gen, play, playGen, frame, delivered, buffered>>

\* process(): the first frame is played and reported.
WorkletPlays ==
    /\ worklet # <<>>
    /\ worklet' = Tail(worklet) /\ consumed' = consumed + 1
    /\ UNCHANGED <<coreVars, dstate, aborted, remote, closing, raced, captureVars,
                   gen, play, playGen, frame, delivered, buffered, port>>

ConsumedArrives ==
    /\ consumed > 0
    /\ consumed' = consumed - 1
    /\ buffered' = IF buffered > 0 THEN buffered - 1 ELSE 0
    /\ UNCHANGED <<coreVars, dstate, aborted, remote, closing, raced, captureVars,
                   gen, play, playGen, frame, delivered, port, worklet>>

\* clearPlayback: a new generation; the frames counted as buffered are
\* forgotten and the worklet is told.
ClearPlayback ==
    /\ gen' = gen + 1 /\ buffered' = 0
    /\ port' = IF play \in {"off", "halfway"} THEN port ELSE Append(port, Clear)

AppClears ==
    /\ gen < MaxClears /\ closing = "no"
    /\ ClearPlayback
    /\ UNCHANGED <<coreVars, dstate, aborted, remote, closing, raced, captureVars,
                   play, playGen, frame, delivered, worklet, consumed>>

-----------------------------------------------------------------------------
(* Closing *)

\* close(): abort, clear, disconnect, detach the remote track.
Close ==
    /\ dstate # "closed" /\ closing = "no"
    /\ aborted' = TRUE /\ remote' = FALSE /\ closing' = "tails"
    /\ raced' = InFlight
    /\ ClearPlayback
    /\ UNCHANGED <<coreVars, dstate, captureVars, play, playGen, frame, delivered, worklet, consumed>>

\* Seeded fault: a stream the caller has lent is stopped as well.
CloseStopsBorrowed ==
    /\ closing = "tails" /\ capture = 0 /\ play \in {"off", "halfway", "done"}
    /\ mic' = IF mic = "live" THEN "stopped" ELSE mic
    /\ closing' = "context"
    /\ UNCHANGED <<mode, own, starts, core, start, ctx, dstate, aborted, remote, raced, captureVars, playVars>>

\* The capture chain and the playback task have ended: stop the microphone.
CloseStops ==
    /\ closing = "tails" /\ capture = 0 /\ play \in {"off", "halfway", "done"}
    /\ mic' = MicReleased
    /\ closing' = "context"
    /\ UNCHANGED <<mode, own, starts, core, start, ctx, dstate, aborted, remote, raced, captureVars, playVars>>

\* The owned context, if there is one, is closed.
CloseReturns ==
    /\ closing = "context"
    /\ ctx' = IF "ctx" \in own /\ ctx = "open" THEN "closed" ELSE ctx
    /\ closing' = "done" /\ dstate' = "closed"
    /\ UNCHANGED <<mode, own, starts, core, start, mic, aborted, remote, raced, captureVars, playVars>>

-----------------------------------------------------------------------------
DeviceNext ==
    \/ MediaRefused(TRUE) \/ MediaRefused(FALSE)
    \/ CoreReady \/ CoreBlocked \/ CoreCleaned \/ WorkletsStart
    \/ WorkletsFail(TRUE) \/ WorkletsFail(FALSE)
    \/ CaptureMessage \/ CaptureWritten(TRUE) \/ CaptureWritten(FALSE)
    \/ PlayReads \/ PlayPosts \/ PlayEnds
    \/ WorkletReceives \/ WorkletPlays \/ ConsumedArrives \/ AppClears
    \/ Close \/ CloseStops \/ CloseReturns

\* Promise reactions and ports run, the abort signal ends a read or a write in
\* progress, and the context's close() settles.  Nothing makes the user answer
\* the permission prompt of getUserMedia, or the browser settle the resume() of
\* a context it does not allow to play yet.
DeviceFairness ==
    /\ WF_deviceVars(CoreCleaned)
    /\ WF_deviceVars(aborted /\ (CaptureWritten(TRUE) \/ CaptureWritten(FALSE)))
    /\ WF_deviceVars(aborted /\ PlayEnds)
    /\ WF_deviceVars(WorkletReceives) /\ WF_deviceVars(WorkletPlays) /\ WF_deviceVars(ConsumedArrives)
    /\ WF_deviceVars(CloseStops) /\ WF_deviceVars(CloseReturns)

-----------------------------------------------------------------------------
(* Properties *)

Frames(s) == {i \in 1 .. Len(s) : s[i] # Clear}
Cleared(s) == {i \in 1 .. Len(s) : s[i] = Clear}

\* A clear silences what came before it, although it overtakes a playback task
\* that is reading or waiting for room: no frame delivered before the last
\* clear is behind the clear message on its way to the worklet.
NoStalePlayback ==
    /\ \A i \in Frames(port) : (\A j \in Cleared(port) : j < i) => port[i] = gen
    /\ Cleared(port) = {} => \A i \in Frames(worklet) : worklet[i] = gen

\* Until the first clear the device counts exactly the frames between it and
\* the loudspeaker, and never lets the worklet's queue overflow.
PlaybackAccounted ==
    gen = 0 => /\ buffered = Len(port) + Len(worklet) + consumed
               /\ Len(port) + Len(worklet) <= PlaybackFrames

\* A close() that no start and no new remote track overlaps leaves no
\* microphone, context, remote track or playback task of the device behind,
\* whatever failed before; and at no time does the device stop or close what
\* the caller has lent it.
CloseReleases ==
    /\ closing = "done" /\ ~raced =>
         /\ "mic" \in own => mic # "live"
         /\ "ctx" \in own => ctx # "open"
         /\ ~remote /\ play \in {"off", "halfway", "done"} /\ dstate = "closed"
    /\ "mic" \notin own => mic # "stopped"
    /\ "ctx" \notin own => ctx # "closed"
=============================================================================
