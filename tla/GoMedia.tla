------------------------------- MODULE GoMedia -------------------------------
(***************************************************************************)
(* Binding the sole audio channel of a Go session (sdk/go/session_media.go) *)
(* against its shutdown (beginShutdown and closeResources of session.go).   *)
(*                                                                          *)
(* OpenAudio and AcceptAudio may be called by several goroutines at once.   *)
(* A step is one section under mediaMu, one call to the transport or one    *)
(* call that closes something.  closing is an atomic flag that whoever      *)
(* stops the session sets without holding mediaMu.                          *)
(*                                                                          *)
(* The session has its transport: before that both calls are refused.  The  *)
(* two pumps of a bound channel are reduced to what can end them.  Whether  *)
(* a stop or a close was a failure is the business of GoSession.            *)
(***************************************************************************)
EXTENDS Integers, FiniteSets

CONSTANTS
    Binders,   \* calls of OpenAudio and AcceptAudio
    Formats,   \* media formats with a whole number of bytes per frame
    None       \* no channel, no format, no requested format

ASSUME NoneAssumption == None \notin Binders /\ None \notin Formats

VARIABLES
    closing,        \* Session.closing
    supervisor,     \* the part of the teardown that concerns media
    buffersClosed,  \* audioStream.Close has run
    mediaState,     \* Session.mediaState
    media,          \* Session.media, named after the call that bound it
    format,         \* audioStream.format
    binder,         \* where each call is
    wanted,         \* the format OpenAudio asked for
    channel,        \* the channel the transport gave to each call
    given,          \* its format; None if it is not usable
    pumps           \* <<call, direction>> of the running pumps

sessionVars == <<closing, supervisor, buffersClosed>>
bindVars == <<mediaState, media, format, binder, wanted, channel, given>>
vars == <<sessionVars, bindVars, pumps>>

Directions == {"in", "out"}

TypeOK ==
    /\ closing \in BOOLEAN /\ buffersClosed \in BOOLEAN
    /\ supervisor \in {"running", "closeMedia", "closeChannel", "closeTransport", "join", "ended"}
    /\ mediaState \in {"unbound", "binding", "bound"}
    /\ media \in Binders \cup {None} /\ format \in Formats \cup {None}
    /\ binder \in [Binders -> {"idle", "opening", "checking", "locking", "closing", "done"}]
    /\ wanted \in [Binders -> Formats \cup {None}]
    /\ channel \in [Binders -> {"none", "open", "closed"}]
    /\ given \in [Binders -> Formats \cup {None}]
    /\ pumps \subseteq Binders \X Directions

Init ==
    /\ closing = FALSE /\ supervisor = "running" /\ buffersClosed = FALSE
    /\ mediaState = "unbound" /\ media = None /\ format = None
    /\ binder = [b \in Binders |-> "idle"] /\ wanted = [b \in Binders |-> None]
    /\ channel = [b \in Binders |-> "none"] /\ given = [b \in Binders |-> None]
    /\ pumps = {}

-----------------------------------------------------------------------------
(* OpenAudio and AcceptAudio *)

\* Seeded fault: a bind in progress is not noticed.
BeginAudioBindTwice(b, f) ==
    /\ binder[b] = "idle"
    /\ wanted' = [wanted EXCEPT ![b] = f]
    /\ IF closing \/ mediaState = "bound"
       THEN binder' = [binder EXCEPT ![b] = "done"] /\ UNCHANGED mediaState
       ELSE binder' = [binder EXCEPT ![b] = "opening"] /\ mediaState' = "binding"
    /\ UNCHANGED <<sessionVars, media, format, channel, given, pumps>>

\* beginAudioBind: refused while closing and beside another bind, past or in
\* progress.  AcceptAudio asks for no format (None).
BeginAudioBind(b, f) ==
    /\ binder[b] = "idle"
    /\ wanted' = [wanted EXCEPT ![b] = f]
    /\ IF closing \/ mediaState # "unbound"
       THEN binder' = [binder EXCEPT ![b] = "done"] /\ UNCHANGED mediaState
       ELSE binder' = [binder EXCEPT ![b] = "opening"] /\ mediaState' = "binding"
    /\ UNCHANGED <<sessionVars, media, format, channel, given, pumps>>

\* Transport.OpenMedia or AcceptMedia returns a channel; f is its format, or
\* None for a channel with another id or without a usable format.
MediaOpened(b, f) ==
    /\ binder[b] = "opening"
    /\ binder' = [binder EXCEPT ![b] = "checking"]
    /\ channel' = [channel EXCEPT ![b] = "open"]
    /\ given' = [given EXCEPT ![b] = f]
    /\ UNCHANGED <<sessionVars, mediaState, media, format, wanted, pumps>>

Unbind == mediaState' = IF mediaState = "binding" THEN "unbound" ELSE mediaState

\* It fails, or returns a nil channel: abortAudioBind.
MediaRefused(b) ==
    /\ binder[b] = "opening"
    /\ binder' = [binder EXCEPT ![b] = "done"]
    /\ Unbind
    /\ UNCHANGED <<sessionVars, media, format, wanted, channel, given, pumps>>

\* finishAudioBind up to setFormat: the channel has the right id, a usable
\* format, the requested one, and the one the session already has, if any.
Acceptable(b) ==
    /\ given[b] # None
    /\ wanted[b] \in {None, given[b]}
    /\ format \in {None, given[b]}
FinishChecks(b) ==
    /\ binder[b] = "checking"
    /\ IF Acceptable(b)
       THEN /\ binder' = [binder EXCEPT ![b] = "locking"]
            /\ format' = given[b] /\ UNCHANGED mediaState
       ELSE /\ binder' = [binder EXCEPT ![b] = "closing"]
            /\ Unbind /\ UNCHANGED format
    /\ UNCHANGED <<sessionVars, media, wanted, channel, given, pumps>>

\* Seeded fault: the closing flag is not read again under the lock.
FinishBindsBlindly(b) ==
    /\ binder[b] = "locking"
    /\ binder' = [binder EXCEPT ![b] = "done"]
    /\ mediaState' = "bound" /\ media' = b
    /\ pumps' = pumps \cup ({b} \X Directions)
    /\ UNCHANGED <<sessionVars, format, wanted, channel, given>>

\* The last section of finishAudioBind: bind and add the pumps to mediaWG,
\* unless the session is closing.
FinishBinds(b) ==
    /\ binder[b] = "locking"
    /\ IF closing
       THEN /\ binder' = [binder EXCEPT ![b] = "closing"]
            /\ mediaState' = "unbound" /\ UNCHANGED <<media, pumps>>
       ELSE /\ binder' = [binder EXCEPT ![b] = "done"]
            /\ mediaState' = "bound" /\ media' = b
            /\ pumps' = pumps \cup ({b} \X Directions)
    /\ UNCHANGED <<sessionVars, format, wanted, channel, given>>

\* Seeded fault: the channel that was not bound is dropped.
UnboundDropped(b) ==
    /\ binder[b] = "closing"
    /\ binder' = [binder EXCEPT ![b] = "done"]
    /\ UNCHANGED <<sessionVars, mediaState, media, format, wanted, channel, given, pumps>>

\* channel.Close of a channel that was not bound.
UnboundClosed(b) ==
    /\ binder[b] = "closing"
    /\ binder' = [binder EXCEPT ![b] = "done"]
    /\ channel' = [channel EXCEPT ![b] = "closed"]
    /\ UNCHANGED <<sessionVars, mediaState, media, format, wanted, given, pumps>>

-----------------------------------------------------------------------------
(* The pumps *)

\* A pump ends with an error: io.EOF and io.ErrClosedPipe end it quietly, as
\* does any error once the session is closing; another one stops the session.
PumpFails(p, orderly) ==
    /\ p \in pumps
    /\ pumps' = pumps \ {p}
    /\ IF orderly \/ closing
       THEN UNCHANGED sessionVars
       ELSE closing' = TRUE /\ UNCHANGED <<supervisor, buffersClosed>>
    /\ UNCHANGED bindVars

\* What must end a pump: it may be waiting for the channel or for a buffer of
\* the audio stream, so only when both are closed it surely notices.
PumpReleased(p) ==
    /\ channel[p[1]] = "closed" /\ buffersClosed
    /\ PumpFails(p, TRUE)

-----------------------------------------------------------------------------
(* Shutdown *)

StopRequested ==
    /\ ~closing /\ closing' = TRUE
    /\ UNCHANGED <<supervisor, buffersClosed, bindVars, pumps>>

\* Seeded fault: the handler's buffers stay open.
BeginShutdownKeepsBuffers ==
    /\ supervisor = "running" /\ closing
    /\ supervisor' = "closeMedia"
    /\ UNCHANGED <<closing, buffersClosed, bindVars, pumps>>

\* beginShutdown: the flag is set for good, the handler's buffers are closed.
BeginShutdown ==
    /\ supervisor = "running" /\ closing
    /\ buffersClosed' = TRUE
    /\ supervisor' = "closeMedia"
    /\ UNCHANGED <<closing, bindVars, pumps>>

\* closeAudioMedia: read the channel under mediaMu, close it outside.
CloseAudioMedia ==
    /\ supervisor = "closeMedia"
    /\ supervisor' = IF media = None THEN "closeTransport" ELSE "closeChannel"
    /\ UNCHANGED <<closing, buffersClosed, bindVars, pumps>>

CloseChannel ==
    /\ supervisor = "closeChannel"
    /\ supervisor' = "closeTransport"
    /\ channel' = [channel EXCEPT ![media] = "closed"]
    /\ UNCHANGED <<closing, buffersClosed, mediaState, media, format, binder, wanted, given,
                   pumps>>

CloseTransport ==
    /\ supervisor = "closeTransport"
    /\ supervisor' = "join"
    /\ UNCHANGED <<closing, buffersClosed, bindVars, pumps>>

\* mediaWG.Wait, or the teardown timeout.
Join ==
    /\ supervisor = "join"
    /\ supervisor' = "ended"
    /\ UNCHANGED <<closing, buffersClosed, bindVars, pumps>>

-----------------------------------------------------------------------------
Next ==
    \/ \E b \in Binders :
          \/ \E f \in Formats \cup {None} : BeginAudioBind(b, f) \/ MediaOpened(b, f)
          \/ MediaRefused(b) \/ FinishChecks(b) \/ FinishBinds(b) \/ UnboundClosed(b)
    \/ \E p \in pumps : \/ PumpReleased(p)
                        \/ \E orderly \in BOOLEAN : PumpFails(p, orderly)
    \/ StopRequested \/ BeginShutdown \/ CloseAudioMedia \/ CloseChannel \/ CloseTransport
    \/ Join

Spec == Init /\ [][Next]_vars

\* The supervisor runs, and a pump whose source is closed notices.
FairSpec ==
    /\ Spec
    /\ WF_vars(BeginShutdown) /\ WF_vars(CloseAudioMedia) /\ WF_vars(CloseTransport)
    /\ WF_vars(CloseChannel) /\ WF_vars(Join)
    /\ \A b \in Binders, d \in Directions : WF_vars(PumpReleased(<<b, d>>))

-----------------------------------------------------------------------------
(* Properties *)

\* mediaState tells the truth to the next caller: it says "binding" exactly
\* while one call owns the bind, and "bound" exactly while a channel is bound
\* with the format of the session and nobody else is on the way.
Owners == {b \in Binders : binder[b] \in {"opening", "checking", "locking"}}
SoleOwner ==
    /\ \A b1, b2 \in Owners : b1 = b2
    /\ mediaState = "binding" <=> Owners # {}
    /\ mediaState = "bound" <=> media # None
    /\ media # None => given[media] = format

\* A channel that binds while the session stops is closed by somebody: by the
\* supervisor that finds it bound, or by the call that finds the session
\* closing.
NoChannelLeak ==
    /\ supervisor \in {"closeTransport", "join", "ended"} /\ media # None
          => channel[media] = "closed"
    /\ \A b \in Binders : binder[b] = "done" /\ channel[b] = "open" => b = media

\* What makes the two above inductive: only a stopped session is shut down,
\* the supervisor closes only a channel it found, a call has no channel before
\* the transport answers, and a call about to bind has set the format.
MediaInv ==
    /\ TypeOK /\ SoleOwner /\ NoChannelLeak
    /\ supervisor # "running" => closing
    /\ supervisor = "closeChannel" => media # None
    /\ \A b \in Binders : /\ binder[b] \in {"idle", "opening"} => channel[b] = "none"
                          /\ binder[b] = "locking" => given[b] = format
    /\ media # None => binder[media] = "done"

\* Once the supervisor has looked for a bound channel no pump starts any more:
\* mediaWG is not added to while it is waited for.
NoLatePump == [][supervisor # "running" /\ supervisor # "closeMedia" => pumps' \subseteq pumps]_vars

\* Every pump ends after a stop, without the help of the teardown timeout.
PumpsEnd == closing ~> pumps = {}
=============================================================================
