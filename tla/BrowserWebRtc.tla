---------------------------- MODULE BrowserWebRtc ----------------------------
(***************************************************************************)
(* The browser WebRTC transport of the TypeScript SDK (browser_webrtc.ts)   *)
(* together with the audio device it is given: the factory that opens the   *)
(* signalling socket, prepares the microphone and negotiates an offer, and  *)
(* BrowserWebRtcTransport with its media claim, its health monitor and its  *)
(* remote track.  In the mode "websocket" the device serves a WebSocket     *)
(* session instead and the actions below do not happen.                     *)
(*                                                                          *)
(* The signalling socket is the WebSocketTransport of TsWebSocket; here it  *)
(* is open, closing or closed.  RTCPeerConnection is external.  A waiter    *)
(* that is "parked" is in #stateWaiters and looks at the state again only   *)
(* when it is woken.                                                        *)
(***************************************************************************)
EXTENDS BrowserAudio

CONSTANTS Claimants      \* callers of openMedia and acceptMedia

VARIABLES
    fac,        \* the factory: idle, socket, prepare, negotiate, up, failing, failed
    stop,       \* the session's abort signal
    neg,        \* negotiateOffer: off, offer, gather, answer, apply, done, dead
    base,       \* the signalling transport
    peer,       \* connectionState
    claimed,    \* #claimed
    claim,      \* the openMedia and acceptMedia calls: idle, waiting, parked, held
    mon,        \* monitor(): off, wait, parked, failed, ended
    failure,    \* #failure
    seen,       \* #remoteTrackSeen
    attaching,  \* the device is about to attach the remote track
    over,       \* #closed
    tclose      \* close() of the transport: no, base, done

rtcVars == <<fac, stop, neg, base, peer, claimed, claim, mon, failure, seen, attaching, over, tclose>>
vars == <<deviceVars, rtcVars>>

RtcInit ==
    /\ fac = "idle" /\ stop = FALSE /\ neg = "off" /\ base = "none" /\ peer = "none"
    /\ claimed = FALSE /\ claim = [k \in Claimants |-> "idle"]
    /\ mon = "off" /\ failure = FALSE /\ seen = FALSE /\ attaching = FALSE /\ over = FALSE /\ tclose = "no"

Init == DeviceInit /\ RtcInit

-----------------------------------------------------------------------------
(* The factory *)

\* openBrowserWebSocket is called.
Dial ==
    /\ mode = "webrtc" /\ fac = "idle"
    /\ fac' = "socket"
    /\ UNCHANGED <<deviceVars, stop, neg, base, peer, claimed, claim, mon, failure, seen, attaching, over, tclose>>

\* It rejects: there is nothing to release yet.
DialFails ==
    /\ fac = "socket"
    /\ fac' = "failed"
    /\ UNCHANGED <<deviceVars, stop, neg, base, peer, claimed, claim, mon, failure, seen, attaching, over, tclose>>

\* It resolves, but the server has selected another subprotocol.
ProfileRefused ==
    /\ fac = "socket"
    /\ fac' = "failing" /\ base' = "closing"
    /\ UNCHANGED <<deviceVars, stop, neg, peer, claimed, claim, mon, failure, seen, attaching, over, tclose>>

\* It resolves: a peer connection is created and the device prepared.
Prepare ==
    /\ fac = "socket" /\ ~stop
    /\ fac' = "prepare" /\ base' = "open" /\ peer' = "new"
    /\ Start
    /\ UNCHANGED <<stop, neg, claimed, claim, mon, failure, seen, attaching, over, tclose>>

\* Seeded fault: the peer connection survives a failed factory.
FactoryFailsKeepingPeer ==
    /\ fac' = "failing"
    /\ neg' = IF neg = "done" THEN neg ELSE "dead"
    /\ base' = IF base = "open" THEN "closing" ELSE base
    /\ peer' = peer

\* The catch of the factory: abort the negotiation, close the peer connection
\* and await the close of the socket.
FactoryFails ==
    /\ fac' = "failing"
    /\ neg' = IF neg = "done" THEN neg ELSE "dead"
    /\ base' = IF base = "open" THEN "closing" ELSE base
    /\ peer' = "closed"

\* prepareWebRtc rejects.
PrepareFails ==
    /\ fac = "prepare" /\ start = "failed"
    /\ FactoryFails
    /\ UNCHANGED <<deviceVars, stop, claimed, claim, mon, failure, seen, attaching, over, tclose>>

\* The track is added with the PCMU codec, the transport listens to the peer
\* connection, and the offer is created.
Negotiate ==
    /\ fac = "prepare" /\ start = "done"
    /\ fac' = "negotiate" /\ neg' = "offer"
    /\ UNCHANGED <<deviceVars, stop, base, peer, claimed, claim, mon, failure, seen, attaching, over, tclose>>

\* negotiateOffer: the offer is set, the candidates are gathered, the offer is
\* sent and answered, the answer is applied.
NegotiationStep ==
    /\ fac = "negotiate"
    /\ \E s \in {<<"offer", "gather">>, <<"gather", "answer">>, <<"answer", "apply">>, <<"apply", "done">>} :
         neg = s[1] /\ neg' = s[2]
    /\ neg \in {"gather", "answer"} => base = "open"
    /\ peer # "closed"
    /\ UNCHANGED <<deviceVars, fac, stop, base, peer, claimed, claim, mon, failure, seen, attaching, over, tclose>>

\* A step rejects (no codec, no socket, a bad or negative answer), the
\* negotiation times out, or the session's signal is aborted.
NegotiationFails ==
    /\ fac = "negotiate" /\ neg # "done"
    /\ FactoryFails
    /\ UNCHANGED <<deviceVars, stop, claimed, claim, mon, failure, seen, attaching, over, tclose>>

\* The factory returns the transport; the session starts its monitor.
FactoryReturns ==
    /\ fac = "negotiate" /\ neg = "done"
    /\ fac' = "up" /\ mon' = "wait"
    /\ UNCHANGED <<deviceVars, stop, neg, base, peer, claimed, claim, failure, seen, attaching, over, tclose>>

FactoryRejects ==
    /\ fac = "failing" /\ base = "closed"
    /\ fac' = "failed"
    /\ UNCHANGED <<deviceVars, stop, neg, base, peer, claimed, claim, mon, failure, seen, attaching, over, tclose>>

-----------------------------------------------------------------------------
(* Events of the socket and the peer connection *)

\* #wakeStateWaiters: every parked waiter will look at the state again.
Wake ==
    /\ mon' = IF mon = "parked" THEN "wait" ELSE mon
    /\ claim' = [k \in Claimants |-> IF claim[k] = "parked" THEN "waiting" ELSE claim[k]]

\* The socket is lost, or its close() ends.
BaseCloses ==
    /\ base \in {"open", "closing"}
    /\ base' = "closed"
    /\ UNCHANGED <<deviceVars, fac, stop, neg, peer, claimed, claim, mon, failure, seen, attaching, over, tclose>>

Listening == fac \in {"negotiate", "up"} /\ tclose = "no"

\* Seeded fault: the waiters are not woken.
PeerChangesQuietly(state) ==
    /\ Listening /\ peer \in {"new", "connected"} /\ peer # state
    /\ peer' = state
    /\ failure' = (failure \/ state \in {"failed", "closed"})
    /\ over' = (over \/ state = "closed")
    /\ UNCHANGED <<deviceVars, fac, stop, neg, base, claimed, claim, mon, seen, attaching, tclose>>

\* handleConnectionState.
PeerChanges(state) ==
    /\ Listening /\ peer \in {"new", "connected"} /\ peer # state
    /\ peer' = state
    /\ failure' = (failure \/ state \in {"failed", "closed"})
    /\ over' = (over \/ state = "closed")
    /\ Wake
    /\ UNCHANGED <<deviceVars, fac, stop, neg, base, claimed, seen, attaching, tclose>>

\* handleTrack: the first remote audio track goes to the device, which attaches
\* it after an await; a second one, one that is not audio or one that comes to
\* a closed device is a failure.
Track(fit) ==
    /\ Listening /\ peer # "closed"
    /\ seen => ~failure          \* bound: further tracks change nothing
    /\ LET taken == fit /\ ~seen /\ dstate # "closed" IN
       /\ seen' = (seen \/ fit)
       /\ failure' = (failure \/ ~taken)
       /\ attaching' = (attaching \/ taken)
       /\ IF taken THEN UNCHANGED <<mon, claim>> ELSE Wake
    /\ UNCHANGED <<deviceVars, fac, stop, neg, base, peer, claimed, over, tclose>>

\* attachRemoteTrack renders the track, whatever was closed meanwhile; a step
\* that throws before or after that is a failure.
TrackAttached(rendered, ok) ==
    /\ attaching /\ (ok => rendered)
    /\ attaching' = FALSE
    /\ remote' = (remote \/ rendered)
    /\ failure' = (failure \/ ~ok)
    /\ raced' = (raced \/ closing # "no" \/ tclose # "no")
    /\ IF ok THEN UNCHANGED <<mon, claim>> ELSE Wake
    /\ UNCHANGED <<coreVars, dstate, aborted, closing, captureVars, playVars,
                   fac, stop, neg, base, peer, claimed, seen, over, tclose>>

-----------------------------------------------------------------------------
(* The transport in the hands of the session *)

\* claimAndWait: the first caller claims the channel, later ones are refused.
Claim(k) ==
    /\ fac = "up" /\ claim[k] = "idle" /\ ~claimed
    /\ claimed' = TRUE /\ claim' = [claim EXCEPT ![k] = "waiting"]
    /\ UNCHANGED <<deviceVars, fac, stop, neg, base, peer, mon, failure, seen, attaching, over, tclose>>

\* waitConnected looks at the connection: the channel is held, the claim given
\* back, or the caller parked.
ClaimLooks(k) ==
    /\ claim[k] = "waiting"
    /\ \/ peer = "connected" /\ claim' = [claim EXCEPT ![k] = "held"] /\ UNCHANGED claimed
       \/ /\ peer # "connected" /\ (failure \/ peer = "closed")
          /\ claim' = [claim EXCEPT ![k] = "idle"] /\ claimed' = FALSE
       \/ /\ peer \notin {"connected", "closed"} /\ ~failure
          /\ claim' = [claim EXCEPT ![k] = "parked"] /\ UNCHANGED claimed
    /\ UNCHANGED <<deviceVars, fac, stop, neg, base, peer, mon, failure, seen, attaching, over, tclose>>

\* The deadline passes or the caller's signal is aborted: the channel can be
\* claimed again.
ClaimGivenUp(k) ==
    /\ claim[k] \in {"waiting", "parked"}
    /\ claimed' = FALSE /\ claim' = [claim EXCEPT ![k] = "idle"]
    /\ UNCHANGED <<deviceVars, fac, stop, neg, base, peer, mon, failure, seen, attaching, over, tclose>>

\* monitor(): it ends with the signal, the first failure or the transport, and
\* parks otherwise; the signal ends a parked one too.
Monitor ==
    /\ mon = "wait" \/ (mon = "parked" /\ stop)
    /\ mon' = IF stop THEN "ended" ELSE IF failure THEN "failed" ELSE IF over THEN "ended" ELSE "parked"
    /\ UNCHANGED <<deviceVars, fac, stop, neg, base, peer, claimed, claim, failure, seen, attaching, over, tclose>>

\* The session is asked to stop, or one of its workers has ended.
SessionStops ==
    /\ mode = "webrtc" /\ fac # "idle" /\ ~stop
    /\ stop' = TRUE
    /\ UNCHANGED <<deviceVars, fac, neg, base, peer, claimed, claim, mon, failure, seen, attaching, over, tclose>>

\* close(): stop listening, detach the remote track, close the media channel,
\* the peer connection and the socket.
TransportCloses ==
    /\ fac = "up" /\ stop /\ tclose = "no"
    /\ tclose' = "base" /\ remote' = FALSE /\ peer' = "closed"
    /\ base' = IF base = "open" THEN "closing" ELSE base
    /\ UNCHANGED <<coreVars, dstate, aborted, closing, raced, captureVars, playVars,
                   fac, stop, neg, claimed, claim, mon, failure, seen, attaching, over>>

TransportClosed ==
    /\ tclose = "base" /\ base = "closed"
    /\ tclose' = "done" /\ over' = TRUE /\ Wake
    /\ UNCHANGED <<deviceVars, fac, stop, neg, base, peer, claimed, failure, seen, attaching>>

-----------------------------------------------------------------------------
\* In the mode "websocket" the application starts the device; the session's
\* signal is checked when getUserMedia has resolved.
Device ==
    \/ DeviceNext
    \/ mode = "websocket" /\ Start
    \/ ~stop /\ MediaGranted

Next ==
    \/ Device /\ UNCHANGED rtcVars
    \/ Dial \/ DialFails \/ ProfileRefused \/ Prepare \/ PrepareFails \/ Negotiate
    \/ NegotiationStep \/ NegotiationFails \/ FactoryReturns \/ FactoryRejects
    \/ BaseCloses
    \/ \E state \in {"connected", "failed", "closed"} : PeerChanges(state)
    \/ \E fit, ok \in BOOLEAN : Track(fit) \/ TrackAttached(fit, ok)
    \/ \E k \in Claimants : Claim(k) \/ ClaimLooks(k) \/ ClaimGivenUp(k)
    \/ Monitor \/ SessionStops \/ TransportCloses \/ TransportClosed

Spec == Init /\ [][Next]_vars

\* Besides the device's: awaited calls settle or time out, and a session that
\* stops closes its transport.  A woken waiter looks again and the session's
\* signal ends a wait; the deadline of a claim is not relied on.
FairSpec ==
    /\ Spec /\ DeviceFairness
    /\ WF_vars(DialFails \/ ProfileRefused \/ Prepare) /\ WF_vars(PrepareFails) /\ WF_vars(Negotiate)
    /\ WF_vars(NegotiationFails) /\ WF_vars(FactoryReturns) /\ WF_vars(FactoryRejects)
    /\ WF_vars(base = "closing" /\ BaseCloses)
    /\ WF_vars(Monitor) /\ WF_vars(TransportCloses) /\ WF_vars(TransportClosed)
    /\ \A k \in Claimants : WF_vars(ClaimLooks(k)) /\ WF_vars(stop /\ ClaimGivenUp(k))

-----------------------------------------------------------------------------
(* Properties *)

\* A factory that rejects and a transport that is closed leave neither socket
\* nor peer connection behind; a closed transport leaves no remote track on the
\* device, unless the attachment of one overlapped the close; and concurrent
\* openMedia and acceptMedia calls never share the channel.
RtcReleases ==
    /\ fac = "failed" => base \in {"none", "closed"} /\ peer \in {"none", "closed"}
    /\ tclose = "done" => base = "closed" /\ peer = "closed" /\ (remote => raced)
    /\ \A j, k \in Claimants : j # k => "idle" \in {claim[j], claim[k]}

\* What is begun ends: close() of the device; the factory of a session that
\* stops, unless the permission prompt or context.resume() stays pending for
\* ever.  No wake-up is lost: a failure of the media reaches the monitor, and a
\* claimant learns of it, or of the connection, without its deadline.  Closing
\* the transport releases everyone who waits on it.
Waiting(k) == claim[k] \in {"waiting", "parked"}
BrowserSettles ==
    /\ (closing = "tails") ~> (closing = "done")
    /\ (stop ~> (fac \in {"up", "failed"})) \/ <>[](core \in {"media", "resume"})
    /\ (fac = "up" /\ failure) ~> (mon \in {"failed", "ended"})
    /\ \A k \in Claimants : (Waiting(k) /\ (failure \/ peer = "connected")) ~> ~Waiting(k)
    /\ (tclose = "base") ~> (tclose = "done" /\ \A k \in Claimants : ~Waiting(k))
=============================================================================
