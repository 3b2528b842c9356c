----------------------------- MODULE TsSession ------------------------------
(***************************************************************************)
(* The session runtime of the TypeScript SDK                                *)
(* (sdk/typescript/src/session.ts, with the dispatch of handler.ts).        *)
(*                                                                          *)
(* JavaScript interleaves only at an await, so one step is the code between *)
(* two awaits.  The tasks that interleave are the supervisor (#supervise),  *)
(* the control reader, the serial dispatcher with the application's handler *)
(* in it, the outgoing request() calls, deferred replies sent from          *)
(* background work, request timers and abort signals, the transport and the *)
(* remote peer.                                                             *)
(*                                                                          *)
(* Abstractions.  Frames carry an identity and no payload.  Inbound requests*)
(* and events are numbered in the order in which the peer sends them.       *)
(* The causes of a stop are reduced to "failed or not".  The dispatch queue *)
(* is AsyncQueue with one producer (the reader) and one consumer (the       *)
(* dispatcher); its parked push is the reader's control state "push".       *)
(* notify() sends a frame and keeps no state; it is not an action.          *)
(***************************************************************************)
EXTENDS Integers, Sequences, FiniteSets

CONSTANTS
    Calls,             \* outgoing request() calls
    MaxInbound,        \* bound: requests and events the peer sends
    DispatchCapacity,  \* dispatchCapacity of the session configuration
    WireCapacity       \* bound: frames the transport holds for the reader

ASSUME DispatchAssumption == DispatchCapacity \in Nat \ {0}
ASSUME BoundsAssumption == MaxInbound \in Nat /\ WireCapacity \in Nat

VARIABLES
    \* the session object
    state,         \* #state
    aborted,       \* #abort.signal.aborted
    stopFailed,    \* #stopFailed
    ready,         \* the promise behind the getter "ready"
    supervisor,    \* where #supervise is suspended
    \* the link
    link,          \* #transport as its control channel sees it
    inbound,       \* frames admitted by the transport, not yet received
    peerSent,      \* how many numbered frames the peer has sent
    \* the workers
    reader, held,          \* #readControl and the frame it is pushing
    dispatch,              \* #dispatch
    dispatcher, current,   \* #dispatchControl and the frame it handles
    handled,               \* history: the numbered frames dispatched, in order
    \* outgoing requests
    call,          \* where each request() call is suspended
    pending,       \* keys of #pending
    terminalCalls, \* calls made with options.terminal
    result,        \* how the promise "result" of each call was settled
    asked,         \* calls whose request frame reached the wire
    nested,        \* the call the running handler awaits, at most one
    \* replies to inbound requests
    reply,         \* ReplyState.status, "none" before the request is dispatched
    replying,      \* responses being sent: who awaits the send, and closeAfter
    answered,      \* response frames on the wire per inbound request
    closedAfter,   \* history: requests whose respondThenClose stopped the session
    fault          \* history: something failed that is not an orderly end

sessionVars == <<state, aborted, stopFailed, ready, supervisor>>
linkVars == <<link, inbound, peerSent>>
workerVars == <<reader, held, dispatch, dispatcher, current, handled>>
callVars == <<call, pending, terminalCalls, result, asked, nested>>
replyVars == <<reply, replying, answered, closedAfter>>
vars == <<sessionVars, linkVars, workerVars, callVars, replyVars, fault>>

Inbound == 1 .. MaxInbound
NoFrame == [kind |-> "none", id |-> 0]
NumberedFrame == [kind : {"request", "event"}, id : Inbound]
Frame == NumberedFrame
         \cup [kind : {"response"}, id : Calls]
         \cup {[kind |-> "garbage", id |-> 0]}

States == {"inactive", "connecting", "active", "closing", "closed", "failed"}
Outcomes == {"answered", "timeout", "aborted", "unsent", "closed"}
ReplyStatus == {"none", "unclaimed", "deferred", "sent"}
\* Who awaits the send of a response: the handler that called respond, the
\* dispatcher's automatic answer or error answer, or background work that
\* holds a DeferredResponse.
Senders == {"handler", "auto", "error", "background"}
Reply == [id : Inbound, by : Senders, close : BOOLEAN]

TypeOK ==
    /\ state \in States
    /\ aborted \in BOOLEAN /\ stopFailed \in BOOLEAN
    /\ ready \in {"pending", "resolved", "rejected"}
    /\ supervisor \in {"idle", "factory", "begin", "run", "closeAudio",
                       "closeTransport", "joinWorkers", "ended"}
    /\ link \in {"none", "open", "eof", "broken", "closed"}
    /\ inbound \in Seq(Frame) /\ peerSent \in 0 .. MaxInbound
    /\ reader \in {"off", "receive", "push", "done"}
    /\ held \in NumberedFrame \cup {NoFrame}
    /\ dispatch \in Seq(NumberedFrame)
    /\ dispatcher \in {"off", "shift", "handling", "sending", "done"}
    /\ current \in NumberedFrame \cup {NoFrame}
    /\ handled \in Seq(Inbound)
    /\ call \in [Calls -> {"idle", "sending", "waiting", "returned"}]
    /\ pending \subseteq Calls /\ terminalCalls \subseteq Calls
    /\ result \in [Calls -> Outcomes \cup {"none"}]
    /\ asked \subseteq Calls
    /\ nested \subseteq Calls
    /\ reply \in [Inbound -> ReplyStatus]
    /\ replying \subseteq Reply
    /\ answered \in [Inbound -> Nat]
    /\ closedAfter \subseteq Inbound
    /\ fault \in BOOLEAN

Init ==
    /\ state = "inactive" /\ aborted = FALSE /\ stopFailed = FALSE
    /\ ready = "pending" /\ supervisor = "idle"
    /\ link = "none" /\ inbound = <<>> /\ peerSent = 0
    /\ reader = "off" /\ held = NoFrame
    /\ dispatch = <<>>
    /\ dispatcher = "off" /\ current = NoFrame /\ handled = <<>>
    /\ call = [r \in Calls |-> "idle"] /\ pending = {} /\ terminalCalls = {}
    /\ result = [r \in Calls |-> "none"] /\ asked = {} /\ nested = {}
    /\ reply = [q \in Inbound |-> "none"] /\ replying = {}
    /\ answered = [q \in Inbound |-> 0] /\ closedAfter = {}
    /\ fault = FALSE

-----------------------------------------------------------------------------
(* Stopping *)

\* requestStop(cause, failed).  The first call decides; a later one can only
\* turn the outcome into a failure.
RequestStop(failed) ==
    IF aborted
    THEN /\ stopFailed' = (stopFailed \/ failed)
         /\ UNCHANGED <<state, aborted>>
    ELSE /\ stopFailed' = failed
         /\ aborted' = TRUE
         /\ state' = IF state = "inactive" THEN state ELSE "closing"

\* A stop requested by the application: close(), HandlerContext.close(), the
\* parent signal of run(), or requestStop() itself, before run() too.
StopRequested ==
    /\ ~aborted
    /\ RequestStop(FALSE)
    /\ UNCHANGED <<ready, supervisor, linkVars, workerVars, callVars, replyVars, fault>>

\* The keepalive monitor, the transport monitor or the audio pump ends.  An
\* audio channel or monitor that reports "closed" is an orderly end.
MonitorEnds(failed) ==
    /\ supervisor \in {"begin", "run"}
    /\ ~aborted
    /\ RequestStop(failed)
    /\ fault' = (fault \/ failed)
    /\ UNCHANGED <<ready, supervisor, linkVars, workerVars, callVars, replyVars>>

\* The audio pump fails after the stop was requested: its onError callback
\* is not guarded by the abort signal.
LateAudioFailure ==
    /\ supervisor \in {"begin", "run", "closeAudio"}
    /\ aborted /\ ~stopFailed
    /\ RequestStop(TRUE)
    /\ fault' = TRUE
    /\ UNCHANGED <<ready, supervisor, linkVars, workerVars, callVars, replyVars>>

-----------------------------------------------------------------------------
(* Outgoing requests *)

\* Settle the promises of the calls in S that are still pending.  A call that
\* already awaits its result returns; one that still awaits its send does not.
SettlePending(S, outcome) ==
    LET T == S \cap pending IN
    /\ pending' = pending \ S
    /\ result' = [r \in Calls |-> IF r \in T THEN outcome ELSE result[r]]
    /\ call' = [r \in Calls |->
                  IF r \in T /\ call[r] = "waiting" THEN "returned" ELSE call[r]]

\* request(): register, then send.  The send fails at once when the session
\* is stopping, has no transport, or the parameters cannot be encoded.
Request(r, terminal, encodable) ==
    /\ call[r] = "idle"
    /\ state \in {"connecting", "active"}          \* #requireConnected
    /\ IF aborted \/ link = "none" \/ ~encodable
       THEN /\ result' = [result EXCEPT ![r] = "unsent"]
            /\ call' = [call EXCEPT ![r] = "returned"]
            /\ UNCHANGED pending
       ELSE /\ pending' = pending \cup {r}
            /\ call' = [call EXCEPT ![r] = "sending"]
            /\ UNCHANGED result
    /\ terminalCalls' = IF terminal THEN terminalCalls \cup {r} ELSE terminalCalls
    /\ UNCHANGED <<sessionVars, linkVars, workerVars, asked, replyVars, fault>>

AppRequest(r, terminal, encodable) ==
    Request(r, terminal, encodable) /\ UNCHANGED nested

\* The transport has written the frame; the call goes on to await its result.
\* A transport may look at the abort signal only before it queues a frame, so a
\* frame queued before the stop is written after it too, while the link is up.
SendCompletes(r) ==
    /\ call[r] = "sending"
    /\ link = "open"
    /\ call' = [call EXCEPT ![r] = IF r \in pending THEN "waiting" ELSE "returned"]
    /\ asked' = asked \cup {r}
    /\ UNCHANGED <<sessionVars, linkVars, workerVars, pending, terminalCalls,
                   result, nested, replyVars, fault>>

\* The transport rejects the frame, or the abort signal ends the wait for it.
SendFails(r) ==
    /\ call[r] = "sending"
    /\ aborted \/ link # "open"
    /\ pending' = pending \ {r}
    /\ result' = [result EXCEPT ![r] = IF r \in pending THEN "unsent" ELSE @]
    /\ call' = [call EXCEPT ![r] = "returned"]
    /\ UNCHANGED <<sessionVars, linkVars, workerVars, terminalCalls, asked,
                   nested, replyVars, fault>>

\* The timer of the call, or its own abort signal: #cancelPending.
CancelPending(r, outcome) ==
    /\ r \in pending
    /\ SettlePending({r}, outcome)
    /\ UNCHANGED <<sessionVars, linkVars, workerVars, terminalCalls, asked,
                   nested, replyVars, fault>>

-----------------------------------------------------------------------------
(* The remote peer and the link *)

PeerSends(f) ==
    /\ link = "open"
    /\ Len(inbound) < WireCapacity
    /\ inbound' = Append(inbound, f)

\* A request or an event of the peer.
PeerOffers(kind) ==
    /\ peerSent < MaxInbound
    /\ PeerSends([kind |-> kind, id |-> peerSent + 1])
    /\ peerSent' = peerSent + 1
    /\ UNCHANGED <<sessionVars, link, workerVars, callVars, replyVars, fault>>

\* A response of the peer.  A response may be repeated, late or unwanted, and
\* it may arrive while the call still awaits the send of its request.
PeerAnswers(r) ==
    /\ r \in asked \/ call[r] = "sending"
    /\ PeerSends([kind |-> "response", id |-> r])
    /\ UNCHANGED <<sessionVars, link, peerSent, workerVars, callVars, replyVars, fault>>

PeerSendsGarbage ==
    /\ PeerSends([kind |-> "garbage", id |-> 0])
    /\ UNCHANGED <<sessionVars, link, peerSent, workerVars, callVars, replyVars, fault>>

\* The peer ends the connection in order ("eof") or the wire fails ("broken").
LinkEnds(how) ==
    /\ link = "open"
    /\ link' = how
    /\ UNCHANGED <<sessionVars, inbound, peerSent, workerVars, callVars, replyVars, fault>>

-----------------------------------------------------------------------------
(* The control reader *)

\* A response settles its pending call on the reader; a terminal one then
\* stops the session.  Requests and events go to the dispatch queue, where the
\* reader waits while it is full.  Frames that do not decode are skipped.
ReaderReceives ==
    /\ reader = "receive" /\ ~aborted
    /\ inbound # <<>>
    /\ inbound' = Tail(inbound)
    /\ LET f == Head(inbound) IN
       \/ /\ f.kind = "garbage"
          /\ UNCHANGED <<state, aborted, stopFailed, reader, held, dispatch,
                         call, pending, result>>
       \/ /\ f.kind = "response"
          /\ SettlePending({f.id}, "answered")
          /\ IF f.id \in pending \cap terminalCalls
             THEN RequestStop(FALSE)
             ELSE UNCHANGED <<state, aborted, stopFailed>>
          /\ UNCHANGED <<reader, held, dispatch>>
       \/ /\ f.kind \in {"request", "event"}
          /\ IF Len(dispatch) < DispatchCapacity
             THEN dispatch' = Append(dispatch, f) /\ UNCHANGED <<reader, held>>
             ELSE reader' = "push" /\ held' = f /\ UNCHANGED dispatch
          /\ UNCHANGED <<state, aborted, stopFailed, call, pending, result>>
    /\ UNCHANGED <<ready, supervisor, link, peerSent, dispatcher, current, handled,
                   terminalCalls, asked, nested, replyVars, fault>>

\* The control channel reports its end once everything admitted is received.
ReaderEnds ==
    /\ reader = "receive" /\ ~aborted
    /\ inbound = <<>>
    /\ link \in {"eof", "broken"}
    /\ reader' = "done"
    /\ RequestStop(link = "broken")
    /\ fault' = (fault \/ link = "broken")
    /\ UNCHANGED <<ready, supervisor, linkVars, held, dispatch, dispatcher, current,
                   handled, callVars, replyVars>>

\* Seeded fault: a worker reports the abort that stopped it as its failure.
ReaderAbortedAsFailure ==
    /\ reader \in {"receive", "push"} /\ aborted
    /\ reader' = "done"
    /\ RequestStop(TRUE)
    /\ UNCHANGED <<ready, supervisor, linkVars, held, dispatch, dispatcher, current, handled,
                   callVars, replyVars, fault>>

\* receive() and the parked push both end with the abort signal; "held" keeps
\* the frame whose push was cut off.
ReaderAborted ==
    /\ reader \in {"receive", "push"} /\ aborted
    /\ reader' = "done"
    /\ UNCHANGED <<sessionVars, linkVars, held, dispatch, dispatcher, current, handled,
                   callVars, replyVars, fault>>

-----------------------------------------------------------------------------
(* The serial dispatcher and the handler it runs *)

\* Seeded fault: the freed slot wakes the reader without its frame.
DispatcherShiftsDroppingHeld ==
    /\ dispatcher = "shift"
    /\ dispatch # <<>>
    /\ dispatcher' = "handling"
    /\ current' = Head(dispatch)
    /\ handled' = Append(handled, Head(dispatch).id)
    /\ dispatch' = Tail(dispatch)
    /\ reader' = IF reader = "push" THEN "receive" ELSE reader
    /\ held' = NoFrame
    /\ reply' = [reply EXCEPT ![Head(dispatch).id] =
                    IF Head(dispatch).kind = "request" THEN "unclaimed" ELSE "none"]
    /\ UNCHANGED <<sessionVars, linkVars, callVars, replying, answered, closedAfter, fault>>

\* What is queued once the oldest frame is taken: the frame the reader holds is
\* admitted into the freed slot.
AfterShift == IF held = NoFrame THEN Tail(dispatch) ELSE Append(Tail(dispatch), held)

\* shift(): take the oldest frame and admit the frame the reader holds.  The
\* call is made before the stop; a frame it has got is handled after it too.
DispatcherShifts ==
    /\ dispatcher = "shift"
    /\ dispatch # <<>>
    /\ dispatcher' = "handling"
    /\ current' = Head(dispatch)
    /\ handled' = Append(handled, Head(dispatch).id)
    /\ dispatch' = AfterShift
    /\ reader' = IF reader = "push" THEN "receive" ELSE reader
    /\ held' = NoFrame
    /\ reply' = [reply EXCEPT ![Head(dispatch).id] =
                    IF Head(dispatch).kind = "request" THEN "unclaimed" ELSE "none"]
    /\ UNCHANGED <<sessionVars, linkVars, callVars, replying, answered, closedAfter, fault>>

\* Seeded fault: the frame that shift() returned is given up with the abort.
DispatcherAbortedWithFrame ==
    /\ dispatcher = "shift" /\ aborted
    /\ dispatcher' = "done"
    /\ UNCHANGED <<sessionVars, linkVars, reader, held, dispatch, current, handled,
                   callVars, replyVars, fault>>

\* A shift() that still waits for a frame ends with the abort signal.
DispatcherAborted ==
    /\ dispatcher = "shift" /\ aborted
    /\ dispatch = <<>>
    /\ dispatcher' = "done"
    /\ UNCHANGED <<sessionVars, linkVars, reader, held, dispatch, current, handled,
                   callVars, replyVars, fault>>

\* The handler runs while it is neither sending a response nor awaiting a
\* nested request.
HandlerRuns ==
    /\ dispatcher = "handling"
    /\ \A r \in nested : call[r] = "returned"

\* A request made from inside the handler and awaited there.
HandlerRequests(r, terminal, encodable) ==
    /\ HandlerRuns
    /\ Request(r, terminal, encodable)
    /\ nested' = {r}

\* #requireReply and #respond: one-shot, refused once the session stops.  The
\* reply counts as sent before the frame is.
MayRespond(q) ==
    /\ reply[q] \in {"unclaimed", "deferred"}
    /\ state \notin {"closing", "closed", "failed"}

StartResponse(q, by, close) ==
    /\ reply' = [reply EXCEPT ![q] = "sent"]
    /\ replying' = replying \cup {[id |-> q, by |-> by, close |-> close]}
    /\ UNCHANGED <<answered, closedAfter>>

HandlerResponds(close) ==
    /\ HandlerRuns /\ current.kind = "request"
    /\ MayRespond(current.id)
    /\ StartResponse(current.id, "handler", close)
    /\ dispatcher' = "sending"
    /\ UNCHANGED <<sessionVars, linkVars, reader, held, dispatch, current, handled,
                   callVars, fault>>

\* deferResponse(): claim the reply for background work.
HandlerDefers ==
    /\ HandlerRuns /\ current.kind = "request"
    /\ MayRespond(current.id)
    /\ reply[current.id] = "unclaimed"
    /\ reply' = [reply EXCEPT ![current.id] = "deferred"]
    /\ UNCHANGED <<sessionVars, linkVars, workerVars, callVars, replying, answered,
                   closedAfter, fault>>

\* Where the dispatcher goes once a frame is dealt with: back to the loop test.
Resume ==
    /\ dispatcher' = IF aborted THEN "done" ELSE "shift"
    /\ current' = NoFrame
    /\ nested' = {}

\* The handler ends.  An unclaimed reply is answered by the dispatcher: with
\* the result (how = "result" or "terminal"), or with an error when there is
\* none ("nothing") or the handler threw ("throws").  A throw answers a
\* deferred reply too.  Both answers are refused once the session stops.
HandlerEnds(how) ==
    /\ HandlerRuns
    /\ current.kind = "event" => how \in {"nothing", "throws"}
    /\ LET q == current.id
           answers == /\ current.kind = "request"
                      /\ reply[q] = "unclaimed" \/ (how = "throws" /\ reply[q] = "deferred")
           by == IF how \in {"result", "terminal"} THEN "auto" ELSE "error"
       IN  IF answers /\ MayRespond(q)
           THEN /\ StartResponse(q, by, how = "terminal")
                /\ dispatcher' = "sending" /\ nested' = {}
                /\ UNCHANGED current
           ELSE Resume /\ UNCHANGED replyVars
    /\ UNCHANGED <<sessionVars, linkVars, reader, held, dispatch, handled, call, pending,
                   terminalCalls, result, asked, fault>>

\* Background work answers through its DeferredResponse.
DeferredResponds(q, close) ==
    /\ reply[q] = "deferred" /\ MayRespond(q)
    /\ StartResponse(q, "background", close)
    /\ UNCHANGED <<sessionVars, linkVars, workerVars, callVars, fault>>

\* Who goes on when the send of response p is settled.
AfterReply(p) ==
    /\ replying' = replying \ {p}
    /\ \/ /\ p.by = "background"
          /\ UNCHANGED <<dispatcher, current, nested>>
       \/ /\ p.by = "handler"
          /\ dispatcher' = "handling"
          /\ UNCHANGED <<current, nested>>
       \/ /\ p.by \in {"auto", "error"}
          /\ dispatcher' = IF aborted' THEN "done" ELSE "shift"
          /\ current' = NoFrame
          /\ nested' = {}

\* The response is on the wire, before or after a stop (see SendCompletes);
\* respondThenClose then stops the session.
ReplyCompletes(p) ==
    /\ p \in replying
    /\ link = "open"
    /\ answered' = [answered EXCEPT ![p.id] = @ + 1]
    /\ IF p.close
       THEN RequestStop(FALSE) /\ closedAfter' = closedAfter \cup {p.id}
       ELSE UNCHANGED <<state, aborted, stopFailed, closedAfter>>
    /\ AfterReply(p)
    /\ UNCHANGED <<ready, supervisor, linkVars, reader, held, dispatch, handled, call,
                   pending, terminalCalls, result, asked, reply, fault>>

\* The response cannot be encoded, the transport refuses it, or the abort
\* signal ends the wait.  Only a failed error answer stops the session.
ReplyFails(p) ==
    /\ p \in replying
    /\ IF p.by = "error" /\ ~aborted
       THEN RequestStop(TRUE) /\ fault' = TRUE
       ELSE UNCHANGED <<state, aborted, stopFailed, fault>>
    /\ AfterReply(p)
    /\ UNCHANGED <<ready, supervisor, linkVars, reader, held, dispatch, handled, call,
                   pending, terminalCalls, result, asked, reply, answered, closedAfter>>

-----------------------------------------------------------------------------
(* The supervisor *)

\* The reader and the dispatcher start; a session stopped before that finds
\* their loop tests false.
StartWorkers ==
    /\ link' = "open"
    /\ reader' = IF aborted THEN "done" ELSE "receive"
    /\ dispatcher' = IF aborted THEN "done" ELSE "shift"
    /\ supervisor' = "begin"

\* run() with a transport ("transport"), with a factory ("factory"), or with a
\* parent signal that is already aborted ("cancelled").
Run(how) ==
    /\ supervisor = "idle"
    /\ CASE how = "transport" ->
              /\ StartWorkers
              /\ state' = "connecting"
              /\ UNCHANGED <<aborted, stopFailed, ready, pending, result, call, fault>>
         [] how = "factory" ->
              /\ supervisor' = "factory"
              /\ state' = "connecting"
              /\ UNCHANGED <<aborted, stopFailed, ready, link, reader, dispatcher,
                             pending, result, call, fault>>
         [] how = "cancelled" ->
              \* the throw is caught before anything was started
              /\ supervisor' = "closeAudio"
              /\ state' = IF aborted THEN "connecting" ELSE "closing"
              /\ ready' = IF aborted THEN "rejected" ELSE ready
              /\ aborted' = TRUE
              /\ stopFailed' = IF aborted THEN stopFailed ELSE TRUE
              /\ SettlePending(Calls, "closed")
              /\ fault' = (fault \/ ~aborted)
              /\ UNCHANGED <<link, reader, dispatcher>>
    /\ UNCHANGED <<inbound, peerSent, held, dispatch, current, handled, terminalCalls,
                   asked, nested, replyVars>>

\* The catch block followed by the first part of the finally block, up to the
\* await of audio.close().
CatchAndClose(failed) ==
    /\ IF aborted THEN UNCHANGED <<state, aborted, stopFailed>> ELSE RequestStop(failed)
    /\ ready' = IF state' = "connecting" THEN "rejected" ELSE ready
    /\ SettlePending(Calls, "closed")
    /\ supervisor' = "closeAudio"

FactoryReturns ==
    /\ supervisor = "factory"
    /\ StartWorkers
    /\ UNCHANGED <<state, aborted, stopFailed, ready, inbound, peerSent, held, dispatch,
                   current, handled, callVars, replyVars, fault>>

FactoryFails ==
    /\ supervisor = "factory"
    /\ CatchAndClose(TRUE)
    /\ fault' = (fault \/ ~aborted)
    /\ UNCHANGED <<linkVars, workerVars, terminalCalls, asked, nested, replyVars>>

\* Handler.begin resolves while the session is not stopped.
BeginReturns ==
    /\ supervisor = "begin" /\ ~aborted
    /\ state' = "active"
    /\ ready' = "resolved"
    /\ supervisor' = "run"
    /\ UNCHANGED <<aborted, stopFailed, linkVars, workerVars, callVars, replyVars, fault>>

BeginFails ==
    /\ supervisor = "begin" /\ ~aborted
    /\ CatchAndClose(TRUE)
    /\ fault' = TRUE
    /\ UNCHANGED <<linkVars, workerVars, terminalCalls, asked, nested, replyVars>>

StoppedWhileStarting ==
    /\ supervisor = "begin" /\ aborted
    /\ CatchAndClose(TRUE)
    /\ UNCHANGED <<linkVars, workerVars, terminalCalls, asked, nested, replyVars, fault>>

\* Seeded fault: the shutdown does not settle the pending requests.
StoppedLeavingPending ==
    /\ supervisor = "run" /\ aborted
    /\ supervisor' = "closeAudio"
    /\ UNCHANGED <<state, aborted, stopFailed, ready, linkVars, workerVars, callVars,
                   replyVars, fault>>

\* The session was active; the finally block up to audio.close().
Stopped ==
    /\ supervisor = "run" /\ aborted
    /\ SettlePending(Calls, "closed")
    /\ supervisor' = "closeAudio"
    /\ UNCHANGED <<state, aborted, stopFailed, ready, linkVars, workerVars, terminalCalls,
                   asked, nested, replyVars, fault>>

\* audio.close() settles; transport.close() is called if there is one.
AudioClosed(ok) ==
    /\ supervisor = "closeAudio"
    /\ supervisor' = IF link = "none" THEN "joinWorkers" ELSE "closeTransport"
    /\ stopFailed' = (stopFailed \/ ~ok)
    /\ fault' = (fault \/ ~ok)
    /\ UNCHANGED <<state, aborted, ready, linkVars, workerVars, callVars, replyVars>>

\* Seeded fault: close() does not wait for the frames that are queued.
TransportClosedUnflushed(ok) ==
    /\ supervisor = "closeTransport"
    /\ supervisor' = "joinWorkers"
    /\ stopFailed' = (stopFailed \/ ~ok)
    /\ fault' = (fault \/ ~ok)
    /\ UNCHANGED <<state, aborted, ready, linkVars, workerVars, callVars, replyVars>>

\* transport.close() resolves: the frames still queued are written or refused
\* and the link is down.  Or it rejects or times out, and the transport is left
\* as it is: its queue may go on draining.
TransportClosed(ok) ==
    /\ supervisor = "closeTransport"
    /\ supervisor' = "joinWorkers"
    /\ link' = IF ok THEN "closed" ELSE link
    /\ stopFailed' = (stopFailed \/ ~ok)
    /\ fault' = (fault \/ ~ok)
    /\ UNCHANGED <<state, aborted, ready, inbound, peerSent, workerVars, callVars, replyVars>>

\* Seeded fault: the join of the workers has no timeout.
WorkersJoinedWithoutTimeout ==
    /\ supervisor = "joinWorkers"
    /\ reader \in {"off", "done"} /\ dispatcher \in {"off", "done"}
    /\ supervisor' = "ended"
    /\ state' = IF stopFailed THEN "failed" ELSE "closed"
    /\ UNCHANGED <<aborted, stopFailed, ready, linkVars, workerVars, callVars, replyVars, fault>>

\* Every worker has ended, or the close timeout gives up on one that has not.
WorkersJoined ==
    LET joined == reader \in {"off", "done"} /\ dispatcher \in {"off", "done"} IN
    /\ supervisor = "joinWorkers"
    /\ supervisor' = "ended"
    /\ stopFailed' = (stopFailed \/ ~joined)
    /\ fault' = (fault \/ ~joined)
    /\ state' = IF stopFailed' THEN "failed" ELSE "closed"
    /\ UNCHANGED <<aborted, ready, linkVars, workerVars, callVars, replyVars>>

-----------------------------------------------------------------------------
Supervise ==
    \/ \E how \in {"transport", "factory", "cancelled"} : Run(how)
    \/ FactoryReturns \/ FactoryFails
    \/ BeginReturns \/ BeginFails \/ StoppedWhileStarting
    \/ Stopped
    \/ \E ok \in BOOLEAN : AudioClosed(ok) \/ TransportClosed(ok)
    \/ WorkersJoined

Outgoing ==
    \/ \E r \in Calls, terminal, encodable \in BOOLEAN :
          AppRequest(r, terminal, encodable) \/ HandlerRequests(r, terminal, encodable)
    \/ \E r \in Calls : \/ SendCompletes(r) \/ SendFails(r)
                        \/ CancelPending(r, "timeout") \/ CancelPending(r, "aborted")

Peer ==
    \/ \E kind \in {"request", "event"} : PeerOffers(kind)
    \/ \E r \in Calls : PeerAnswers(r)
    \/ PeerSendsGarbage
    \/ \E how \in {"eof", "broken"} : LinkEnds(how)

Dispatch ==
    \/ DispatcherShifts \/ DispatcherAborted
    \/ \E close \in BOOLEAN : HandlerResponds(close)
    \/ HandlerDefers
    \/ \E how \in {"result", "terminal", "nothing", "throws"} : HandlerEnds(how)
    \/ \E q \in Inbound, close \in BOOLEAN : DeferredResponds(q, close)
    \/ \E p \in replying : ReplyCompletes(p) \/ ReplyFails(p)

Next ==
    \/ Supervise
    \/ Outgoing
    \/ Peer
    \/ ReaderReceives \/ ReaderEnds \/ ReaderAborted
    \/ Dispatch
    \/ StopRequested
    \/ \E failed \in BOOLEAN : MonitorEnds(failed)
    \/ LateAudioFailure

Spec == Init /\ [][Next]_vars

-----------------------------------------------------------------------------
(* Fairness: what the SDK's own tasks, timers and abort signals guarantee.   *)
(* A factory and audio.close() settle, as their contracts demand, and the    *)
(* timeout of transport.close() fires; the application's handler, its begin  *)
(* included, and the peer guarantee nothing.                                 *)

SdkFairness ==
    /\ WF_vars(FactoryReturns \/ FactoryFails)
    /\ WF_vars(StoppedWhileStarting) /\ WF_vars(Stopped)
    /\ WF_vars(\E ok \in BOOLEAN : AudioClosed(ok) \/ TransportClosed(ok))
    /\ WF_vars(WorkersJoined)
    /\ WF_vars(ReaderReceives) /\ WF_vars(ReaderEnds) /\ WF_vars(ReaderAborted)
    /\ WF_vars(DispatcherShifts) /\ WF_vars(DispatcherAborted)
    /\ \A r \in Calls : WF_vars(CancelPending(r, "timeout"))

\* The transport writes or refuses every frame in the end: request() awaits its
\* send without a timeout, so a send blocked for ever would block the call.
WireFairness == \A r \in Calls : WF_vars(SendCompletes(r) \/ SendFails(r))

FairSpec == Spec /\ SdkFairness
FairWireSpec == FairSpec /\ WireFairness

-----------------------------------------------------------------------------
(* Properties *)

ShuttingDown == supervisor \in {"closeAudio", "closeTransport", "joinWorkers", "ended"}

\* A caller that awaits its result has an entry in #pending that some event can
\* still settle, a settled call has none, and once #failPending has run no call
\* can leave an entry behind.
NoOrphanedCall ==
    /\ \A r \in Calls : /\ call[r] = "waiting" => r \in pending
                        /\ r \in pending => result[r] = "none"
                        /\ call[r] = "returned" => result[r] # "none"
    /\ ShuttingDown => pending = {}

\* The strengthening that makes NoOrphanedCall inductive: a call that still
\* awaits its send is either pending or already settled, only a call that has
\* begun is pending, and a session that shuts down has its signal aborted, so
\* that request() refuses to register.
CallInv ==
    /\ pending \subseteq Calls
    /\ call \in [Calls -> {"idle", "sending", "waiting", "returned"}]
    /\ result \in [Calls -> Outcomes \cup {"none"}]
    /\ \A r \in Calls :
          /\ r \in pending => result[r] = "none" /\ call[r] \in {"sending", "waiting"}
          /\ call[r] = "idle" => result[r] = "none"
          /\ call[r] = "sending" => r \in pending \/ result[r] # "none"
          /\ call[r] = "waiting" => r \in pending
          /\ call[r] = "returned" => result[r] # "none"
    /\ ShuttingDown => aborted /\ pending = {}

\* Handler, automatic answer, error answer and deferred answer compete for one
\* reply: at most one response reaches the wire.
AtMostOneResponse ==
    /\ \A q \in Inbound : answered[q] <= 1
    /\ \A p \in replying : answered[p.id] = 0 /\ reply[p.id] = "sent"
    /\ \A p1, p2 \in replying : p1.id = p2.id => p1 = p2

\* Every request and event the peer sent is, in the order sent, dispatched,
\* queued, held by the blocked reader or still in the transport, and a stop
\* that cuts the reader off leaves it so: the reader's fast path for responses
\* and the races of the stop reorder and lose nothing.
Ids(fs) == [i \in 1 .. Len(fs) |-> fs[i].id]
HeldIds == IF held = NoFrame THEN <<>> ELSE <<held.id>>
Received == handled \o Ids(dispatch) \o HeldIds
OnTheWire == {i \in 1 .. Len(inbound) : inbound[i] \in NumberedFrame}
DispatchedInOrder ==
    /\ \A i \in 1 .. Len(Received) : Received[i] = i
    /\ {inbound[i].id : i \in OnTheWire} = Len(Received) + 1 .. peerSent
    /\ \A i, j \in OnTheWire : i < j => inbound[i].id < inbound[j].id

\* What the peer sees of its frames is exact: they are dispatched completely
\* and in order, each request is answered at most once whoever tries, and
\* respondThenClose stops the session only after its response was sent.
RepliesExact ==
    /\ TypeOK
    /\ AtMostOneResponse
    /\ DispatchedInOrder
    /\ \A q \in closedAfter : answered[q] = 1

\* The outcome of run() is exact: failed if and only if something failed, and
\* never because of an orderly close racing the workers it stops.
OutcomeExact == supervisor = "ended" => (state = "failed" <=> fault)

\* A session that was asked to stop ends, whatever its handler and peer do,
\* and every request() call returns: answered, timed out, aborted or failed.
StopsAndCallsReturn ==
    /\ (aborted /\ supervisor # "idle") ~> (supervisor = "ended")
    /\ \A r \in Calls : (call[r] = "sending") ~> (call[r] = "returned")

\* The TypeScript guide starts a session with "await session.ready" inside
\* try/finally because "session setup ... can fail": ready must be settled
\* when the session has ended.
ReadySettles == supervisor = "ended" => ready # "pending"

\* The session implements what every SDK promises of a session: among other
\* things, a response that was queued when the session was told to stop reaches
\* the wire before the session is "closed" or never, and after "failed" only
\* because the session gave up on a transport that was still writing.
Contract == INSTANCE SessionContract WITH
    Requests <- Calls, Inquiries <- Inbound,
    phase <- state, open <- pending,
    settled <- {r \in Calls : result[r] # "none"},
    replies <- answered
ImplementsContract == Contract!Spec

\* What #dispatch sees of its two callers.  The dispatcher calls shift() as soon
\* as it has dealt with a frame, so that one that waits there with frames queued
\* has got the first of them, and the frame the reader holds has taken its place.
\* The abort signal removes a parked call from the queue at once.
Taking == dispatcher = "shift" /\ dispatch # <<>>
QueueItems == Ids(IF Taking THEN AfterShift ELSE dispatch)
QueueReaders ==
    IF dispatcher = "shift" /\ ~Taking /\ ~aborted THEN <<"dispatcher">> ELSE <<>>
QueueWriters ==
    IF held # NoFrame /\ ~Taking /\ ~aborted
    THEN <<[who |-> "reader", value |-> held.id]>> ELSE <<>>
QueueOffered == Len(handled) + Len(dispatch) + Len(HeldIds)
QueueTaken == IF Taking THEN Append(handled, Head(dispatch).id) ELSE handled
QueueRefused == IF held # NoFrame /\ ~Taking /\ aborted THEN {held.id} ELSE {}

Queue == INSTANCE AsyncQueue WITH
    Capacity <- DispatchCapacity, MaxPush <- MaxInbound,
    Producers <- {"reader"}, Consumers <- {"dispatcher"},
    items <- QueueItems, readers <- QueueReaders, writers <- QueueWriters,
    closed <- ShuttingDown, offered <- QueueOffered, taken <- QueueTaken,
    dropped <- {}, refused <- QueueRefused

\* The reader and the dispatcher use #dispatch as AsyncQueue allows: every step
\* of the session, a stop that cuts off either of them included, is a step of
\* the queue or none.  Hence no frame overtakes another, and never do both wait
\* for each other: the reader only behind a full queue whose handler runs.
DispatchIsQueue == Queue!Spec
=============================================================================
