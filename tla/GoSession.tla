----------------------------- MODULE GoSession ------------------------------
(***************************************************************************)
(* The session runtime of the Go SDK (sdk/go/session.go, session_control.go,*)
(* session_request.go and the reply handling of handler.go).                *)
(*                                                                          *)
(* Goroutines interleave anywhere, so a step is one critical section, one   *)
(* atomic access, one channel operation or one call that may block:         *)
(*  - the supervisor (supervise), which creates the transport through a     *)
(*    factory goroutine, waits for OnBegin, for a stop or for its parent    *)
(*    context, and then tears the session down;                             *)
(*  - the control reader and the serial dispatcher with the handler in it;  *)
(*  - callers of Request, and background work that holds a DeferredResponse;*)
(*  - whoever calls requestStop: Close, the handler, the reader, keepalive. *)
(*                                                                          *)
(* requestStop is one step: it sets closing and then, under stopMu, queues  *)
(* the stop and signals the supervisor.  A step in between only sees closing*)
(* early, as it does when the queueing is postponed behind the commit.      *)
(* The queue of stops is reduced to "failed or not", which is how           *)
(* commitStopRequests folds it.  Frames carry an identity and no payload; a *)
(* frame that does not decode is skipped by the reader and is left out.     *)
(***************************************************************************)
EXTENDS Integers, Sequences, FiniteSets

CONSTANTS
    Calls,        \* callers of Session.Request
    MaxInbound,   \* bound: requests and events the peer sends
    WireCapacity  \* bound: frames the transport holds for the reader

ASSUME GoBoundsAssumption == MaxInbound \in Nat /\ WireCapacity \in Nat

VARIABLES
    \* lifecycle
    state,        \* Session.state
    closing,      \* Session.closing
    committed,    \* Session.stopCommit
    stopSignal,   \* the buffered channel Session.stop
    queuedFailed, \* stopQueue holds a failed stop
    failed,       \* terminal.failed of the supervisor
    parentDone,   \* the parent context is cancelled
    supervisor,   \* where supervise is
    \* the transport
    factory,      \* the factory goroutine of createTransport
    made,         \* what it returned
    transport,    \* the transport it made: not yet, live or closed
    connected,    \* Session.transport is set
    link, inbound, peerSent,
    \* the workers
    cancelled,    \* taskCtx is cancelled
    reader, dispatcher, current,
    begin,        \* the goroutine that runs OnBegin
    queue,        \* dispatchQueue.frames
    handled,      \* history: numbered frames dispatched, in order
    \* outgoing requests
    call, pending, cell, outcome, asked, nested,
    \* replies
    reply, responding, answered, closedAfter,
    fault         \* history: something failed that is not an orderly end

lifeVars == <<state, closing, committed, stopSignal, queuedFailed, failed, parentDone, supervisor>>
transportVars == <<factory, made, transport, connected>>
linkVars == <<link, inbound, peerSent>>
workerVars == <<cancelled, reader, dispatcher, current, begin, queue, handled>>
callVars == <<call, pending, cell, outcome, asked, nested>>
replyVars == <<reply, responding, answered, closedAfter>>
vars == <<lifeVars, transportVars, linkVars, workerVars, callVars, replyVars, fault>>

Inbound == 1 .. MaxInbound
NoFrame == [kind |-> "none", id |-> 0]
NumberedFrame == [kind : {"request", "event"}, id : Inbound]
Frame == NumberedFrame \cup [kind : {"response"}, id : Calls]

\* A response on its way: by the handler ("handler"), by handleRequest after the
\* handler returned ("dispatcher") or by background work; "checked" is past the
\* closing check of respond, "claimed" past the compare-and-swap, "sending"
\* past the closing check of sendFrame.
Response == [id : Inbound, by : {"handler", "dispatcher", "background"},
             close : BOOLEAN, step : {"checked", "claimed", "sending"}]

TypeOK ==
    /\ state \in {"inactive", "connecting", "active", "closing", "closed", "failed"}
    /\ closing \in BOOLEAN /\ committed \in BOOLEAN /\ stopSignal \in BOOLEAN
    /\ queuedFailed \in BOOLEAN /\ failed \in BOOLEAN /\ parentDone \in BOOLEAN
    /\ supervisor \in {"idle", "create", "joinFactory", "begin", "active", "commit",
                       "close", "failPending", "teardown", "closeMedia",
                       "closeTransport", "closeHandlers", "join", "ended"}
    /\ factory \in {"off", "creating", "offering", "abandoned", "discarding", "gone"}
    /\ made \in {"nothing", "transport", "error", "cancelled", "partial"}
    /\ transport \in {"none", "live", "closed"}
    /\ connected \in BOOLEAN
    /\ link \in {"open", "eof", "broken", "closed"}
    /\ inbound \in Seq(Frame) /\ peerSent \in 0 .. MaxInbound
    /\ cancelled \in BOOLEAN
    /\ reader \in {"off", "receive", "done"}
    /\ dispatcher \in {"off", "pop", "handling", "responding", "finishing", "done"}
    /\ current \in NumberedFrame \cup {NoFrame}
    /\ begin \in {"off", "running", "ok", "failed"}
    /\ queue \in Seq(NumberedFrame)
    /\ handled \in Seq(Inbound)
    /\ call \in [Calls -> {"idle", "checked", "registered", "sending", "waiting", "returned"}]
    /\ pending \subseteq Calls /\ asked \subseteq Calls /\ nested \subseteq Calls
    /\ cell \in [Calls -> {"empty", "answered", "closed"}]
    /\ outcome \in [Calls -> {"none", "answered", "closed", "timeout", "unsent"}]
    /\ reply \in [Inbound -> {"none", "unclaimed", "deferred", "sent"}]
    /\ responding \subseteq Response
    /\ answered \in [Inbound -> Nat]
    /\ closedAfter \subseteq Inbound
    /\ fault \in BOOLEAN

Init ==
    /\ state = "inactive" /\ closing = FALSE /\ committed = FALSE /\ stopSignal = FALSE
    /\ queuedFailed = FALSE /\ failed = FALSE /\ parentDone = FALSE
    /\ supervisor = "idle"
    /\ factory = "off" /\ made = "nothing" /\ transport = "none" /\ connected = FALSE
    /\ link = "open" /\ inbound = <<>> /\ peerSent = 0
    /\ cancelled = FALSE /\ reader = "off" /\ dispatcher = "off" /\ current = NoFrame
    /\ begin = "off" /\ queue = <<>> /\ handled = <<>>
    /\ call = [r \in Calls |-> "idle"] /\ pending = {} /\ asked = {} /\ nested = {}
    /\ cell = [r \in Calls |-> "empty"] /\ outcome = [r \in Calls |-> "none"]
    /\ reply = [q \in Inbound |-> "none"] /\ responding = {}
    /\ answered = [q \in Inbound |-> 0] /\ closedAfter = {}
    /\ fault = FALSE

-----------------------------------------------------------------------------
(* Stopping *)

\* requestStop(cause, failed): a stop that comes after the commit is dropped.
RequestStop(f) ==
    /\ closing' = TRUE
    /\ IF committed
       THEN UNCHANGED <<queuedFailed, stopSignal>>
       ELSE queuedFailed' = (queuedFailed \/ f) /\ stopSignal' = TRUE
    /\ UNCHANGED <<state, committed, failed, parentDone, supervisor>>

\* Session.Close, after Run, and SHC.Close.
CloseCalled ==
    /\ supervisor # "idle" /\ ~closing
    /\ RequestStop(FALSE)
    /\ UNCHANGED <<transportVars, linkVars, workerVars, callVars, replyVars, fault>>

\* The keepalive monitor gives up, or an audio pump fails.
MonitorFails ==
    /\ reader # "off" /\ ~cancelled /\ ~committed
    /\ RequestStop(TRUE)
    /\ fault' = TRUE
    /\ UNCHANGED <<transportVars, linkVars, workerVars, callVars, replyVars>>

ParentCancelled ==
    /\ ~parentDone /\ parentDone' = TRUE
    /\ UNCHANGED <<state, closing, committed, stopSignal, queuedFailed, failed, supervisor,
                   transportVars, linkVars, workerVars, callVars, replyVars, fault>>

-----------------------------------------------------------------------------
(* Creating the transport *)

\* Run and the start of supervise; configuration errors end it at once.
Run(valid) ==
    /\ supervisor = "idle"
    /\ state' = "connecting"
    /\ supervisor' = IF valid THEN "create" ELSE "commit"
    /\ factory' = IF valid THEN "creating" ELSE factory
    /\ failed' = ~valid /\ fault' = (fault \/ ~valid)
    /\ UNCHANGED <<closing, committed, stopSignal, queuedFailed, parentDone, made, transport,
                   connected, linkVars, workerVars, callVars, replyVars>>

\* The factory returns a transport, an error, the error of its cancelled
\* context, or both a transport and an error.
FactoryReturns(what) ==
    /\ factory \in {"creating", "abandoned"}
    /\ what = "cancelled" => parentDone \/ supervisor # "create"
    /\ made' = what
    /\ factory' = IF factory = "creating" THEN "offering" ELSE "discarding"
    /\ transport' = IF what \in {"transport", "partial"} THEN "live" ELSE "none"
    /\ UNCHANGED <<lifeVars, connected, linkVars, workerVars, callVars, replyVars, fault>>

\* createTransport receives the result (acceptTransportResult): the workers
\* start on success; an error that is not the parent's cancellation is a
\* failure, and a transport that came with an error is closed.
TransportAccepted ==
    /\ supervisor = "create" /\ factory = "offering"
    /\ factory' = "gone"
    /\ IF made = "transport"
       THEN /\ connected' = TRUE
            /\ supervisor' = "begin"
            /\ reader' = "receive" /\ dispatcher' = "pop" /\ begin' = "running"
            /\ UNCHANGED <<transport, failed, fault>>
       ELSE /\ supervisor' = "commit"
            /\ transport' = IF made = "partial" THEN "closed" ELSE transport
            /\ failed' = (made # "cancelled") /\ fault' = (fault \/ made # "cancelled")
            /\ UNCHANGED <<connected, reader, dispatcher, begin>>
    /\ UNCHANGED <<state, closing, committed, stopSignal, queuedFailed, parentDone, made,
                   linkVars, cancelled, current, queue, handled, callVars, replyVars>>

\* A stop or the parent context wins the select of createTransport.
CreateStopped ==
    /\ supervisor = "create"
    /\ stopSignal \/ parentDone
    /\ \/ stopSignal /\ stopSignal' = FALSE
       \/ parentDone /\ UNCHANGED stopSignal
    /\ supervisor' = "joinFactory"
    /\ UNCHANGED <<state, closing, committed, queuedFailed, failed, parentDone, transportVars,
                   linkVars, workerVars, callVars, replyVars, fault>>

\* joinCanceledTransportFactory: take the late result and close it, which may
\* fail, or give up after the teardown timeout and leave it to the factory
\* goroutine.
FactoryJoined(ok) ==
    /\ supervisor = "joinFactory" /\ factory = "offering"
    /\ factory' = "gone" /\ supervisor' = "commit"
    /\ transport' = IF transport = "live" THEN "closed" ELSE transport
    /\ failed' = (made \in {"error", "partial"} \/ (transport = "live" /\ ~ok))
    /\ fault' = (fault \/ failed')
    /\ UNCHANGED <<state, closing, committed, stopSignal, queuedFailed, parentDone, made,
                   connected, linkVars, workerVars, callVars, replyVars>>

FactoryAbandoned ==
    /\ supervisor = "joinFactory"
    /\ factory \in {"creating", "offering"}
    /\ factory' = IF factory = "creating" THEN "abandoned" ELSE "discarding"
    /\ supervisor' = "commit"
    /\ failed' = TRUE /\ fault' = TRUE
    /\ UNCHANGED <<state, closing, committed, stopSignal, queuedFailed, parentDone, made,
                   transport, connected, linkVars, workerVars, callVars, replyVars>>

\* The abandoned factory goroutine closes what it made after all.
LateResultClosed ==
    /\ factory = "discarding"
    /\ factory' = "gone"
    /\ transport' = IF transport = "live" THEN "closed" ELSE transport
    /\ UNCHANGED <<lifeVars, made, connected, linkVars, workerVars, callVars, replyVars, fault>>

-----------------------------------------------------------------------------
(* Starting, running and tearing down *)

OnBeginReturns(ok) ==
    /\ begin = "running"
    /\ begin' = IF ok THEN "ok" ELSE "failed"
    /\ UNCHANGED <<lifeVars, transportVars, linkVars, cancelled, reader, dispatcher, current,
                   queue, handled, callVars, replyVars, fault>>

\* The select on beginResult.
BeginSucceeds ==
    /\ supervisor = "begin" /\ begin = "ok"
    /\ state' = "active" /\ supervisor' = "active"
    /\ UNCHANGED <<closing, committed, stopSignal, queuedFailed, failed, parentDone,
                   transportVars, linkVars, workerVars, callVars, replyVars, fault>>

BeginFails ==
    /\ supervisor = "begin" /\ begin = "failed"
    /\ supervisor' = "commit" /\ failed' = TRUE /\ fault' = TRUE
    /\ UNCHANGED <<state, closing, committed, stopSignal, queuedFailed, parentDone,
                   transportVars, linkVars, workerVars, callVars, replyVars>>

\* A stop or the parent context ends the start or the active phase.
StopObserved ==
    /\ supervisor \in {"begin", "active"}
    /\ \/ stopSignal /\ stopSignal' = FALSE
       \/ parentDone /\ UNCHANGED stopSignal
    /\ supervisor' = "commit"
    /\ UNCHANGED <<state, closing, committed, queuedFailed, failed, parentDone,
                   transportVars, linkVars, workerVars, callVars, replyVars, fault>>

\* Seeded fault: only the supervisor's own reason for stopping counts.
CommitWithoutQueue ==
    /\ supervisor = "commit"
    /\ committed' = TRUE /\ queuedFailed' = FALSE
    /\ supervisor' = "close"
    /\ UNCHANGED <<state, closing, stopSignal, failed, parentDone, transportVars, linkVars,
                   workerVars, callVars, replyVars, fault>>

\* commitStopRequests: fold every stop queued so far into the terminal result.
CommitStops ==
    /\ supervisor = "commit"
    /\ committed' = TRUE
    /\ failed' = (failed \/ queuedFailed)
    /\ queuedFailed' = FALSE
    /\ supervisor' = "close"
    /\ UNCHANGED <<state, closing, stopSignal, parentDone, transportVars, linkVars,
                   workerVars, callVars, replyVars, fault>>

\* Seeded fault: a shutdown nobody requested leaves the closing flag unset.
SetStateOnly ==
    /\ supervisor = "close"
    /\ state' = "closing" /\ supervisor' = "failPending"
    /\ UNCHANGED <<closing, committed, stopSignal, queuedFailed, failed, parentDone,
                   transportVars, linkVars, workerVars, callVars, replyVars, fault>>

\* beginShutdown: set closing, then the state, then fail the pending requests.
SetClosing ==
    /\ supervisor = "close"
    /\ closing' = TRUE /\ state' = "closing"
    /\ supervisor' = "failPending"
    /\ UNCHANGED <<committed, stopSignal, queuedFailed, failed, parentDone, transportVars,
                   linkVars, workerVars, callVars, replyVars, fault>>

\* Seeded fault: the entries are removed and nobody is told.
FailPendingSilently ==
    /\ supervisor = "failPending"
    /\ pending' = {} /\ supervisor' = "teardown"
    /\ UNCHANGED <<state, closing, committed, stopSignal, queuedFailed, failed, parentDone,
                   transportVars, linkVars, workerVars, call, cell, outcome, asked, nested,
                   replyVars, fault>>

\* Seeded fault: the failure is published to completed requests too.
FailEveryCall ==
    /\ supervisor = "failPending"
    /\ pending' = {} /\ supervisor' = "teardown"
    /\ cell' = [r \in Calls |-> IF call[r] = "idle" THEN cell[r] ELSE "closed"]
    /\ UNCHANGED <<state, closing, committed, stopSignal, queuedFailed, failed, parentDone,
                   transportVars, linkVars, workerVars, call, outcome, asked, nested,
                   replyVars, fault>>

FailPending ==
    /\ supervisor = "failPending"
    /\ pending' = {}
    /\ cell' = [r \in Calls |-> IF r \in pending THEN "closed" ELSE cell[r]]
    /\ supervisor' = "teardown"
    /\ UNCHANGED <<state, closing, committed, stopSignal, queuedFailed, failed, parentDone,
                   transportVars, linkVars, workerVars, call, outcome, asked, nested,
                   replyVars, fault>>

\* cancelTasks and dispatch.close.
CancelTasks ==
    /\ supervisor = "teardown"
    /\ cancelled' = TRUE /\ queue' = <<>>
    /\ supervisor' = "closeMedia"
    /\ UNCHANGED <<state, closing, committed, stopSignal, queuedFailed, failed, parentDone,
                   transportVars, linkVars, reader, dispatcher, current, begin, handled,
                   callVars, replyVars, fault>>

\* closeAudioMedia, closeTransport and the OnClose handlers, each of which may
\* fail and none of which stops the others.
CloseResource(ok) ==
    /\ \/ supervisor = "closeMedia" /\ supervisor' = IF connected THEN "closeTransport"
                                                                   ELSE "closeHandlers"
       \/ supervisor = "closeTransport" /\ supervisor' = "closeHandlers"
       \/ supervisor = "closeHandlers" /\ supervisor' = "join"
    /\ transport' = IF supervisor = "closeTransport" THEN "closed" ELSE transport
    /\ link' = IF supervisor = "closeTransport" THEN "closed" ELSE link
    /\ failed' = (failed \/ ~ok) /\ fault' = (fault \/ ~ok)
    /\ UNCHANGED <<state, closing, committed, stopSignal, queuedFailed, parentDone, factory,
                   made, connected, inbound, peerSent, workerVars, callVars, replyVars>>

\* Seeded fault: the wait for the workers has no timeout.
CompleteWithoutTimeout ==
    /\ supervisor = "join"
    /\ reader \in {"off", "done"} /\ dispatcher \in {"off", "done"} /\ begin # "running"
    /\ supervisor' = "ended"
    /\ state' = IF failed THEN "failed" ELSE "closed"
    /\ UNCHANGED <<closing, committed, stopSignal, queuedFailed, failed, parentDone,
                   transportVars, linkVars, workerVars, callVars, replyVars, fault>>

\* Wait for the workers or for the teardown timeout, then complete.
Complete ==
    LET joined == /\ reader \in {"off", "done"} /\ dispatcher \in {"off", "done"}
                  /\ begin # "running"
    IN  /\ supervisor = "join"
        /\ supervisor' = "ended"
        /\ failed' = (failed \/ ~joined) /\ fault' = (fault \/ ~joined)
        /\ state' = IF failed' THEN "failed" ELSE "closed"
        /\ UNCHANGED <<closing, committed, stopSignal, queuedFailed, parentDone, transportVars,
                       linkVars, workerVars, callVars, replyVars>>

-----------------------------------------------------------------------------
(* The remote peer and the link *)

PeerSends(f) ==
    /\ connected /\ link = "open"
    /\ Len(inbound) < WireCapacity
    /\ inbound' = Append(inbound, f)

PeerOffers(kind) ==
    /\ peerSent < MaxInbound
    /\ PeerSends([kind |-> kind, id |-> peerSent + 1])
    /\ peerSent' = peerSent + 1
    /\ UNCHANGED <<lifeVars, transportVars, link, workerVars, callVars, replyVars, fault>>

PeerAnswers(r) ==
    /\ r \in asked
    /\ PeerSends([kind |-> "response", id |-> r])
    /\ UNCHANGED <<lifeVars, transportVars, link, peerSent, workerVars, callVars, replyVars, fault>>

LinkEnds(how) ==
    /\ connected /\ link = "open"
    /\ link' = how
    /\ UNCHANGED <<lifeVars, transportVars, inbound, peerSent, workerVars, callVars, replyVars, fault>>

-----------------------------------------------------------------------------
(* The control reader *)

\* A response is published into the cell of its request under pendingMu; a
\* request or an event joins the unbounded dispatch queue.
ReaderReceives ==
    /\ reader = "receive"
    /\ inbound # <<>>
    /\ inbound' = Tail(inbound)
    /\ LET f == Head(inbound) IN
       \/ /\ f.kind = "response"
          /\ pending' = pending \ {f.id}
          /\ cell' = IF f.id \in pending THEN [cell EXCEPT ![f.id] = "answered"] ELSE cell
          /\ UNCHANGED <<queue, reader>>
       \/ /\ f.kind \in {"request", "event"}
          /\ IF cancelled                          \* the queue is closed
             THEN reader' = "done" /\ UNCHANGED queue
             ELSE queue' = Append(queue, f) /\ UNCHANGED reader
          /\ UNCHANGED <<pending, cell>>
    /\ UNCHANGED <<lifeVars, transportVars, link, peerSent, cancelled, dispatcher, current,
                   begin, handled, call, outcome, asked, nested, replyVars, fault>>

\* Recv fails: io.EOF is an orderly end, anything else a failure; neither
\* counts once the tasks are cancelled.
ReaderEnds ==
    /\ reader = "receive"
    /\ cancelled \/ (inbound = <<>> /\ link # "open")
    /\ reader' = "done"
    /\ IF cancelled
       THEN UNCHANGED <<lifeVars, fault>>
       ELSE /\ RequestStop(link = "broken")
            /\ fault' = (fault \/ (link = "broken" /\ ~committed))
    /\ UNCHANGED <<transportVars, linkVars, cancelled, dispatcher, current, begin, queue,
                   handled, callVars, replyVars>>

-----------------------------------------------------------------------------
(* Outgoing requests: Session.Request *)

\* The first closing check; a request refused here never existed.
CallChecks(r) ==
    /\ call[r] = "idle" /\ ~closing
    /\ call' = [call EXCEPT ![r] = "checked"]
    /\ UNCHANGED <<lifeVars, transportVars, linkVars, workerVars, pending, cell, outcome,
                   asked, replyVars, fault>>

AppCalls(r) == CallChecks(r) /\ UNCHANGED nested

\* registerPending.
CallRegisters(r) ==
    /\ call[r] = "checked"
    /\ call' = [call EXCEPT ![r] = "registered"]
    /\ pending' = pending \cup {r}
    /\ UNCHANGED <<lifeVars, transportVars, linkVars, workerVars, cell, outcome, asked,
                   nested, replyVars, fault>>

\* cancelPending followed by the return of the caller: if the entry is gone,
\* its cell holds the result that won.
CallReturns(r, result) ==
    /\ pending' = pending \ {r}
    /\ call' = [call EXCEPT ![r] = "returned"]
    /\ outcome' = [outcome EXCEPT ![r] = IF r \in pending THEN result ELSE cell[r]]

\* sendFrame checks closing again, after the entry is visible to failPending,
\* and encodes the frame.
CallEntersSend(r, encodable) ==
    /\ call[r] = "registered"
    /\ IF closing \/ ~connected \/ ~encodable
       THEN CallReturns(r, IF closing \/ ~connected THEN "closed" ELSE "unsent")
       ELSE call' = [call EXCEPT ![r] = "sending"] /\ UNCHANGED <<pending, outcome>>
    /\ UNCHANGED <<lifeVars, transportVars, linkVars, workerVars, cell, asked, nested,
                   replyVars, fault>>

CallSent(r) ==
    /\ call[r] = "sending" /\ link = "open"
    /\ call' = [call EXCEPT ![r] = "waiting"]
    /\ asked' = asked \cup {r}
    /\ UNCHANGED <<lifeVars, transportVars, linkVars, workerVars, pending, cell, outcome,
                   nested, replyVars, fault>>

CallSendFails(r) ==
    /\ call[r] = "sending" /\ link # "open"
    /\ CallReturns(r, "unsent")
    /\ UNCHANGED <<lifeVars, transportVars, linkVars, workerVars, cell, asked, nested,
                   replyVars, fault>>

\* The final select: the cell, or the caller's context or deadline and then
\* cancelPending.  The context also ends a Send that blocks.
CallGetsResult(r) ==
    /\ call[r] = "waiting" /\ cell[r] # "empty"
    /\ call' = [call EXCEPT ![r] = "returned"]
    /\ outcome' = [outcome EXCEPT ![r] = cell[r]]
    /\ UNCHANGED <<lifeVars, transportVars, linkVars, workerVars, pending, cell, asked, nested,
                   replyVars, fault>>

CallTimesOut(r) ==
    /\ call[r] \in {"sending", "waiting"}
    /\ r \in pending \/ cell[r] # "empty"
    /\ CallReturns(r, "timeout")
    /\ UNCHANGED <<lifeVars, transportVars, linkVars, workerVars, cell, asked, nested,
                   replyVars, fault>>

-----------------------------------------------------------------------------
(* The serial dispatcher and the handler it runs *)

DispatcherPops ==
    /\ dispatcher = "pop" /\ ~cancelled
    /\ queue # <<>>
    /\ queue' = Tail(queue)
    /\ current' = Head(queue)
    /\ dispatcher' = "handling"
    /\ handled' = Append(handled, Head(queue).id)
    /\ reply' = [reply EXCEPT ![Head(queue).id] =
                    IF Head(queue).kind = "request" THEN "unclaimed" ELSE "none"]
    /\ UNCHANGED <<lifeVars, transportVars, linkVars, cancelled, reader, begin, callVars,
                   responding, answered, closedAfter, fault>>

DispatcherEnds ==
    /\ dispatcher = "pop" /\ cancelled
    /\ dispatcher' = "done"
    /\ UNCHANGED <<lifeVars, transportVars, linkVars, cancelled, reader, current, begin, queue,
                   handled, callVars, replyVars, fault>>

HandlerRuns ==
    /\ dispatcher = "handling"
    /\ \A r \in nested : call[r] = "returned"

HandlerCalls(r) == HandlerRuns /\ CallChecks(r) /\ nested' = {r}

\* DeferResponse: the compare-and-swap from unclaimed.
HandlerDefers ==
    /\ HandlerRuns /\ current.kind = "request"
    /\ reply[current.id] = "unclaimed"
    /\ reply' = [reply EXCEPT ![current.id] = "deferred"]
    /\ UNCHANGED <<lifeVars, transportVars, linkVars, workerVars, callVars, responding,
                   answered, closedAfter, fault>>

\* respond, up to the end of its closing check.
StartResponse(q, by, close) ==
    /\ ~closing
    /\ responding' = responding \cup
                       {[id |-> q, by |-> by, close |-> close, step |-> "checked"]}
    /\ UNCHANGED <<reply, answered, closedAfter>>

HandlerResponds(close) ==
    /\ HandlerRuns /\ current.kind = "request"
    /\ StartResponse(current.id, "handler", close)
    /\ dispatcher' = "responding"
    /\ UNCHANGED <<lifeVars, transportVars, linkVars, cancelled, reader, current, begin, queue,
                   handled, callVars, fault>>

DeferredResponds(q, close) ==
    /\ reply[q] = "deferred"
    /\ ~ \E p \in responding : p.id = q /\ p.by = "background"
    /\ StartResponse(q, "background", close)
    /\ UNCHANGED <<lifeVars, transportVars, linkVars, workerVars, callVars, fault>>

\* The handler returns, with an error or not.  handleRequest answers with an
\* error if the handler failed and no response is sent, or if it returned
\* without responding or deferring.
HandlerReturns(err) ==
    /\ HandlerRuns
    /\ nested' = {}
    /\ LET q == current.id
           answers == /\ current.kind = "request" /\ ~closing
                      /\ IF err THEN reply[q] # "sent" ELSE reply[q] = "unclaimed"
       IN  IF answers
           THEN /\ StartResponse(q, "dispatcher", FALSE)
                /\ dispatcher' = "finishing" /\ UNCHANGED current
           ELSE /\ dispatcher' = "pop" /\ current' = NoFrame
                /\ UNCHANGED replyVars
    /\ UNCHANGED <<lifeVars, transportVars, linkVars, cancelled, reader, begin, queue, handled,
                   call, pending, cell, outcome, asked, fault>>

-----------------------------------------------------------------------------
(* Sending a response *)

\* respond returns to its caller.
AfterResponse(p) ==
    CASE p.by = "handler"    -> dispatcher' = "handling" /\ UNCHANGED current
      [] p.by = "dispatcher" -> dispatcher' = "pop" /\ current' = NoFrame
      [] p.by = "background" -> UNCHANGED <<dispatcher, current>>

Advance(p, step) == responding' = (responding \ {p}) \cup {[p EXCEPT !.step = step]}

\* The compare-and-swap to "sent": the loser returns ErrResponseAlreadySent.
ResponseClaims(p) ==
    /\ p \in responding /\ p.step = "checked"
    /\ IF reply[p.id] = "sent"
       THEN /\ responding' = responding \ {p}
            /\ AfterResponse(p) /\ UNCHANGED reply
       ELSE /\ reply' = [reply EXCEPT ![p.id] = "sent"]
            /\ Advance(p, "claimed") /\ UNCHANGED <<dispatcher, current>>
    /\ UNCHANGED <<lifeVars, transportVars, linkVars, cancelled, reader, begin, queue, handled,
                   callVars, answered, closedAfter, fault>>

\* Seeded fault: a response that cannot be sent is dropped.
ResponseDropped(p, encodable) ==
    /\ p \in responding /\ p.step = "claimed"
    /\ IF closing \/ ~encodable
       THEN responding' = responding \ {p} /\ AfterResponse(p)
       ELSE Advance(p, "sending") /\ UNCHANGED <<dispatcher, current>>
    /\ UNCHANGED <<lifeVars, transportVars, linkVars, cancelled, reader, begin, queue, handled,
                   callVars, reply, answered, closedAfter, fault>>

\* sendFrame: the closing check and the encoding.  Any error makes respond
\* request a failed stop, the error of the closing check too.
ResponseEntersSend(p, encodable) ==
    /\ p \in responding /\ p.step = "claimed"
    /\ IF closing \/ ~encodable
       THEN /\ RequestStop(TRUE)
            /\ fault' = (fault \/ (~closing /\ ~committed))
            /\ responding' = responding \ {p}
            /\ AfterResponse(p)
       ELSE /\ Advance(p, "sending")
            /\ UNCHANGED <<lifeVars, dispatcher, current, fault>>
    /\ UNCHANGED <<transportVars, linkVars, cancelled, reader, begin, queue, handled, callVars,
                   reply, answered, closedAfter>>

ResponseSent(p) ==
    /\ p \in responding /\ p.step = "sending"
    /\ link = "open"
    /\ answered' = [answered EXCEPT ![p.id] = @ + 1]
    /\ responding' = responding \ {p}
    /\ IF p.close
       THEN RequestStop(FALSE) /\ closedAfter' = closedAfter \cup {p.id}
       ELSE UNCHANGED <<lifeVars, closedAfter>>
    /\ AfterResponse(p)
    /\ UNCHANGED <<transportVars, linkVars, cancelled, reader, begin, queue, handled, callVars,
                   reply, fault>>

ResponseSendFails(p) ==
    /\ p \in responding /\ p.step = "sending"
    /\ link # "open" \/ cancelled
    /\ RequestStop(TRUE)
    /\ fault' = (fault \/ ~committed)
    /\ responding' = responding \ {p}
    /\ AfterResponse(p)
    /\ UNCHANGED <<transportVars, linkVars, cancelled, reader, begin, queue, handled, callVars,
                   reply, answered, closedAfter>>

-----------------------------------------------------------------------------
Supervise ==
    \/ \E valid \in BOOLEAN : Run(valid)
    \/ TransportAccepted \/ CreateStopped \/ FactoryAbandoned
    \/ BeginSucceeds \/ BeginFails \/ StopObserved
    \/ CommitStops \/ SetClosing \/ FailPending \/ CancelTasks
    \/ \E ok \in BOOLEAN : FactoryJoined(ok) \/ CloseResource(ok)
    \/ Complete

FactoryGoroutine ==
    \/ \E what \in {"transport", "error", "cancelled", "partial"} : FactoryReturns(what)
    \/ LateResultClosed

Caller(r) ==
    \/ CallRegisters(r)
    \/ \E encodable \in BOOLEAN : CallEntersSend(r, encodable)
    \/ CallSent(r) \/ CallSendFails(r)
    \/ CallGetsResult(r) \/ CallTimesOut(r)

Responder ==
    \E p \in responding :
        \/ ResponseClaims(p)
        \/ \E encodable \in BOOLEAN : ResponseEntersSend(p, encodable)
        \/ ResponseSent(p)
        \/ ResponseSendFails(p)

Peer ==
    \/ \E kind \in {"request", "event"} : PeerOffers(kind)
    \/ \E r \in Calls : PeerAnswers(r)
    \/ \E how \in {"eof", "broken"} : LinkEnds(how)

Handler ==
    \/ \E r \in Calls : HandlerCalls(r)
    \/ HandlerDefers
    \/ \E close \in BOOLEAN : HandlerResponds(close)
    \/ \E err \in BOOLEAN : HandlerReturns(err)
    \/ \E q \in Inbound, close \in BOOLEAN : DeferredResponds(q, close)

Next ==
    \/ Supervise \/ FactoryGoroutine
    \/ \E ok \in BOOLEAN : OnBeginReturns(ok)
    \/ ReaderReceives \/ ReaderEnds
    \/ DispatcherPops \/ DispatcherEnds
    \/ Handler \/ Responder
    \/ \E r \in Calls : AppCalls(r) \/ Caller(r)
    \/ Peer
    \/ CloseCalled \/ MonitorFails \/ ParentCancelled

Spec == Init /\ [][Next]_vars

-----------------------------------------------------------------------------
(* Fairness.  Goroutines that can run do run: the supervisor, the factory     *)
(* goroutine, the reader, the dispatcher between two frames and the callers.  *)
(* The factory, OnBegin, the handler and the peer guarantee nothing; a        *)
(* blocked Send or a missing response may last for ever.  Closing the channel,*)
(* the transport and the close handlers, which get a deadline, return.        *)

SupervisorFairness ==
    /\ WF_vars(TransportAccepted \/ CreateStopped) /\ WF_vars(FactoryAbandoned)
    /\ WF_vars(BeginSucceeds \/ BeginFails \/ StopObserved)
    /\ WF_vars(CommitStops) /\ WF_vars(SetClosing) /\ WF_vars(FailPending)
    /\ WF_vars(CancelTasks) /\ WF_vars(\E ok \in BOOLEAN : CloseResource(ok))
    /\ WF_vars(Complete)

CallerFairness ==
    \A r \in Calls : WF_vars(\/ CallRegisters(r)
                             \/ \E encodable \in BOOLEAN : CallEntersSend(r, encodable)
                             \/ CallSendFails(r) \/ CallGetsResult(r))

FairSpec == Spec /\ SupervisorFairness /\ CallerFairness /\ WF_vars(LateResultClosed)

-----------------------------------------------------------------------------
(* Properties *)

\* A caller in Send or in the final select always has an entry that some event
\* can complete or a result in its cell.  After failPending has run, the only
\* entries are those of callers about to meet the second closing check.  The
\* cell is a channel of capacity one that is written while pendingMu is held,
\* so an entry that can still be published to must have an empty one: a second
\* publication would block every request of the session.
Failed == {"teardown", "closeMedia", "closeTransport", "closeHandlers", "join", "ended"}
NoOrphanedCall ==
    /\ \A r \in Calls : call[r] \in {"sending", "waiting"} => r \in pending \/ cell[r] # "empty"
    /\ supervisor \in Failed => \A r \in pending : call[r] = "registered"
    /\ \A r \in pending : cell[r] = "empty"

\* The outcome a caller is given never changes, and a published result is
\* never replaced or withdrawn.
SettledOnce ==
    [][\A r \in Calls : /\ outcome[r] # "none" => outcome'[r] = outcome[r]
                        /\ cell[r] # "empty" => cell'[r] = cell[r]]_vars

\* Handler, handleRequest and background work race for one reply: at most one
\* response reaches the wire, and at most one of them is past the claim.
AtMostOneResponse ==
    /\ \A q \in Inbound : answered[q] <= 1
    /\ \A p1, p2 \in responding :
          p1.id = p2.id /\ p1.step # "checked" /\ p2.step # "checked" => p1 = p2

\* A reply that was claimed is on the wire, on its way, or its loss has
\* stopped the session: no request is silently left without an answer.
NoSilentReply ==
    \A q \in Inbound :
        reply[q] = "sent" =>
            \/ answered[q] = 1
            \/ \E p \in responding : p.id = q /\ p.step # "checked"
            \/ closing

\* Until the tasks are cancelled every request and event the peer sent is, in
\* the order sent, dispatched, queued or still in the transport.
Ids(fs) == [i \in 1 .. Len(fs) |-> fs[i].id]
Received == handled \o Ids(queue)
OnTheWire == {i \in 1 .. Len(inbound) : inbound[i] \in NumberedFrame}
DispatchedInOrder ==
    ~cancelled =>
      /\ \A i \in 1 .. Len(Received) : Received[i] = i
      /\ {inbound[i].id : i \in OnTheWire} = Len(Received) + 1 .. peerSent
      /\ \A i, j \in OnTheWire : i < j => inbound[i].id < inbound[j].id

\* What the peer sees of its frames is exact: they are dispatched completely
\* and in order, each request is answered at most once whoever tries, no reply
\* is lost while the session goes on, and RespondThenClose stops the session
\* only after its response was sent.
RepliesExact ==
    /\ TypeOK
    /\ AtMostOneResponse
    /\ NoSilentReply
    /\ DispatchedInOrder
    /\ \A q \in closedAfter : answered[q] = 1

\* A failure observed before the commit, or met while closing, is never hidden
\* behind an earlier orderly stop, and every transport the factory makes is
\* closed, whoever ends up with it.
EndsExact ==
    supervisor = "ended" =>
      /\ fault => state = "failed"
      /\ factory \in {"off", "gone"} => transport # "live"

\* A session that is asked to stop ends, whatever its factory, its handler and
\* its peer do, and shutdown releases every caller, also one without a timeout
\* whose Send is blocked or whose response never comes.
StopReleasesAll ==
    /\ (closing /\ supervisor # "idle") ~> (supervisor = "ended")
    /\ \A r \in Calls :
          (supervisor = "ended" /\ call[r] # "idle") ~> (call[r] = "returned")

\* The session implements what every SDK promises of a session.
Contract == INSTANCE SessionContract WITH
    Requests <- Calls, Inquiries <- Inbound, phase <- state,
    open <- {r \in pending : call[r] \in {"sending", "waiting"}},
    settled <- {r \in Calls : outcome[r] # "none" \/ cell[r] # "empty"},
    replies <- answered
ImplementsContract == Contract!Spec
=============================================================================
