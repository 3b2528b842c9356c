------------------------- MODULE GoSession_proofs --------------------------
(***************************************************************************)
(* Proofs about GoSession for every set of calls and every number of        *)
(* inbound frames.                                                          *)
(***************************************************************************)
EXTENDS GoSession, SequenceTheorems, TLAPS

-----------------------------------------------------------------------------
(* The inductive invariant.                                                 *)

Shutdown == {"failPending"} \cup Failed
Released == {"closeHandlers", "join", "ended"}

\* The lifecycle state follows the supervisor, the stops are committed before
\* the shutdown begins, and a failure is in the queue of stops until then and
\* in the terminal result from then on.
LifeInv ==
    /\ supervisor = "idle" <=> state = "inactive"
    /\ supervisor \in {"create", "joinFactory", "begin"} => state = "connecting"
    /\ supervisor = "active" => state = "active"
    /\ supervisor \in {"commit", "close"} => state \in {"connecting", "active"}
    /\ supervisor \in Shutdown \ {"ended"} => state = "closing"
    /\ supervisor = "ended" => state = IF failed THEN "failed" ELSE "closed"
    /\ supervisor \in Shutdown => closing
    /\ committed <=> supervisor \in {"close"} \cup Shutdown
    /\ queuedFailed => ~committed
    /\ failed => supervisor \notin {"idle", "create", "joinFactory", "begin", "active"}
    /\ fault => failed \/ queuedFailed
    /\ supervisor = "idle" => ~fault /\ ~queuedFailed

\* A transport that is live is owned: by the factory goroutine until its result
\* is taken or discarded, by the session from then until closeTransport.
TransportInv ==
    /\ supervisor = "idle" => factory = "off"
    /\ supervisor \in {"create", "joinFactory"} => factory \in {"creating", "offering"}
    /\ supervisor \in {"begin", "active", "closeTransport"} => connected
    /\ factory \in {"off", "creating", "abandoned"} => transport = "none"
    /\ factory \in {"offering", "discarding"} =>
          (transport = "live" <=> made \in {"transport", "partial"})
    /\ factory = "gone" /\ transport = "live" => connected
    /\ connected => factory = "gone" /\ supervisor \notin {"idle", "create", "joinFactory"}
    /\ connected /\ supervisor \in Released => transport # "live" /\ link = "closed"

\* The workers run over a connected transport.  A dispatcher that works on a
\* frame has one, and the one response it may be sending is for that frame.
WorkerInv ==
    /\ reader # "off" => connected
    /\ dispatcher # "off" => connected
    /\ dispatcher \in {"handling", "responding", "finishing"} => current \in NumberedFrame
    /\ \A p \in responding :
          /\ p.by = "handler" => dispatcher = "responding"
          /\ p.by = "dispatcher" => dispatcher = "finishing"
          /\ p.by # "background" => p.id = current.id
    /\ \A p1, p2 \in responding :
          p1.by # "background" /\ p2.by # "background" => p1 = p2

\* The frames dispatched, queued and on the wire continue one another.
FlowInv ==
    LET n == Len(handled) + Len(queue) IN
    ~cancelled =>
      /\ \A i \in 1 .. Len(handled) : handled[i] = i
      /\ \A i \in 1 .. Len(queue) : queue[i].id = Len(handled) + i
      /\ n <= peerSent
      /\ \A i \in OnTheWire : inbound[i].id \in n + 1 .. peerSent
      /\ \A q \in n + 1 .. peerSent : \E i \in OnTheWire : inbound[i].id = q
      /\ \A i, j \in OnTheWire : i < j => inbound[i].id < inbound[j].id

\* A reply exists only for a dispatched request, so that dispatching a frame
\* never reopens one.  Who is past the claim is alone there, and the response
\* is not on the wire yet.
ReplyInv ==
    /\ \A q \in Inbound : /\ reply[q] # "none" => q <= Len(handled) /\ connected
                          /\ answered[q] \in {0, 1}
                          /\ answered[q] = 1 => reply[q] = "sent"
    /\ dispatcher \in {"handling", "responding", "finishing"} /\ current.kind = "request"
          => reply[current.id] # "none"
    /\ \A p \in responding : reply[p.id] # "none"
    /\ \A p \in responding : p.step # "checked" => reply[p.id] = "sent" /\ answered[p.id] = 0
    /\ \A p1, p2 \in responding :
          p1.id = p2.id /\ p1.step # "checked" /\ p2.step # "checked" => p1 = p2
    /\ NoSilentReply
    /\ \A q \in closedAfter : answered[q] = 1

\* A caller past registerPending has an entry or a result, an entry belongs to
\* a caller that has neither outcome nor result, and once failPending has run
\* only callers about to meet the second closing check have entries.
CallInv ==
    /\ \A r \in Calls :
          /\ call[r] \in {"idle", "checked"} => r \notin pending /\ cell[r] = "empty"
          /\ call[r] \in {"registered", "sending", "waiting"} => r \in pending \/ cell[r] # "empty"
          /\ call[r] = "returned" <=> outcome[r] # "none"
          /\ r \in pending => cell[r] = "empty" /\ call[r] \in {"registered", "sending", "waiting"}
    /\ supervisor \in Failed => \A r \in pending : call[r] = "registered"

SessionInv ==
    TypeOK /\ LifeInv /\ TransportInv /\ WorkerInv /\ FlowInv /\ ReplyInv /\ CallInv

CallStates == {"idle", "checked", "registered", "sending", "waiting", "returned"}
Outcomes == {"none", "answered", "closed", "timeout", "unsent"}

\* What a stop does to the session object.
LEMMA StopEffect ==
    ASSUME TypeOK, NEW f \in BOOLEAN, RequestStop(f)
    PROVE  /\ closing' = TRUE /\ queuedFailed' \in BOOLEAN /\ stopSignal' \in BOOLEAN
           /\ UNCHANGED <<state, committed, failed, parentDone, supervisor>>
  BY DEF RequestStop, TypeOK

\* cancelPending removes the entry of a caller that has one, and reads the
\* result of a caller that has not.
LEMMA ReturnType ==
    ASSUME TypeOK, CallInv, NEW r \in Calls, NEW result \in Outcomes \ {"none"},
           call[r] \in {"registered", "sending", "waiting"}, CallReturns(r, result)
    PROVE  /\ pending' \subseteq Calls /\ call' \in [Calls -> CallStates]
           /\ outcome' \in [Calls -> Outcomes] /\ outcome'[r] # "none"
  <1>1. cell[r] \in Outcomes \cup {"empty"}
    BY DEF TypeOK, Outcomes
  <1>2. (IF r \in pending THEN result ELSE cell[r]) \in Outcomes \ {"none"}
    BY <1>1 DEF CallInv, TypeOK, Outcomes
  <1> QED BY <1>2 DEF CallReturns, TypeOK, Outcomes, CallStates

\* A response on its way stays well-formed when it advances and when it ends.
LEMMA ResponseType ==
    ASSUME TypeOK, NEW p \in responding
    PROVE  /\ p.id \in Inbound
           /\ \A s \in {"claimed", "sending"} : Advance(p, s) => responding' \subseteq Response
           /\ AfterResponse(p) => /\ dispatcher' \in {dispatcher, "handling", "pop"}
                                  /\ current' \in NumberedFrame \cup {NoFrame}
  <1>1. p \in Response
    BY DEF TypeOK
  <1>2. p.id \in Inbound /\ p.by \in {"handler", "dispatcher", "background"}
    BY <1>1 DEF Response
  <1>3. \A s \in {"claimed", "sending"} : [p EXCEPT !.step = s] \in Response
    BY <1>1 DEF Response
  <1>4. \A s \in {"claimed", "sending"} : Advance(p, s) => responding' \subseteq Response
    BY <1>3 DEF Advance, TypeOK
  <1>5. AfterResponse(p) => /\ dispatcher' \in {dispatcher, "handling", "pop"}
                            /\ current' \in NumberedFrame \cup {NoFrame}
    BY <1>2 DEF AfterResponse, TypeOK
  <1> QED BY <1>2, <1>4, <1>5

\* Every action keeps the type of every variable.
LEMMA TypeStep == TypeOK /\ WorkerInv /\ CallInv /\ [Next]_vars => TypeOK'
  <1> SUFFICES ASSUME TypeOK, WorkerInv, CallInv, [Next]_vars
               PROVE  TypeOK'
    OBVIOUS
  <1> USE GoBoundsAssumption
  <1> USE DEF lifeVars, transportVars, linkVars, workerVars, callVars, replyVars
  <1>1. CASE CloseCalled
    <2>1. /\ closing' \in BOOLEAN /\ queuedFailed' \in BOOLEAN /\ stopSignal' \in BOOLEAN
          /\ UNCHANGED <<state, committed, failed, parentDone, supervisor>>
      BY <1>1, StopEffect DEF CloseCalled
    <2> QED BY <1>1, <2>1 DEF CloseCalled, TypeOK
  <1>2. CASE MonitorFails
    <2>1. /\ closing' \in BOOLEAN /\ queuedFailed' \in BOOLEAN /\ stopSignal' \in BOOLEAN
          /\ UNCHANGED <<state, committed, failed, parentDone, supervisor>>
      BY <1>2, StopEffect DEF MonitorFails
    <2> QED BY <1>2, <2>1 DEF MonitorFails, TypeOK
  <1>3. CASE ParentCancelled
    BY <1>3 DEF ParentCancelled, TypeOK
  <1>4. CASE Supervise
    <2>1. ASSUME NEW valid \in BOOLEAN, Run(valid)
          PROVE  TypeOK'
      <3>1. failed' \in BOOLEAN /\ fault' \in BOOLEAN
        BY <2>1 DEF Run, TypeOK
      <3> QED BY <2>1, <3>1 DEF Run, TypeOK
    <2>2. CASE TransportAccepted
      <3>1. failed' \in BOOLEAN /\ fault' \in BOOLEAN
        BY <2>2 DEF TransportAccepted, TypeOK
      <3>2. /\ factory' = "gone" /\ supervisor' \in {"begin", "commit"}
            /\ transport' \in {transport, "closed"} /\ reader' \in {reader, "receive"}
            /\ dispatcher' \in {dispatcher, "pop"} /\ begin' \in {begin, "running"}
        BY <2>2 DEF TransportAccepted
      <3>3. connected' \in BOOLEAN
        BY <2>2 DEF TransportAccepted, TypeOK
      <3> QED BY <2>2, <3>1, <3>2, <3>3 DEF TransportAccepted, TypeOK
    <2>3. CASE CreateStopped \/ StopObserved
      <3>1. stopSignal' \in BOOLEAN /\ supervisor' \in {"joinFactory", "commit"}
        BY <2>3 DEF CreateStopped, StopObserved, TypeOK
      <3>2. UNCHANGED <<state, closing, committed, queuedFailed, failed, parentDone,
                        transportVars, linkVars, workerVars, callVars, replyVars, fault>>
        BY <2>3 DEF CreateStopped, StopObserved
      <3> QED BY <3>1, <3>2 DEF TypeOK
    <2>4. CASE FactoryAbandoned \/ BeginFails
      <3>1. failed' \in BOOLEAN /\ fault' \in BOOLEAN
        BY <2>4 DEF FactoryAbandoned, BeginFails
      <3>2. factory' \in {factory, "abandoned", "discarding"} /\ supervisor' = "commit"
        BY <2>4 DEF FactoryAbandoned, BeginFails
      <3>3. UNCHANGED <<state, closing, committed, stopSignal, queuedFailed, parentDone, made,
                        transport, connected, linkVars, workerVars, callVars, replyVars>>
        BY <2>4 DEF FactoryAbandoned, BeginFails
      <3> QED BY <3>1, <3>2, <3>3 DEF TypeOK
    <2>5. CASE BeginSucceeds
      BY <2>5 DEF BeginSucceeds, TypeOK
    <2>6. CASE CommitStops
      <3>1. failed' \in BOOLEAN /\ queuedFailed' \in BOOLEAN /\ committed' \in BOOLEAN
        BY <2>6 DEF CommitStops, TypeOK
      <3> QED BY <2>6, <3>1 DEF CommitStops, TypeOK
    <2>7. CASE SetClosing
      BY <2>7 DEF SetClosing, TypeOK
    <2>8. CASE FailPending
      <3>1. cell' \in [Calls -> {"empty", "answered", "closed"}]
        BY <2>8 DEF FailPending, TypeOK
      <3> QED BY <2>8, <3>1 DEF FailPending, TypeOK
    <2>9. CASE CancelTasks
      <3>1. queue' \in Seq(NumberedFrame)
        BY <2>9 DEF CancelTasks
      <3> QED BY <2>9, <3>1 DEF CancelTasks, TypeOK
    <2>10. ASSUME NEW ok \in BOOLEAN, FactoryJoined(ok)
           PROVE  TypeOK'
      <3>1. failed' \in BOOLEAN /\ fault' \in BOOLEAN
        BY <2>10 DEF FactoryJoined, TypeOK
      <3> QED BY <2>10, <3>1 DEF FactoryJoined, TypeOK
    <2>11. ASSUME NEW ok \in BOOLEAN, CloseResource(ok)
           PROVE  TypeOK'
      <3>1. failed' \in BOOLEAN /\ fault' \in BOOLEAN
        BY <2>11 DEF CloseResource, TypeOK
      <3> QED BY <2>11, <3>1 DEF CloseResource, TypeOK
    <2>12. CASE Complete
      <3>1. failed' \in BOOLEAN /\ fault' \in BOOLEAN
        BY <2>12 DEF Complete, TypeOK
      <3> QED BY <2>12, <3>1 DEF Complete, TypeOK
    <2> QED BY <1>4, <2>1, <2>2, <2>3, <2>4, <2>5, <2>6, <2>7, <2>8, <2>9, <2>10, <2>11, <2>12
            DEF Supervise
  <1>5. CASE FactoryGoroutine
    BY <1>5 DEF FactoryGoroutine, FactoryReturns, LateResultClosed, TypeOK
  <1>6. ASSUME NEW ok \in BOOLEAN, OnBeginReturns(ok)
        PROVE  TypeOK'
    BY <1>6 DEF OnBeginReturns, TypeOK
  <1>7. CASE ReaderReceives
    <2> DEFINE f == Head(inbound)
    <2>1. inbound' \in Seq(Frame) /\ f \in Frame
      BY <1>7 DEF ReaderReceives, TypeOK
    <2>2. f.kind \in {"request", "event"} => f \in NumberedFrame
      BY <2>1 DEF Frame, NumberedFrame
    <2>3. f \in NumberedFrame => Append(queue, f) \in Seq(NumberedFrame)
      BY DEF TypeOK
    <2> HIDE DEF f
    <2>4. queue' \in Seq(NumberedFrame) /\ reader' \in {"off", "receive", "done"}
      BY <1>7, <2>2, <2>3 DEF ReaderReceives, TypeOK, f
    <2>5. pending' \subseteq Calls /\ cell' \in [Calls -> {"empty", "answered", "closed"}]
      BY <1>7 DEF ReaderReceives, TypeOK
    <2>6. UNCHANGED <<lifeVars, transportVars, link, peerSent, cancelled, dispatcher, current,
                      begin, handled, call, outcome, asked, nested, replyVars, fault>>
      BY <1>7 DEF ReaderReceives
    <2> QED BY <2>1, <2>4, <2>5, <2>6 DEF TypeOK
  <1>8. CASE ReaderEnds
    <2>1. closing' \in BOOLEAN /\ queuedFailed' \in BOOLEAN /\ stopSignal' \in BOOLEAN
          /\ UNCHANGED <<state, committed, failed, parentDone, supervisor>>
      <3>1. UNCHANGED lifeVars \/ \E g \in BOOLEAN : RequestStop(g)
        BY <1>8 DEF ReaderEnds
      <3> QED BY <3>1, StopEffect DEF TypeOK
    <2>2. fault' \in BOOLEAN
      BY <1>8 DEF ReaderEnds, TypeOK
    <2> QED BY <1>8, <2>1, <2>2 DEF ReaderEnds, TypeOK
  <1>9. CASE DispatcherPops
    <2> DEFINE f == Head(queue)
    <2>1. f \in NumberedFrame /\ queue' \in Seq(NumberedFrame)
      BY <1>9 DEF DispatcherPops, TypeOK
    <2>2. f.id \in Inbound
      BY <2>1 DEF NumberedFrame
    <2>3. handled' \in Seq(Inbound) /\ current' \in NumberedFrame
      BY <1>9, <2>1, <2>2 DEF DispatcherPops, TypeOK
    <2>4. reply' \in [Inbound -> {"none", "unclaimed", "deferred", "sent"}]
      BY <1>9 DEF DispatcherPops, TypeOK
    <2> QED BY <1>9, <2>1, <2>3, <2>4 DEF DispatcherPops, TypeOK
  <1>10. CASE DispatcherEnds
    BY <1>10 DEF DispatcherEnds, TypeOK
  <1>11. ASSUME NEW q \in Inbound, NEW by \in {"handler", "dispatcher", "background"},
                NEW close \in BOOLEAN, StartResponse(q, by, close)
         PROVE  responding' \subseteq Response /\ UNCHANGED <<reply, answered, closedAfter>>
    BY <1>11 DEF StartResponse, TypeOK, Response
  <1>12. dispatcher = "handling" => current.id \in Inbound
    BY DEF WorkerInv, NumberedFrame
  <1>13. CASE Handler
    <2>1. ASSUME NEW r \in Calls, HandlerCalls(r)
          PROVE  TypeOK'
      BY <2>1 DEF HandlerCalls, CallChecks, TypeOK
    <2>2. CASE HandlerDefers
      <3>1. reply' \in [Inbound -> {"none", "unclaimed", "deferred", "sent"}]
        BY <2>2 DEF HandlerDefers, TypeOK
      <3> QED BY <2>2, <3>1 DEF HandlerDefers, TypeOK
    <2>3. ASSUME NEW close \in BOOLEAN, HandlerResponds(close)
          PROVE  TypeOK'
      BY <1>11, <1>12, <2>3 DEF HandlerResponds, HandlerRuns, TypeOK
    <2>4. ASSUME NEW err \in BOOLEAN, HandlerReturns(err)
          PROVE  TypeOK'
      <3>1. responding' \subseteq Response /\ UNCHANGED <<reply, answered, closedAfter>>
        BY <1>11, <1>12, <2>4 DEF HandlerReturns, HandlerRuns, TypeOK
      <3>2. dispatcher' \in {"finishing", "pop"} /\ current' \in NumberedFrame \cup {NoFrame}
            /\ nested' = {}
        BY <2>4 DEF HandlerReturns, TypeOK
      <3> QED BY <2>4, <3>1, <3>2 DEF HandlerReturns, TypeOK
    <2>5. ASSUME NEW q \in Inbound, NEW close \in BOOLEAN, DeferredResponds(q, close)
          PROVE  TypeOK'
      BY <1>11, <2>5 DEF DeferredResponds, TypeOK
    <2> QED BY <1>13, <2>1, <2>2, <2>3, <2>4, <2>5 DEF Handler
  <1>14. CASE Responder
    <2>0. PICK p \in responding :
             \/ ResponseClaims(p)
             \/ \E encodable \in BOOLEAN : ResponseEntersSend(p, encodable)
             \/ ResponseSent(p)
             \/ ResponseSendFails(p)
      BY <1>14 DEF Responder
    <2>1. p.id \in Inbound
      BY ResponseType
    <2>2. /\ responding' \subseteq Response
          /\ dispatcher' \in {dispatcher, "handling", "pop"}
          /\ current' \in NumberedFrame \cup {NoFrame}
      <3>1. \/ responding' = responding \ {p} /\ AfterResponse(p)
            \/ (Advance(p, "claimed") \/ Advance(p, "sending")) /\ UNCHANGED <<dispatcher, current>>
        BY <2>0 DEF ResponseClaims, ResponseEntersSend, ResponseSent, ResponseSendFails
      <3> QED BY <3>1, ResponseType DEF TypeOK
    <2>3. /\ closing' \in BOOLEAN /\ queuedFailed' \in BOOLEAN /\ stopSignal' \in BOOLEAN
          /\ UNCHANGED <<state, committed, failed, parentDone, supervisor>>
      <3>1. UNCHANGED lifeVars \/ \E f \in BOOLEAN : RequestStop(f)
        BY <2>0 DEF ResponseClaims, ResponseEntersSend, ResponseSent, ResponseSendFails
      <3> QED BY <3>1, StopEffect DEF TypeOK
    <2>4. fault' \in BOOLEAN
      BY <2>0 DEF ResponseClaims, ResponseEntersSend, ResponseSent, ResponseSendFails, TypeOK
    <2>5. /\ reply' \in [Inbound -> {"none", "unclaimed", "deferred", "sent"}]
          /\ closedAfter' \subseteq Inbound
      BY <2>0, <2>1 DEF ResponseClaims, ResponseEntersSend, ResponseSent, ResponseSendFails, TypeOK
    <2>6. answered' \in [Inbound -> Nat]
      <3>1. answered' = answered \/ answered' = [answered EXCEPT ![p.id] = @ + 1]
        BY <2>0 DEF ResponseClaims, ResponseEntersSend, ResponseSent, ResponseSendFails
      <3>2. answered \in [Inbound -> Nat] /\ answered[p.id] + 1 \in Nat
        BY <2>1 DEF TypeOK
      <3> QED BY <3>1, <3>2
    <2>7. UNCHANGED <<transportVars, linkVars, cancelled, reader, begin, queue, handled, callVars>>
      BY <2>0 DEF ResponseClaims, ResponseEntersSend, ResponseSent, ResponseSendFails
    <2> QED BY <2>2, <2>3, <2>4, <2>5, <2>6, <2>7 DEF TypeOK
  <1>15. ASSUME NEW r \in Calls, AppCalls(r)
         PROVE  TypeOK'
    BY <1>15 DEF AppCalls, CallChecks, TypeOK
  <1>16. ASSUME NEW r \in Calls, Caller(r)
         PROVE  TypeOK'
    <2>1. CASE CallRegisters(r)
      BY <2>1 DEF CallRegisters, TypeOK
    <2>2. ASSUME NEW result \in Outcomes \ {"none"}, CallReturns(r, result),
                 call[r] \in {"registered", "sending", "waiting"},
                 UNCHANGED <<lifeVars, transportVars, linkVars, workerVars, cell, asked, nested,
                             replyVars, fault>>
          PROVE  TypeOK'
      BY <2>2, ReturnType DEF TypeOK, CallStates, Outcomes
    <2>3. ASSUME NEW encodable \in BOOLEAN, CallEntersSend(r, encodable)
          PROVE  TypeOK'
      <3>1. CASE CallReturns(r, "closed") \/ CallReturns(r, "unsent")
        BY <2>2, <2>3, <3>1 DEF CallEntersSend, Outcomes
      <3>2. CASE call' = [call EXCEPT ![r] = "sending"] /\ UNCHANGED <<pending, outcome>>
        BY <2>3, <3>2 DEF CallEntersSend, TypeOK
      <3> QED BY <2>3, <3>1, <3>2 DEF CallEntersSend
    <2>4. CASE CallSent(r)
      BY <2>4 DEF CallSent, TypeOK
    <2>5. CASE CallSendFails(r) \/ CallTimesOut(r)
      BY <2>2, <2>5 DEF CallSendFails, CallTimesOut, Outcomes
    <2>6. CASE CallGetsResult(r)
      BY <2>6 DEF CallGetsResult, TypeOK
    <2> QED BY <1>16, <2>1, <2>3, <2>4, <2>5, <2>6 DEF Caller
  <1>17. CASE Peer
    <2>1. ASSUME NEW kind \in {"request", "event"}, PeerOffers(kind)
          PROVE  TypeOK'
      <3>1. [kind |-> kind, id |-> peerSent + 1] \in Frame /\ peerSent' \in 0 .. MaxInbound
        BY <2>1 DEF PeerOffers, TypeOK, Frame, NumberedFrame, Inbound
      <3>2. inbound' \in Seq(Frame)
        BY <2>1, <3>1 DEF PeerOffers, PeerSends, TypeOK
      <3> QED BY <2>1, <3>1, <3>2 DEF PeerOffers, TypeOK
    <2>2. ASSUME NEW r \in Calls, PeerAnswers(r)
          PROVE  TypeOK'
      <3>1. [kind |-> "response", id |-> r] \in Frame
        BY DEF Frame
      <3>2. inbound' \in Seq(Frame)
        BY <2>2, <3>1 DEF PeerAnswers, PeerSends, TypeOK
      <3> QED BY <2>2, <3>2 DEF PeerAnswers, TypeOK
    <2>3. ASSUME NEW how \in {"eof", "broken"}, LinkEnds(how)
          PROVE  TypeOK'
      BY <2>3 DEF LinkEnds, TypeOK
    <2> QED BY <1>17, <2>1, <2>2, <2>3 DEF Peer
  <1>18. CASE UNCHANGED vars
    BY <1>18 DEF vars, TypeOK
  <1> QED BY <1>1, <1>2, <1>3, <1>4, <1>5, <1>6, <1>7, <1>8, <1>9, <1>10, <1>13, <1>14, <1>15,
             <1>16, <1>17, <1>18 DEF Next

\* The actions that leave the supervisor, the stops and the terminal result
\* alone: those of the callers, of the peer and of the dispatcher.
LEMMA LifeFrame ==
    ASSUME \/ \E r \in Calls : AppCalls(r) \/ Caller(r)
           \/ Peer \/ Handler
           \/ DispatcherPops \/ DispatcherEnds \/ ReaderReceives
           \/ FactoryGoroutine \/ ParentCancelled \/ UNCHANGED vars
           \/ \E ok \in BOOLEAN : OnBeginReturns(ok)
    PROVE  UNCHANGED <<state, closing, committed, queuedFailed, failed, supervisor, fault>>
  <1> USE DEF lifeVars, transportVars, linkVars, workerVars, callVars, replyVars
  <1>1. CASE \E r \in Calls : AppCalls(r) \/ Caller(r)
    BY <1>1 DEF AppCalls, CallChecks, Caller, CallRegisters, CallEntersSend, CallSent,
       CallSendFails, CallGetsResult, CallTimesOut
  <1>2. CASE Peer
    BY <1>2 DEF Peer, PeerOffers, PeerAnswers, LinkEnds
  <1>3. CASE Handler
    BY <1>3 DEF Handler, HandlerCalls, CallChecks, HandlerDefers, HandlerResponds, HandlerReturns,
       DeferredResponds
  <1>4. CASE DispatcherPops \/ DispatcherEnds \/ ReaderReceives
    BY <1>4 DEF DispatcherPops, DispatcherEnds, ReaderReceives
  <1>5. CASE FactoryGoroutine \/ ParentCancelled \/ \E ok \in BOOLEAN : OnBeginReturns(ok)
    BY <1>5 DEF FactoryGoroutine, FactoryReturns, LateResultClosed, ParentCancelled, OnBeginReturns
  <1>6. CASE UNCHANGED vars
    BY <1>6 DEF vars
  <1> QED BY <1>1, <1>2, <1>3, <1>4, <1>5, <1>6

LEMMA LifeStep == TypeOK /\ LifeInv /\ TransportInv /\ WorkerInv /\ ReplyInv /\ [Next]_vars => LifeInv'
  <1> SUFFICES ASSUME TypeOK, LifeInv, TransportInv, WorkerInv, ReplyInv, [Next]_vars
               PROVE  LifeInv'
    OBVIOUS
  <1> USE DEF lifeVars, transportVars, linkVars, workerVars, callVars, replyVars, Shutdown, Failed
  <1>1. CASE UNCHANGED <<state, closing, committed, queuedFailed, failed, supervisor, fault>>
    BY <1>1 DEF LifeInv
  <1>2. ASSUME NEW f \in BOOLEAN, RequestStop(f), supervisor # "idle",
               fault' = (fault \/ (f /\ ~committed)) \/ fault' = fault
        PROVE  LifeInv'
    <2>1. CASE committed
      <3>1. UNCHANGED <<state, committed, queuedFailed, failed, supervisor>> /\ closing'
        BY <1>2, <2>1 DEF RequestStop
      <3>2. fault' = fault
        BY <1>2, <2>1 DEF TypeOK
      <3> QED BY <3>1, <3>2 DEF LifeInv
    <2>2. CASE ~committed
      <3>1. UNCHANGED <<state, committed, failed, supervisor>> /\ closing'
            /\ queuedFailed' = (queuedFailed \/ f)
        BY <1>2, <2>2 DEF RequestStop
      <3>2. fault' => fault \/ f
        BY <1>2
      <3> QED BY <1>2, <2>2, <3>1, <3>2 DEF LifeInv
    <2> QED BY <2>1, <2>2
  <1>3. CASE CloseCalled
    BY <1>2, <1>3 DEF CloseCalled
  <1>4. CASE MonitorFails
    <2>1. fault' = (fault \/ (TRUE /\ ~committed)) /\ supervisor # "idle"
      BY <1>4 DEF MonitorFails, WorkerInv, TransportInv
    <2> QED BY <1>2, <1>4, <2>1 DEF MonitorFails
  <1>5. CASE ReaderEnds
    <2>1. CASE cancelled
      BY <1>1, <1>5, <2>1 DEF ReaderEnds
    <2>2. CASE ~cancelled
      <3>1. supervisor # "idle"
        BY <1>5 DEF ReaderEnds, WorkerInv, TransportInv
      <3>2. RequestStop(link = "broken") /\ fault' = (fault \/ (link = "broken" /\ ~committed))
        BY <1>5, <2>2 DEF ReaderEnds
      <3>3. (link = "broken") \in BOOLEAN
        OBVIOUS
      <3> QED BY <1>2, <3>1, <3>2, <3>3
    <2> QED BY <2>1, <2>2
  <1>6. CASE Responder
    <2>0. PICK p \in responding :
             \/ ResponseClaims(p)
             \/ \E encodable \in BOOLEAN : ResponseEntersSend(p, encodable)
             \/ ResponseSent(p)
             \/ ResponseSendFails(p)
      BY <1>6 DEF Responder
    <2>1. supervisor # "idle"
      BY ResponseType DEF ReplyInv, TransportInv
    <2>2. CASE UNCHANGED <<lifeVars, fault>>
      BY <1>1, <2>2
    <2>3. CASE RequestStop(FALSE) /\ UNCHANGED fault
      BY <1>2, <2>1, <2>3
    <2>4. CASE RequestStop(TRUE) /\ fault' = (fault \/ (~closing /\ ~committed))
      <3>1. CASE closing
        BY <1>2, <2>1, <2>4, <3>1 DEF TypeOK
      <3>2. CASE ~closing
        BY <1>2, <2>1, <2>4, <3>2 DEF TypeOK
      <3> QED BY <3>1, <3>2
    <2>5. CASE RequestStop(TRUE) /\ fault' = (fault \/ ~committed)
      BY <1>2, <2>1, <2>5
    <2> QED BY <2>0, <2>2, <2>3, <2>4, <2>5 DEF ResponseClaims, ResponseEntersSend, ResponseSent,
            ResponseSendFails
  <1>7. CASE Supervise
    <2>1. ASSUME NEW valid \in BOOLEAN, Run(valid)
          PROVE  LifeInv'
      BY <2>1 DEF Run, LifeInv, TypeOK
    <2>2. CASE TransportAccepted
      BY <2>2 DEF TransportAccepted, LifeInv, TypeOK
    <2>3. CASE CreateStopped \/ StopObserved
      BY <2>3 DEF CreateStopped, StopObserved, LifeInv, TypeOK
    <2>4. CASE FactoryAbandoned \/ BeginFails
      BY <2>4 DEF FactoryAbandoned, BeginFails, LifeInv, TypeOK
    <2>5. CASE BeginSucceeds
      BY <2>5 DEF BeginSucceeds, LifeInv, TypeOK
    <2>6. CASE CommitStops
      BY <2>6 DEF CommitStops, LifeInv, TypeOK
    <2>7. CASE SetClosing
      BY <2>7 DEF SetClosing, LifeInv, TypeOK
    <2>8. CASE FailPending \/ CancelTasks
      BY <2>8 DEF FailPending, CancelTasks, LifeInv, TypeOK
    <2>10. ASSUME NEW ok \in BOOLEAN, FactoryJoined(ok)
           PROVE  LifeInv'
      BY <2>10 DEF FactoryJoined, LifeInv, TypeOK
    <2>11. ASSUME NEW ok \in BOOLEAN, CloseResource(ok)
           PROVE  LifeInv'
      BY <2>11 DEF CloseResource, LifeInv, TypeOK
    <2>12. CASE Complete
      BY <2>12 DEF Complete, LifeInv, TypeOK
    <2> QED BY <1>7, <2>1, <2>2, <2>3, <2>4, <2>5, <2>6, <2>7, <2>8, <2>10, <2>11, <2>12
            DEF Supervise
  <1>8. CASE (\E r \in Calls : AppCalls(r) \/ Caller(r)) \/ Peer \/ Handler \/ DispatcherPops \/ DispatcherEnds \/ ReaderReceives
             \/ FactoryGoroutine \/ ParentCancelled \/ UNCHANGED vars
             \/ \E ok \in BOOLEAN : OnBeginReturns(ok)
    BY <1>1, <1>8, LifeFrame
  <1> QED BY <1>3, <1>4, <1>5, <1>6, <1>7, <1>8 DEF Next

LEMMA TransportStep == TypeOK /\ LifeInv /\ TransportInv /\ [Next]_vars => TransportInv'
  <1> SUFFICES ASSUME TypeOK, LifeInv, TransportInv, [Next]_vars
               PROVE  TransportInv'
    OBVIOUS
  <1> USE DEF lifeVars, transportVars, linkVars, workerVars, callVars, replyVars, Released
  <1>1. CASE UNCHANGED <<supervisor, transportVars, link>>
    BY <1>1 DEF TransportInv
  <1>2. CASE (\E r \in Calls : AppCalls(r) \/ Caller(r)) \/ Handler
    BY <1>1, <1>2 DEF AppCalls, CallChecks, Caller, CallRegisters, CallEntersSend, CallSent,
       CallSendFails, CallGetsResult, CallTimesOut, Handler, HandlerCalls, HandlerDefers,
       HandlerResponds, HandlerReturns, DeferredResponds
  <1>3. CASE Responder
    BY <1>1, <1>3 DEF Responder, ResponseClaims, ResponseEntersSend, ResponseSent,
       ResponseSendFails, RequestStop
  <1>4. CASE DispatcherPops \/ DispatcherEnds \/ ReaderReceives \/ ReaderEnds
    BY <1>1, <1>4 DEF DispatcherPops, DispatcherEnds, ReaderReceives, ReaderEnds, RequestStop
  <1>5. CASE CloseCalled \/ MonitorFails \/ ParentCancelled \/ \E ok \in BOOLEAN : OnBeginReturns(ok)
    BY <1>1, <1>5 DEF CloseCalled, MonitorFails, ParentCancelled, OnBeginReturns, RequestStop
  <1>6. CASE Peer
    <2>1. UNCHANGED <<supervisor, transportVars>> /\ (link = "closed" => link' = "closed")
      BY <1>6 DEF Peer, PeerOffers, PeerAnswers, LinkEnds
    <2> QED BY <2>1 DEF TransportInv
  <1>7. CASE FactoryGoroutine
    BY <1>7 DEF FactoryGoroutine, FactoryReturns, LateResultClosed, TransportInv, TypeOK
  <1>8. CASE Supervise
    <2>1. ASSUME NEW valid \in BOOLEAN, Run(valid)
          PROVE  TransportInv'
      BY <2>1 DEF Run, TransportInv, TypeOK
    <2>2. CASE TransportAccepted
      BY <2>2 DEF TransportAccepted, TransportInv, TypeOK
    <2>3. CASE CreateStopped \/ StopObserved \/ FactoryAbandoned
      BY <2>3 DEF CreateStopped, StopObserved, FactoryAbandoned, TransportInv, TypeOK
    <2>4. CASE BeginSucceeds \/ BeginFails
      BY <2>4 DEF BeginSucceeds, BeginFails, TransportInv, TypeOK
    <2>5. CASE CommitStops \/ SetClosing \/ FailPending \/ CancelTasks
      BY <2>5 DEF CommitStops, SetClosing, FailPending, CancelTasks, TransportInv, TypeOK
    <2>6. ASSUME NEW ok \in BOOLEAN, FactoryJoined(ok)
          PROVE  TransportInv'
      BY <2>6 DEF FactoryJoined, TransportInv, TypeOK
    <2>7. ASSUME NEW ok \in BOOLEAN, CloseResource(ok)
          PROVE  TransportInv'
      BY <2>7 DEF CloseResource, TransportInv, TypeOK
    <2>8. CASE Complete
      BY <2>8 DEF Complete, TransportInv, TypeOK
    <2> QED BY <1>8, <2>1, <2>2, <2>3, <2>4, <2>5, <2>6, <2>7, <2>8 DEF Supervise
  <1>9. CASE UNCHANGED vars
    BY <1>1, <1>9 DEF vars
  <1> QED BY <1>2, <1>3, <1>4, <1>5, <1>6, <1>7, <1>8, <1>9 DEF Next

LEMMA WorkerStep == TypeOK /\ TransportInv /\ WorkerInv /\ [Next]_vars => WorkerInv'
  <1> SUFFICES ASSUME TypeOK, TransportInv, WorkerInv, [Next]_vars
               PROVE  WorkerInv'
    OBVIOUS
  <1> USE DEF lifeVars, transportVars, linkVars, workerVars, callVars, replyVars
  <1>0. dispatcher \in {"off", "pop", "handling"} => \A p \in responding : p.by = "background"
    <2>1. \A p \in responding : p.by \in {"handler", "dispatcher", "background"}
      BY DEF TypeOK, Response
    <2> QED BY <2>1 DEF WorkerInv
  <1>1. CASE UNCHANGED <<connected, reader, dispatcher, current, responding>>
    BY <1>1 DEF WorkerInv
  <1>2. CASE \E r \in Calls : AppCalls(r) \/ Caller(r) \/ HandlerCalls(r)
    BY <1>1, <1>2 DEF AppCalls, CallChecks, Caller, CallRegisters, CallEntersSend, CallSent,
       CallSendFails, CallGetsResult, CallTimesOut, HandlerCalls
  <1>3. CASE Peer \/ FactoryGoroutine \/ HandlerDefers
    BY <1>1, <1>3 DEF Peer, PeerOffers, PeerAnswers, LinkEnds, FactoryGoroutine, FactoryReturns,
       LateResultClosed, HandlerDefers
  <1>4. CASE CloseCalled \/ MonitorFails \/ ParentCancelled \/ \E ok \in BOOLEAN : OnBeginReturns(ok)
    BY <1>1, <1>4 DEF CloseCalled, MonitorFails, ParentCancelled, OnBeginReturns, RequestStop
  <1>5. CASE Supervise
    <2>1. CASE TransportAccepted
      <3>1. dispatcher = "off" /\ \A p \in responding : p.by = "background"
        BY <1>0, <2>1 DEF TransportAccepted, TransportInv, WorkerInv
      <3> QED BY <2>1, <3>1 DEF TransportAccepted, WorkerInv
    <2>2. CASE UNCHANGED <<connected, reader, dispatcher, current, responding>>
      BY <1>1, <2>2
    <2> QED BY <1>5, <2>1, <2>2 DEF Supervise, Run, CreateStopped, FactoryAbandoned, BeginSucceeds,
            BeginFails, StopObserved, CommitStops, SetClosing, FailPending, CancelTasks,
            FactoryJoined, CloseResource, Complete
  <1>6. CASE ReaderReceives \/ ReaderEnds
    BY <1>6 DEF ReaderReceives, ReaderEnds, WorkerInv
  <1>7. CASE DispatcherPops
    <2>1. Head(queue) \in NumberedFrame
      BY <1>7 DEF DispatcherPops, TypeOK
    <2> QED BY <1>0, <1>7, <2>1 DEF DispatcherPops, WorkerInv
  <1>8. CASE DispatcherEnds
    BY <1>8 DEF DispatcherEnds, WorkerInv
  <1>9. ASSUME NEW close \in BOOLEAN, HandlerResponds(close)
        PROVE  WorkerInv'
    <2> DEFINE p == [id |-> current.id, by |-> "handler", close |-> close, step |-> "checked"]
    <2>1. p.by = "handler" /\ p.id = current.id
      OBVIOUS
    <2>2. /\ responding' = responding \cup {p} /\ dispatcher = "handling"
          /\ dispatcher' = "responding" /\ UNCHANGED <<connected, reader, current>>
      BY <1>9 DEF HandlerResponds, HandlerRuns, StartResponse
    <2> HIDE DEF p
    <2> QED BY <1>0, <2>1, <2>2 DEF WorkerInv
  <1>10. ASSUME NEW err \in BOOLEAN, HandlerReturns(err)
         PROVE  WorkerInv'
    <2>1. CASE UNCHANGED replyVars /\ dispatcher' = "pop"
      BY <1>0, <1>10, <2>1 DEF HandlerReturns, HandlerRuns, WorkerInv
    <2>2. CASE /\ StartResponse(current.id, "dispatcher", FALSE)
               /\ dispatcher' = "finishing" /\ UNCHANGED current
      <3> DEFINE p == [id |-> current.id, by |-> "dispatcher", close |-> FALSE, step |-> "checked"]
      <3>1. p.by = "dispatcher" /\ p.id = current.id
        OBVIOUS
      <3>2. /\ responding' = responding \cup {p} /\ dispatcher = "handling"
            /\ dispatcher' = "finishing" /\ UNCHANGED <<connected, reader, current>>
        BY <1>10, <2>2 DEF HandlerReturns, HandlerRuns, StartResponse
      <3> HIDE DEF p
      <3> QED BY <1>0, <3>1, <3>2 DEF WorkerInv
    <2> QED BY <1>10, <2>1, <2>2 DEF HandlerReturns
  <1>11. ASSUME NEW q \in Inbound, NEW close \in BOOLEAN, DeferredResponds(q, close)
         PROVE  WorkerInv'
    BY <1>11 DEF DeferredResponds, StartResponse, WorkerInv
  <1>12. CASE Responder
    <2>0. PICK p \in responding :
             \/ ResponseClaims(p)
             \/ \E encodable \in BOOLEAN : ResponseEntersSend(p, encodable)
             \/ ResponseSent(p)
             \/ ResponseSendFails(p)
      BY <1>12 DEF Responder
    <2>1. UNCHANGED <<connected, reader>>
      BY <2>0 DEF ResponseClaims, ResponseEntersSend, ResponseSent, ResponseSendFails
    <2>2. p \in Response /\ p.by \in {"handler", "dispatcher", "background"}
      BY DEF TypeOK, Response
    <2>3. CASE responding' = responding \ {p} /\ AfterResponse(p)
      <3>1. CASE p.by = "background"
        BY <2>1, <2>3, <3>1 DEF AfterResponse, WorkerInv
      <3>2. CASE p.by # "background"
        <4>1. \A p2 \in responding' : p2.by = "background"
          BY <2>3, <3>2 DEF WorkerInv
        <4>2. dispatcher \in {"responding", "finishing"} /\ current \in NumberedFrame
          BY <2>2, <3>2 DEF WorkerInv
        <4>3. dispatcher' \in {"handling", "pop"}
              /\ (dispatcher' = "handling" => current' = current)
          BY <2>2, <2>3, <3>2 DEF AfterResponse
        <4> QED BY <2>1, <4>1, <4>2, <4>3 DEF WorkerInv
      <3> QED BY <3>1, <3>2
    <2>4. ASSUME NEW s \in {"claimed", "sending"}, Advance(p, s), UNCHANGED <<dispatcher, current>>
          PROVE  WorkerInv'
      <3> DEFINE p1 == [p EXCEPT !.step = s]
      <3>1. p1.by = p.by /\ p1.id = p.id
        BY <2>2 DEF Response
      <3>2. responding' = (responding \ {p}) \cup {p1}
        BY <2>4 DEF Advance
      <3> HIDE DEF p1
      <3> QED BY <2>1, <2>4, <3>1, <3>2 DEF WorkerInv
    <2> QED BY <2>0, <2>3, <2>4 DEF ResponseClaims, ResponseEntersSend, ResponseSent,
            ResponseSendFails
  <1>13. CASE Handler
    BY <1>2, <1>3, <1>9, <1>10, <1>11, <1>13 DEF Handler
  <1>14. CASE UNCHANGED vars
    BY <1>1, <1>14 DEF vars
  <1> QED BY <1>2, <1>3, <1>4, <1>5, <1>6, <1>7, <1>8, <1>12, <1>13, <1>14 DEF Next

\* The requests and events on the wire after the peer sent a frame, and after
\* the reader took one.
LEMMA WireAppend ==
    ASSUME inbound \in Seq(Frame), NEW f \in Frame, inbound' = Append(inbound, f)
    PROVE  /\ \A i \in OnTheWire : i \in 1 .. Len(inbound) /\ inbound'[i] = inbound[i]
           /\ inbound'[Len(inbound) + 1] = f
           /\ OnTheWire' = IF f \in NumberedFrame THEN OnTheWire \cup {Len(inbound) + 1}
                                                  ELSE OnTheWire
  <1>1. /\ Len(inbound') = Len(inbound) + 1 /\ Len(inbound) \in Nat
        /\ \A i \in 1 .. Len(inbound) : inbound'[i] = inbound[i]
        /\ inbound'[Len(inbound) + 1] = f
    BY AppendProperties
  <1> QED BY <1>1 DEF OnTheWire

LEMMA WireTail ==
    ASSUME inbound \in Seq(Frame), inbound # <<>>, inbound' = Tail(inbound)
    PROVE  /\ \A i \in OnTheWire' : /\ i \in Nat \ {0} /\ i + 1 \in OnTheWire
                                    /\ inbound'[i] = inbound[i + 1]
           /\ \A i \in OnTheWire : i = 1 \/ (i - 1 \in OnTheWire' /\ inbound'[i - 1] = inbound[i])
           /\ Head(inbound) = inbound[1]
           /\ Head(inbound) \in NumberedFrame => 1 \in OnTheWire
           /\ Head(inbound) \notin NumberedFrame => 1 \notin OnTheWire
  <1>1. /\ Len(inbound') = Len(inbound) - 1 /\ Len(inbound) \in Nat \ {0}
        /\ \A i \in 1 .. Len(inbound) - 1 : inbound'[i] = inbound[i + 1]
        /\ Head(inbound) = inbound[1]
    BY HeadTailProperties, EmptySeq
  <1> QED BY <1>1 DEF OnTheWire

LEMMA FlowStep == TypeOK /\ FlowInv /\ [Next]_vars => FlowInv'
  <1> SUFFICES ASSUME TypeOK, FlowInv, [Next]_vars, ~cancelled'
               PROVE  FlowInv'
    BY DEF FlowInv
  <1> USE GoBoundsAssumption
  <1> USE DEF lifeVars, transportVars, linkVars, workerVars, callVars, replyVars
  <1> DEFINE n == Len(handled) + Len(queue)
  <1>0. ~cancelled
    <2>1. CASE Supervise
      BY <2>1 DEF Supervise, Run, TransportAccepted, CreateStopped, FactoryAbandoned,
         BeginSucceeds, BeginFails, StopObserved, CommitStops, SetClosing, FailPending, CancelTasks,
         FactoryJoined, CloseResource, Complete
    <2>2. CASE ~Supervise
      BY <2>2 DEF Next, vars, FactoryGoroutine, FactoryReturns, LateResultClosed, OnBeginReturns,
         ReaderReceives, ReaderEnds, DispatcherPops, DispatcherEnds, Handler, HandlerCalls,
         CallChecks, HandlerDefers, HandlerResponds, HandlerReturns, DeferredResponds, Responder,
         ResponseClaims, ResponseEntersSend, ResponseSent, ResponseSendFails, AppCalls, Caller,
         CallRegisters, CallEntersSend, CallSent, CallSendFails, CallGetsResult, CallTimesOut,
         Peer, PeerOffers, PeerAnswers, LinkEnds, CloseCalled, MonitorFails, ParentCancelled
    <2> QED BY <2>1, <2>2
  <1>1. /\ Len(handled) \in Nat /\ Len(queue) \in Nat /\ Len(inbound) \in Nat
        /\ n \in Nat /\ peerSent \in Nat
    BY DEF TypeOK
  <1>2. /\ \A i \in 1 .. Len(handled) : handled[i] = i
        /\ \A i \in 1 .. Len(queue) : queue[i].id = Len(handled) + i
        /\ n <= peerSent
        /\ \A i \in OnTheWire : inbound[i].id \in n + 1 .. peerSent
        /\ \A q \in n + 1 .. peerSent : \E i \in OnTheWire : inbound[i].id = q
        /\ \A i, j \in OnTheWire : i < j => inbound[i].id < inbound[j].id
    BY <1>0 DEF FlowInv
  <1>3. CASE UNCHANGED <<handled, queue, inbound, peerSent>>
    BY <1>0, <1>3 DEF FlowInv, OnTheWire
  <1>4. CASE CloseCalled \/ MonitorFails \/ ParentCancelled \/ \E ok \in BOOLEAN : OnBeginReturns(ok)
    BY <1>3, <1>4 DEF CloseCalled, MonitorFails, ParentCancelled, OnBeginReturns
  <1>5. CASE (\E r \in Calls : AppCalls(r) \/ Caller(r)) \/ Handler
    BY <1>3, <1>5 DEF AppCalls, CallChecks, Caller, CallRegisters, CallEntersSend, CallSent,
       CallSendFails, CallGetsResult, CallTimesOut, Handler, HandlerCalls, HandlerDefers,
       HandlerResponds, HandlerReturns, DeferredResponds
  <1>6. CASE ReaderEnds \/ DispatcherEnds \/ FactoryGoroutine \/ Responder
    BY <1>3, <1>6 DEF ReaderEnds, DispatcherEnds, FactoryGoroutine, FactoryReturns,
       LateResultClosed, Responder, ResponseClaims, ResponseEntersSend, ResponseSent,
       ResponseSendFails
  <1>7. CASE Supervise
    BY <1>3, <1>7 DEF Supervise, Run, TransportAccepted, CreateStopped, FactoryAbandoned,
       BeginSucceeds, BeginFails, StopObserved, CommitStops, SetClosing, FailPending, CancelTasks,
       FactoryJoined, CloseResource, Complete
  <1>8. CASE Peer
    <2> HIDE DEF n
    <2>1. CASE \E how \in {"eof", "broken"} : LinkEnds(how)
      BY <1>3, <2>1 DEF LinkEnds
    <2>2. ASSUME NEW f \in Frame \ NumberedFrame, PeerSends(f),
                 UNCHANGED <<handled, queue, peerSent>>
          PROVE  FlowInv'
      <3>1. OnTheWire' = OnTheWire /\ \A i \in OnTheWire : inbound'[i] = inbound[i]
        BY <2>2, WireAppend DEF PeerSends, TypeOK
      <3> QED BY <1>2, <2>2, <3>1 DEF FlowInv, n
    <2>3. ASSUME NEW kind \in {"request", "event"}, PeerOffers(kind)
          PROVE  FlowInv'
      <3> DEFINE f == [kind |-> kind, id |-> peerSent + 1]
                 last == Len(inbound) + 1
      <3>1. f \in NumberedFrame /\ f.id = peerSent + 1 /\ f \in Frame
        BY <2>3 DEF PeerOffers, TypeOK, NumberedFrame, Inbound, Frame
      <3>2. /\ UNCHANGED <<handled, queue>> /\ peerSent' = peerSent + 1
            /\ inbound' = Append(inbound, f)
        BY <2>3 DEF PeerOffers, PeerSends
      <3> HIDE DEF f
      <3>3. /\ OnTheWire' = OnTheWire \cup {last}
            /\ \A i \in OnTheWire : i \in 1 .. Len(inbound) /\ inbound'[i] = inbound[i]
            /\ inbound'[last] = f
        BY <3>1, <3>2, WireAppend DEF TypeOK
      <3>4. n' = n
        BY <3>2 DEF n
      <3> HIDE DEF last
      <3>5. \A i \in OnTheWire' : inbound'[i].id \in n + 1 .. peerSent + 1
        <4> TAKE i \in OnTheWire'
        <4>1. CASE i = last
          BY <1>1, <1>2, <3>1, <3>3, <4>1
        <4>2. CASE i \in OnTheWire
          <5>1. inbound'[i].id \in n + 1 .. peerSent
            BY <1>2, <3>3, <4>2
          <5> QED BY <1>1, <5>1
        <4> QED BY <3>3, <4>1, <4>2
      <3>6. \A q \in n + 1 .. peerSent + 1 : \E i \in OnTheWire' : inbound'[i].id = q
        <4> TAKE q \in n + 1 .. peerSent + 1
        <4>1. CASE q = peerSent + 1
          BY <3>1, <3>3, <4>1
        <4>2. CASE q # peerSent + 1
          <5>1. q \in n + 1 .. peerSent
            BY <1>1, <4>2
          <5>2. PICK i \in OnTheWire : inbound[i].id = q
            BY <1>2, <5>1
          <5> QED BY <3>3, <5>2
        <4> QED BY <4>1, <4>2
      <3>7. \A i, j \in OnTheWire' : i < j => inbound'[i].id < inbound'[j].id
        <4> SUFFICES ASSUME NEW i \in OnTheWire', NEW j \in OnTheWire', i < j
                     PROVE  inbound'[i].id < inbound'[j].id
          OBVIOUS
        <4>1. CASE j = last
          <5>1. i \in OnTheWire
            BY <1>1, <3>3, <4>1 DEF last
          <5> QED BY <1>1, <1>2, <3>1, <3>3, <4>1, <5>1
        <4>2. CASE j # last
          <5>1. i \in OnTheWire /\ j \in OnTheWire
            BY <1>1, <3>3, <4>2 DEF last
          <5> QED BY <1>2, <3>3, <5>1
        <4> QED BY <4>1, <4>2
      <3>8. n <= peerSent + 1
        BY <1>1, <1>2
      <3> QED BY <1>2, <3>2, <3>5, <3>6, <3>7, <3>8 DEF FlowInv, n
    <2>4. ASSUME NEW r \in Calls, PeerAnswers(r)
          PROVE  FlowInv'
      <3>1. [kind |-> "response", id |-> r] \in Frame \ NumberedFrame
        BY DEF Frame, NumberedFrame
      <3> QED BY <2>2, <2>4, <3>1 DEF PeerAnswers
    <2> QED BY <1>8, <2>1, <2>3, <2>4 DEF Peer
  <1>9. CASE ReaderReceives
    <2> DEFINE f == Head(inbound)
    <2>1. inbound \in Seq(Frame) /\ inbound # <<>> /\ inbound' = Tail(inbound)
          /\ UNCHANGED <<handled, peerSent>>
      BY <1>9 DEF ReaderReceives, TypeOK
    <2>2. /\ \A i \in OnTheWire' : /\ i \in Nat \ {0} /\ i + 1 \in OnTheWire
                                    /\ inbound'[i] = inbound[i + 1]
          /\ \A i \in OnTheWire : i = 1 \/ (i - 1 \in OnTheWire' /\ inbound'[i - 1] = inbound[i])
          /\ f = inbound[1]
          /\ f \in NumberedFrame => 1 \in OnTheWire
          /\ f \notin NumberedFrame => 1 \notin OnTheWire
      BY <2>1, WireTail
    <2>3. f \in Frame /\ (f.kind \in {"request", "event"} <=> f \in NumberedFrame)
      <3>1. f \in Frame
        BY <2>1
      <3> QED BY <3>1 DEF Frame, NumberedFrame
    <2>4. \A i, j \in OnTheWire' : i < j => inbound'[i].id < inbound'[j].id
      BY <1>2, <2>2
    <2> HIDE DEF f
    <2>5. CASE f.kind = "response"
      <3>1. UNCHANGED queue
        BY <1>9, <2>5 DEF ReaderReceives, f
      <3>2. 1 \notin OnTheWire
        BY <2>2, <2>3, <2>5
      <3>3. \A i \in OnTheWire' : inbound'[i].id \in n + 1 .. peerSent
        BY <1>2, <2>2
      <3>4. \A q \in n + 1 .. peerSent : \E i \in OnTheWire' : inbound'[i].id = q
        BY <1>2, <2>2, <3>2
      <3> QED BY <1>2, <2>1, <2>4, <3>1, <3>3, <3>4 DEF FlowInv
    <2>6. CASE f.kind \in {"request", "event"}
      <3> HIDE DEF n
      <3>1. 1 \in OnTheWire /\ f.id \in n + 1 .. peerSent
        BY <1>2, <2>2, <2>3, <2>6
      <3>2. \A i \in OnTheWire : i \in Nat \ {0}
        BY DEF OnTheWire
      <3>3. \A i \in OnTheWire : i # 1 => f.id < inbound[i].id
        BY <1>2, <2>2, <3>1, <3>2
      <3>4. f.id = n + 1
        <4>1. n + 1 \in n + 1 .. peerSent
          BY <1>1, <3>1
        <4>2. PICK i \in OnTheWire : inbound[i].id = n + 1
          BY <1>2, <4>1
        <4>3. ~(f.id < n + 1)
          BY <1>1, <3>1
        <4> QED BY <2>2, <3>3, <4>2, <4>3
      <3>5. \A i \in OnTheWire' : inbound'[i].id \in n + 2 .. peerSent
        <4> TAKE i \in OnTheWire'
        <4>1. i + 1 \in OnTheWire /\ i + 1 # 1 /\ inbound'[i] = inbound[i + 1]
          BY <2>2
        <4>2. n + 1 < inbound'[i].id /\ inbound'[i].id \in n + 1 .. peerSent
          BY <1>2, <3>3, <3>4, <4>1
        <4> QED BY <1>1, <4>2
      <3>6. \A q \in n + 2 .. peerSent : \E i \in OnTheWire' : inbound'[i].id = q
        <4> TAKE q \in n + 2 .. peerSent
        <4>1. PICK i \in OnTheWire : inbound[i].id = q
          BY <1>1, <1>2
        <4>2. i # 1
          BY <1>1, <2>2, <3>4, <4>1
        <4> QED BY <2>2, <4>1, <4>2
      <3>7. n + 1 <= peerSent
        BY <1>1, <3>1
      <3>8. queue' = Append(queue, f)
        BY <1>0, <1>9, <2>6 DEF ReaderReceives, f
      <3>9. /\ Len(queue') = Len(queue) + 1
            /\ \A i \in 1 .. Len(queue) : queue'[i] = queue[i]
            /\ queue'[Len(queue) + 1] = f
        <4>1. f \in NumberedFrame /\ queue \in Seq(NumberedFrame)
          BY <2>3, <2>6 DEF TypeOK
        <4> QED BY <3>8, <4>1, AppendProperties
      <3>10. \A i \in 1 .. Len(queue') : queue'[i].id = Len(handled) + i
        <4> TAKE i \in 1 .. Len(queue')
        <4>1. CASE i = Len(queue) + 1
          BY <1>1, <3>4, <3>9, <4>1 DEF n
        <4>2. CASE i # Len(queue) + 1
          <5>1. i \in 1 .. Len(queue)
            BY <1>1, <3>9, <4>2
          <5> QED BY <1>2, <3>9, <5>1
        <4> QED BY <4>1, <4>2
      <3>11. n' = n + 1 /\ n + 1 + 1 = n + 2
        BY <1>1, <2>1, <3>9 DEF n
      <3>12. /\ n' <= peerSent'
             /\ \A i \in OnTheWire' : inbound'[i].id \in n' + 1 .. peerSent'
             /\ \A q \in n' + 1 .. peerSent' : \E i \in OnTheWire' : inbound'[i].id = q
        BY <2>1, <3>5, <3>6, <3>7, <3>11
      <3> QED BY <1>2, <2>1, <2>4, <3>10, <3>12 DEF FlowInv, n
    <2> QED BY <1>9, <2>5, <2>6 DEF ReaderReceives, f
  <1>10. CASE DispatcherPops
    <2>1. queue \in Seq(NumberedFrame) /\ queue # <<>> /\ UNCHANGED <<inbound, peerSent>>
          /\ handled \in Seq(Inbound) /\ queue' = Tail(queue)
      BY <1>10 DEF DispatcherPops, TypeOK
    <2>2. /\ Head(queue) = queue[1] /\ Len(queue) \in Nat \ {0}
          /\ Len(queue') = Len(queue) - 1
          /\ \A i \in 1 .. Len(queue) - 1 : queue'[i] = queue[i + 1]
      BY <2>1, HeadTailProperties, EmptySeq
    <2>3. Head(queue).id = Len(handled) + 1 /\ Head(queue).id \in Inbound
      <3>1. Head(queue) \in NumberedFrame
        BY <2>1
      <3> QED BY <1>2, <2>2, <3>1 DEF NumberedFrame
    <2>4. /\ Len(handled') = Len(handled) + 1
          /\ \A i \in 1 .. Len(handled') : handled'[i] = i
      <3>1. handled' = Append(handled, Head(queue).id)
        BY <1>10 DEF DispatcherPops
      <3>2. /\ Len(handled') = Len(handled) + 1
            /\ \A i \in 1 .. Len(handled) : handled'[i] = handled[i]
            /\ handled'[Len(handled) + 1] = Head(queue).id
        BY <2>1, <2>3, <3>1, AppendProperties
      <3> QED BY <1>1, <1>2, <2>3, <3>2
    <2>5. \A i \in 1 .. Len(queue') : queue'[i].id = Len(handled) + 1 + i
      BY <1>1, <1>2, <2>2, SMTT(30)
    <2>6. OnTheWire' = OnTheWire
      BY <2>1 DEF OnTheWire
    <2>7. n' = n
      BY <1>1, <2>2, <2>4
    <2> HIDE DEF n
    <2>8. /\ n' <= peerSent'
          /\ \A i \in OnTheWire' : inbound'[i].id \in n' + 1 .. peerSent'
          /\ \A q \in n' + 1 .. peerSent' : \E i \in OnTheWire' : inbound'[i].id = q
          /\ \A i, j \in OnTheWire' : i < j => inbound'[i].id < inbound'[j].id
      BY <1>2, <2>1, <2>6, <2>7
    <2> QED BY <2>4, <2>5, <2>8 DEF FlowInv, n
  <1>11. CASE UNCHANGED vars
    BY <1>3, <1>11 DEF vars
  <1> QED BY <1>4, <1>5, <1>6, <1>7, <1>8, <1>9, <1>10, <1>11 DEF Next

\* closing is never unset and the transport never forgotten.
LEMMA Monotone == [Next]_vars => (closing => closing') /\ (connected => connected')
  <1> SUFFICES ASSUME [Next]_vars PROVE (closing => closing') /\ (connected => connected')
    OBVIOUS
  <1> USE DEF lifeVars, transportVars, linkVars, workerVars, callVars, replyVars
  <1>1. CASE Supervise
    BY <1>1 DEF Supervise, Run, TransportAccepted, CreateStopped, FactoryAbandoned,
       BeginSucceeds, BeginFails, StopObserved, CommitStops, SetClosing, FailPending, CancelTasks,
       FactoryJoined, CloseResource, Complete
  <1>2. CASE Responder
    BY <1>2 DEF Responder, ResponseClaims, ResponseEntersSend, ResponseSent, ResponseSendFails,
       RequestStop
  <1>3. CASE CloseCalled \/ MonitorFails \/ ReaderEnds
    BY <1>3 DEF CloseCalled, MonitorFails, ReaderEnds, RequestStop
  <1>4. CASE FactoryGoroutine \/ ReaderReceives \/ DispatcherPops \/ DispatcherEnds \/ Peer
             \/ ParentCancelled \/ \E ok \in BOOLEAN : OnBeginReturns(ok)
    <2>1. UNCHANGED closing
      BY <1>4, LifeFrame
    <2>2. UNCHANGED connected
      BY <1>4 DEF FactoryGoroutine, FactoryReturns, LateResultClosed, OnBeginReturns,
         ReaderReceives, DispatcherPops, DispatcherEnds, Peer, PeerOffers, PeerAnswers, LinkEnds,
         ParentCancelled
    <2> QED BY <2>1, <2>2
  <1>5. CASE Handler \/ \E r \in Calls : AppCalls(r) \/ Caller(r)
    <2>1. UNCHANGED closing
      BY <1>5, LifeFrame
    <2>2. UNCHANGED connected
      BY <1>5 DEF Handler, HandlerCalls, CallChecks, HandlerDefers, HandlerResponds, HandlerReturns,
         DeferredResponds, AppCalls, Caller, CallRegisters, CallEntersSend, CallSent,
         CallSendFails, CallGetsResult, CallTimesOut
    <2> QED BY <2>1, <2>2
  <1>6. CASE UNCHANGED vars
    BY <1>6 DEF vars
  <1> QED BY <1>1, <1>2, <1>3, <1>4, <1>5, <1>6 DEF Next

LEMMA ReplyStep ==
    TypeOK /\ TransportInv /\ WorkerInv /\ FlowInv /\ ReplyInv /\ [Next]_vars => ReplyInv'
  <1> SUFFICES ASSUME TypeOK, TransportInv, WorkerInv, FlowInv, ReplyInv, [Next]_vars
               PROVE  ReplyInv'
    OBVIOUS
  <1> USE DEF lifeVars, transportVars, linkVars, workerVars, callVars, replyVars
  <1> DEFINE Working == {"handling", "responding", "finishing"}
  <1>0. /\ reply \in [Inbound -> {"none", "unclaimed", "deferred", "sent"}]
        /\ answered \in [Inbound -> Nat]
        /\ \A p \in responding : p.id \in Inbound /\ p \in Response
        /\ closedAfter \subseteq Inbound /\ Len(handled) \in Nat
    BY DEF TypeOK, Response
  <1>a. (closing => closing') /\ (connected => connected')
    BY Monotone
  <1>1. CASE /\ UNCHANGED <<replyVars, handled>>
             /\ \/ UNCHANGED <<dispatcher, current>>
                \/ dispatcher' \notin Working
    BY <1>a, <1>1 DEF ReplyInv, NoSilentReply
  <1>2. CASE \E r \in Calls : AppCalls(r) \/ Caller(r) \/ HandlerCalls(r)
    BY <1>1, <1>2 DEF AppCalls, CallChecks, Caller, CallRegisters, CallEntersSend, CallSent,
       CallSendFails, CallGetsResult, CallTimesOut, HandlerCalls
  <1>3. CASE Peer \/ FactoryGoroutine \/ ReaderReceives \/ ReaderEnds \/ DispatcherEnds
    BY <1>1, <1>3 DEF Peer, PeerOffers, PeerAnswers, LinkEnds, FactoryGoroutine, FactoryReturns,
       LateResultClosed, ReaderReceives, ReaderEnds, DispatcherEnds
  <1>4. CASE CloseCalled \/ MonitorFails \/ ParentCancelled \/ \E ok \in BOOLEAN : OnBeginReturns(ok)
    BY <1>1, <1>4 DEF CloseCalled, MonitorFails, ParentCancelled, OnBeginReturns
  <1>5. CASE Supervise
    BY <1>1, <1>5 DEF Supervise, Run, TransportAccepted, CreateStopped, FactoryAbandoned,
       BeginSucceeds, BeginFails, StopObserved, CommitStops, SetClosing, FailPending, CancelTasks,
       FactoryJoined, CloseResource, Complete
  <1>6. CASE DispatcherPops
    <2> DEFINE q == Head(queue).id
    <2>1. queue \in Seq(NumberedFrame) /\ queue # <<>>
      BY <1>6 DEF DispatcherPops, TypeOK
    <2>2. Head(queue) = queue[1] /\ 1 \in 1 .. Len(queue) /\ queue[1] \in NumberedFrame
      BY <2>1
    <2>3. q = Len(handled) + 1 /\ q \in Inbound
      BY <1>6, <2>2 DEF DispatcherPops, FlowInv, NumberedFrame
    <2>4. connected
      BY <1>6 DEF DispatcherPops, WorkerInv
    <2>5. /\ current' = Head(queue) /\ current'.id = q
          /\ current'.kind = "request" => reply'[q] = "unclaimed"
      BY <1>0, <1>6, <2>3 DEF DispatcherPops
    <2>6. /\ UNCHANGED <<responding, answered, closedAfter, closing, connected>>
          /\ reply'[q] \in {"none", "unclaimed"}
          /\ \A x \in Inbound : x # q => reply'[x] = reply[x]
      BY <1>0, <1>6, <2>3 DEF DispatcherPops
    <2>7. Len(handled') = Len(handled) + 1
      <3>1. handled \in Seq(Inbound) /\ handled' = Append(handled, q)
        BY <1>6 DEF DispatcherPops, TypeOK
      <3> QED BY <2>3, <3>1, AppendProperties
    <2> HIDE DEF q
    <2>8. ~(q <= Len(handled))
      BY <1>0, <2>3
    <2>9. reply[q] = "none" /\ answered[q] = 0
      BY <2>3, <2>8 DEF ReplyInv
    <2>10. \A p \in responding : p.id # q
      BY <2>9 DEF ReplyInv
    <2>11. \A x \in Inbound : reply'[x] # "none" => x <= Len(handled')
      <3> TAKE x \in Inbound
      <3>1. x \in Int
        BY DEF Inbound
      <3>2. CASE x = q
        BY <1>0, <2>3, <2>7, <3>2
      <3>3. CASE x # q
        BY <1>0, <2>6, <2>7, <3>1, <3>3 DEF ReplyInv
      <3> QED BY <3>2, <3>3
    <2>12. NoSilentReply'
      <3> SUFFICES ASSUME NEW x \in Inbound, reply'[x] = "sent"
                   PROVE  \/ answered'[x] = 1 \/ closing'
                          \/ \E p \in responding' : p.id = x /\ p.step # "checked"
        BY DEF NoSilentReply
      <3> QED BY <2>6 DEF ReplyInv, NoSilentReply
    <2>13. \A x \in Inbound : answered'[x] \in {0, 1} /\ (answered'[x] = 1 => reply'[x] = "sent")
      BY <2>6, <2>9 DEF ReplyInv
    <2>14. /\ \A p \in responding' : reply'[p.id] # "none"
           /\ \A p \in responding' : p.step # "checked" => reply'[p.id] = "sent" /\ answered'[p.id] = 0
      BY <1>0, <2>6, <2>10 DEF ReplyInv
    <2>15. /\ \A p1, p2 \in responding' :
                 p1.id = p2.id /\ p1.step # "checked" /\ p2.step # "checked" => p1 = p2
           /\ \A x \in closedAfter' : answered'[x] = 1
      BY <2>6 DEF ReplyInv
    <2> QED BY <2>4, <2>5, <2>6, <2>11, <2>12, <2>13, <2>14, <2>15 DEF ReplyInv
  <1>7. dispatcher = "handling" => current.id \in Inbound
    BY DEF WorkerInv, NumberedFrame
  <1>8. ASSUME NEW q \in Inbound, NEW by, NEW close, StartResponse(q, by, close),
               reply[q] # "none", UNCHANGED <<handled, closing, connected, current>>,
               dispatcher' \in Working => dispatcher \in Working
        PROVE  ReplyInv'
    <2> DEFINE p == [id |-> q, by |-> by, close |-> close, step |-> "checked"]
    <2>1. responding' = responding \cup {p} /\ UNCHANGED <<reply, answered, closedAfter>>
      BY <1>8 DEF StartResponse
    <2>2. p.id = q /\ p.step = "checked"
      OBVIOUS
    <2> HIDE DEF p
    <2>3. NoSilentReply'
      BY <1>8, <2>1 DEF ReplyInv, NoSilentReply
    <2> QED BY <1>8, <2>1, <2>2, <2>3 DEF ReplyInv
  <1>9. CASE Handler
    <2>1. ASSUME NEW close \in BOOLEAN, HandlerResponds(close)
          PROVE  ReplyInv'
      <3>1. reply[current.id] # "none"
        BY <2>1 DEF HandlerResponds, HandlerRuns, ReplyInv
      <3> QED BY <1>7, <1>8, <2>1, <3>1 DEF HandlerResponds, HandlerRuns
    <2>2. CASE HandlerDefers
      <3>1. current.id \in Inbound /\ reply[current.id] = "unclaimed"
        BY <1>7, <2>2 DEF HandlerDefers, HandlerRuns
      <3>2. /\ reply'[current.id] = "deferred"
            /\ \A x \in Inbound : x # current.id => reply'[x] = reply[x]
            /\ UNCHANGED <<responding, answered, closedAfter, handled, closing, connected,
                           dispatcher, current>>
        BY <1>0, <2>2, <3>1 DEF HandlerDefers
      <3>3. \A p \in responding : p.id = current.id => p.step = "checked"
        BY <3>1 DEF ReplyInv
      <3>4. NoSilentReply'
        BY <3>1, <3>2 DEF ReplyInv, NoSilentReply
      <3> QED BY <1>0, <3>1, <3>2, <3>3, <3>4 DEF ReplyInv
    <2>3. ASSUME NEW err \in BOOLEAN, HandlerReturns(err)
          PROVE  ReplyInv'
      <3>1. CASE UNCHANGED replyVars /\ dispatcher' = "pop"
        BY <1>1, <2>3, <3>1 DEF HandlerReturns
      <3>2. CASE /\ StartResponse(current.id, "dispatcher", FALSE)
                 /\ dispatcher' = "finishing" /\ UNCHANGED current
                 /\ current.kind = "request"
        <4>1. reply[current.id] # "none" /\ current.id \in Inbound /\ dispatcher \in Working
          BY <1>7, <2>3, <3>2 DEF HandlerReturns, HandlerRuns, ReplyInv
        <4>2. UNCHANGED <<handled, closing, connected>>
          BY <2>3 DEF HandlerReturns
        <4> QED BY <1>8, <3>2, <4>1, <4>2
      <3> QED BY <2>3, <3>1, <3>2 DEF HandlerReturns
    <2>4. ASSUME NEW q \in Inbound, NEW close \in BOOLEAN, DeferredResponds(q, close)
          PROVE  ReplyInv'
      BY <1>8, <2>4 DEF DeferredResponds
    <2> QED BY <1>2, <1>9, <2>1, <2>2, <2>3, <2>4 DEF Handler
  <1>10. CASE Responder
    <2>0. PICK p \in responding :
             \/ ResponseClaims(p)
             \/ \E encodable \in BOOLEAN : ResponseEntersSend(p, encodable)
             \/ ResponseSent(p)
             \/ ResponseSendFails(p)
      BY <1>10 DEF Responder
    <2> DEFINE q == p.id
               Moved(s) == [p EXCEPT !.step = s]
    <2>1. /\ q \in Inbound /\ p \in Response /\ p.by \in {"handler", "dispatcher", "background"}
          /\ \A s \in {"claimed", "sending"} : Moved(s).id = q /\ Moved(s).step = s
      <3>1. p \in Response
        BY <1>0
      <3> QED BY <3>1 DEF Response
    <2> HIDE DEF Moved
    <2>2. UNCHANGED <<handled, connected>>
      BY <2>0 DEF ResponseClaims, ResponseEntersSend, ResponseSent, ResponseSendFails
    <2>3. /\ dispatcher' \in Working => dispatcher \in Working /\ current' = current
      <3>1. AfterResponse(p) \/ UNCHANGED <<dispatcher, current>>
        BY <2>0 DEF ResponseClaims, ResponseEntersSend, ResponseSent, ResponseSendFails
      <3>2. p.by = "handler" => dispatcher = "responding"
        BY DEF WorkerInv
      <3> QED BY <2>1, <3>1, <3>2 DEF AfterResponse
    <2>4. CASE reply' = [reply EXCEPT ![q] = "sent"] /\ reply[q] # "sent"
               /\ Advance(p, "claimed") /\ UNCHANGED <<answered, closedAfter>>
      <3>1. responding' = (responding \ {p}) \cup {Moved("claimed")}
        BY <2>4 DEF Advance, Moved
      <3>2. \A p2 \in responding : p2.id = q => p2.step = "checked"
        BY <2>4 DEF ReplyInv
      <3>3. answered[q] = 0 /\ reply[q] # "none"
        BY <2>1, <2>4 DEF ReplyInv
      <3>4. reply'[q] = "sent" /\ \A x \in Inbound : x # q => reply'[x] = reply[x]
        BY <1>0, <2>1, <2>4
      <3>5. NoSilentReply'
        <4> SUFFICES ASSUME NEW x \in Inbound, reply'[x] = "sent"
                     PROVE  \/ answered'[x] = 1 \/ closing'
                            \/ \E p2 \in responding' : p2.id = x /\ p2.step # "checked"
          BY DEF NoSilentReply
        <4>1. CASE x = q
          BY <2>1, <3>1, <4>1
        <4>2. CASE x # q
          <5>1. reply[x] = "sent"
            BY <3>4, <4>2
          <5> QED BY <1>a, <2>4, <3>1, <4>2, <5>1 DEF ReplyInv, NoSilentReply
        <4> QED BY <4>1, <4>2
      <3>6. \A x \in Inbound : /\ reply'[x] # "none" => x <= Len(handled') /\ connected'
                               /\ answered'[x] \in {0, 1}
                               /\ answered'[x] = 1 => reply'[x] = "sent"
        BY <2>2, <2>4, <3>3, <3>4 DEF ReplyInv
      <3>7. \A p2 \in responding' : /\ reply'[p2.id] # "none"
                                    /\ p2.step # "checked" => reply'[p2.id] = "sent" /\ answered'[p2.id] = 0
        BY <1>0, <2>1, <2>4, <3>1, <3>3, <3>4 DEF ReplyInv
      <3>8. \A p1, p2 \in responding' :
               p1.id = p2.id /\ p1.step # "checked" /\ p2.step # "checked" => p1 = p2
        BY <2>1, <3>1, <3>2 DEF ReplyInv
      <3>9. \A x \in closedAfter' : answered'[x] = 1
        BY <2>4 DEF ReplyInv
      <3>10. dispatcher' \in Working /\ current'.kind = "request" => reply'[current'.id] # "none"
        <4>1. dispatcher \in Working => current.id \in Inbound
          BY DEF WorkerInv, NumberedFrame
        <4> QED BY <2>3, <3>4, <4>1 DEF ReplyInv
      <3> QED BY <3>5, <3>6, <3>7, <3>8, <3>9, <3>10 DEF ReplyInv
    <2>5. CASE UNCHANGED <<reply, answered, closedAfter>> /\ p.step = "claimed"
               /\ Advance(p, "sending")
      <3>1. responding' = (responding \ {p}) \cup {Moved("sending")}
        BY <2>5 DEF Advance, Moved
      <3>2. \A p2 \in responding : p2.id = q /\ p2 # p => p2.step = "checked"
        BY <2>5 DEF ReplyInv
      <3>3. answered[q] = 0 /\ reply[q] = "sent"
        BY <2>1, <2>5 DEF ReplyInv
      <3>4. NoSilentReply'
        <4> SUFFICES ASSUME NEW x \in Inbound, reply'[x] = "sent"
                     PROVE  \/ answered'[x] = 1 \/ closing'
                            \/ \E p2 \in responding' : p2.id = x /\ p2.step # "checked"
          BY DEF NoSilentReply
        <4>1. CASE x = q
          BY <2>1, <3>1, <4>1
        <4>2. CASE x # q
          BY <1>a, <2>5, <3>1, <4>2 DEF ReplyInv, NoSilentReply
        <4> QED BY <4>1, <4>2
      <3>5. \A p2 \in responding' : /\ reply'[p2.id] # "none"
                                    /\ p2.step # "checked" => reply'[p2.id] = "sent" /\ answered'[p2.id] = 0
        BY <2>1, <2>5, <3>1, <3>3 DEF ReplyInv
      <3>6. \A p1, p2 \in responding' :
               p1.id = p2.id /\ p1.step # "checked" /\ p2.step # "checked" => p1 = p2
        BY <2>1, <3>1, <3>2 DEF ReplyInv
      <3> QED BY <2>2, <2>3, <2>5, <3>4, <3>5, <3>6 DEF ReplyInv
    <2>6. CASE UNCHANGED <<reply, answered, closedAfter>> /\ responding' = responding \ {p}
               /\ (p.step = "checked" \/ closing')
      <3>1. NoSilentReply'
        BY <1>a, <2>6 DEF ReplyInv, NoSilentReply
      <3> QED BY <2>2, <2>3, <2>6, <3>1 DEF ReplyInv
    <2>7. CASE /\ UNCHANGED reply /\ responding' = responding \ {p} /\ p.step = "sending"
               /\ answered' = [answered EXCEPT ![q] = @ + 1]
               /\ closedAfter' \subseteq closedAfter \cup {q}
      <3>1. answered[q] = 0 /\ reply[q] = "sent"
        BY <2>1, <2>7 DEF ReplyInv
      <3>2. answered'[q] = 1 /\ \A x \in Inbound : x # q => answered'[x] = answered[x]
        BY <1>0, <2>1, <2>7, <3>1
      <3>3. \A p2 \in responding' : p2.id = q => p2.step = "checked"
        BY <2>7 DEF ReplyInv
      <3>4. NoSilentReply'
        <4> SUFFICES ASSUME NEW x \in Inbound, reply'[x] = "sent"
                     PROVE  \/ answered'[x] = 1 \/ closing'
                            \/ \E p2 \in responding' : p2.id = x /\ p2.step # "checked"
          BY DEF NoSilentReply
        <4>1. CASE x = q
          BY <3>2, <4>1
        <4>2. CASE x # q
          BY <1>a, <2>7, <3>2, <4>2 DEF ReplyInv, NoSilentReply
        <4> QED BY <4>1, <4>2
      <3>5. \A x \in Inbound : /\ reply'[x] # "none" => x <= Len(handled') /\ connected'
                               /\ answered'[x] \in {0, 1}
                               /\ answered'[x] = 1 => reply'[x] = "sent"
        BY <2>2, <2>7, <3>1, <3>2 DEF ReplyInv
      <3>6. \A p2 \in responding' : /\ reply'[p2.id] # "none"
                                    /\ p2.step # "checked" => reply'[p2.id] = "sent" /\ answered'[p2.id] = 0
        BY <1>0, <2>7, <3>2, <3>3 DEF ReplyInv
      <3>7. \A p1, p2 \in responding' :
               p1.id = p2.id /\ p1.step # "checked" /\ p2.step # "checked" => p1 = p2
        BY <2>7 DEF ReplyInv
      <3>8. \A x \in closedAfter' : answered'[x] = 1
        BY <1>0, <2>7, <3>2 DEF ReplyInv
      <3>9. dispatcher' \in Working /\ current'.kind = "request" => reply'[current'.id] # "none"
        BY <2>3, <2>7 DEF ReplyInv
      <3> QED BY <3>4, <3>5, <3>6, <3>7, <3>8, <3>9 DEF ReplyInv
    <2>8. CASE ResponseClaims(p)
      BY <2>4, <2>6, <2>8 DEF ResponseClaims
    <2>9. ASSUME NEW encodable \in BOOLEAN, ResponseEntersSend(p, encodable)
          PROVE  ReplyInv'
      BY <2>5, <2>6, <2>9 DEF ResponseEntersSend, RequestStop
    <2>10. CASE ResponseSent(p)
      BY <2>7, <2>10 DEF ResponseSent
    <2>11. CASE ResponseSendFails(p)
      BY <2>6, <2>11 DEF ResponseSendFails, RequestStop
    <2> QED BY <2>0, <2>8, <2>9, <2>10, <2>11
  <1>11. CASE UNCHANGED vars
    BY <1>1, <1>11 DEF vars
  <1> QED BY <1>2, <1>3, <1>4, <1>5, <1>6, <1>9, <1>10, <1>11 DEF Next

\* A caller that returns takes its entry with it and has an outcome.
LEMMA ReturnCalls ==
    ASSUME TypeOK, CallInv, NEW r \in Calls, NEW result \in Outcomes \ {"none"},
           call[r] \in {"registered", "sending", "waiting"}, CallReturns(r, result),
           UNCHANGED <<cell, supervisor>>
    PROVE  /\ CallInv'
           /\ \A s \in Calls : outcome[s] # "none" => outcome'[s] = outcome[s]
  <1>1. outcome'[r] # "none"
    BY ReturnType
  <1>2. /\ pending' = pending \ {r} /\ call'[r] = "returned"
        /\ \A s \in Calls : s # r => call'[s] = call[s] /\ outcome'[s] = outcome[s]
    BY DEF CallReturns, TypeOK
  <1>3. outcome[r] = "none"
    BY DEF CallInv
  <1>4. pending \subseteq Calls
    BY DEF TypeOK
  <1> QED BY <1>1, <1>2, <1>3, <1>4 DEF CallInv

\* The call's part of the invariant is preserved, and what was decided stays.
LEMMA CallStep ==
    TypeOK /\ LifeInv /\ CallInv /\ [Next]_vars =>
      /\ CallInv'
      /\ \A r \in Calls : /\ outcome[r] # "none" => outcome'[r] = outcome[r]
                          /\ cell[r] # "empty" => cell'[r] = cell[r]
  <1> DEFINE Kept == \A r \in Calls : /\ outcome[r] # "none" => outcome'[r] = outcome[r]
                                      /\ cell[r] # "empty" => cell'[r] = cell[r]
  <1> SUFFICES ASSUME TypeOK, LifeInv, CallInv, [Next]_vars
               PROVE  CallInv' /\ Kept
    OBVIOUS
  <1> USE DEF lifeVars, transportVars, linkVars, workerVars, callVars, replyVars
  <1>0. pending \subseteq Calls
    BY DEF TypeOK
  <1>1. CASE UNCHANGED <<call, pending, cell, outcome>> /\ (supervisor' \in Failed => supervisor \in Failed)
    BY <1>1 DEF CallInv
  <1>2. CASE Peer \/ Responder \/ DispatcherPops \/ DispatcherEnds \/ ReaderEnds \/ FactoryGoroutine
    BY <1>1, <1>2 DEF Peer, PeerOffers, PeerAnswers, LinkEnds, Responder, ResponseClaims,
       ResponseEntersSend, ResponseSent, ResponseSendFails, RequestStop, DispatcherPops,
       DispatcherEnds, ReaderEnds, FactoryGoroutine, FactoryReturns, LateResultClosed
  <1>3. CASE CloseCalled \/ MonitorFails \/ ParentCancelled \/ \E ok \in BOOLEAN : OnBeginReturns(ok)
    BY <1>1, <1>3 DEF CloseCalled, MonitorFails, ParentCancelled, OnBeginReturns, RequestStop
  <1>4. CASE Supervise
    <2>1. CASE FailPending
      <3>1. pending' = {} /\ UNCHANGED <<call, outcome>>
            /\ \A r \in Calls : cell'[r] = IF r \in pending THEN "closed" ELSE cell[r]
        BY <2>1 DEF FailPending
      <3> QED BY <1>0, <3>1 DEF CallInv
    <2>2. CASE ~FailPending
      <3>1. UNCHANGED <<call, pending, cell, outcome>>
        BY <1>4, <2>2 DEF Supervise, Run, TransportAccepted, CreateStopped, FactoryAbandoned,
           BeginSucceeds, BeginFails, StopObserved, CommitStops, SetClosing, CancelTasks,
           FactoryJoined, CloseResource, Complete
      <3>2. supervisor' \in Failed => supervisor \in Failed
        BY <1>4, <2>2 DEF Supervise, Run, TransportAccepted, CreateStopped, FactoryAbandoned,
           BeginSucceeds, BeginFails, StopObserved, CommitStops, SetClosing, CancelTasks,
           FactoryJoined, CloseResource, Complete, Failed
      <3> QED BY <1>1, <3>1, <3>2
    <2> QED BY <2>1, <2>2
  <1>5. CASE ReaderReceives
    <2>1. UNCHANGED <<call, outcome, supervisor>>
      BY <1>5 DEF ReaderReceives
    <2>2. CASE UNCHANGED <<pending, cell>>
      BY <1>1, <2>1, <2>2
    <2>3. ASSUME NEW r, pending' = pending \ {r},
                 cell' = IF r \in pending THEN [cell EXCEPT ![r] = "answered"] ELSE cell
          PROVE  CallInv' /\ Kept
      <3>1. CASE r \in pending
        <4>1. r \in Calls /\ cell[r] = "empty"
          BY <3>1 DEF TypeOK, CallInv
        <4>2. cell'[r] = "answered" /\ \A s \in Calls : s # r => cell'[s] = cell[s]
          BY <2>3, <3>1, <4>1 DEF TypeOK
        <4> QED BY <2>1, <2>3, <3>1, <4>1, <4>2 DEF CallInv
      <3>2. CASE r \notin pending
        BY <1>1, <2>1, <2>3, <3>2
      <3> QED BY <3>1, <3>2
    <2> QED BY <1>5, <2>2, <2>3 DEF ReaderReceives
  <1>6. ASSUME NEW r \in Calls, CallChecks(r)
        PROVE  CallInv' /\ Kept
    BY <1>6 DEF CallChecks, CallInv, TypeOK
  <1>7. CASE Handler
    BY <1>1, <1>6, <1>7 DEF Handler, HandlerCalls, HandlerDefers, HandlerResponds, HandlerReturns,
       DeferredResponds
  <1>8. ASSUME NEW r \in Calls, Caller(r)
        PROVE  CallInv' /\ Kept
    <2>1. CASE CallRegisters(r)
      <3>1. /\ pending' = pending \cup {r} /\ UNCHANGED <<cell, outcome, supervisor>>
            /\ call[r] = "checked" /\ call'[r] = "registered"
            /\ \A s \in Calls : s # r => call'[s] = call[s]
        BY <2>1 DEF CallRegisters, TypeOK
      <3> QED BY <1>0, <3>1 DEF CallInv
    <2>2. ASSUME NEW result \in Outcomes \ {"none"}, CallReturns(r, result),
                 call[r] \in {"registered", "sending", "waiting"}, UNCHANGED <<cell, supervisor>>
          PROVE  CallInv' /\ Kept
      BY <2>2, ReturnCalls
    <2>3. ASSUME NEW encodable \in BOOLEAN, CallEntersSend(r, encodable)
          PROVE  CallInv' /\ Kept
      <3>1. CASE CallReturns(r, "closed") \/ CallReturns(r, "unsent")
        BY <2>2, <2>3, <3>1 DEF CallEntersSend, Outcomes
      <3>2. CASE call' = [call EXCEPT ![r] = "sending"] /\ UNCHANGED <<pending, outcome>> /\ ~closing
        <4>1. supervisor \notin Failed
          BY <3>2 DEF LifeInv, Shutdown
        <4> QED BY <2>3, <3>2, <4>1 DEF CallEntersSend, CallInv, TypeOK
      <3> QED BY <2>3, <3>1, <3>2 DEF CallEntersSend
    <2>4. CASE CallSent(r)
      <3>1. /\ UNCHANGED <<pending, cell, outcome, supervisor>>
            /\ call[r] = "sending" /\ call'[r] = "waiting"
            /\ \A s \in Calls : s # r => call'[s] = call[s]
        BY <2>4 DEF CallSent, TypeOK
      <3> QED BY <1>0, <3>1 DEF CallInv
    <2>5. CASE CallSendFails(r) \/ CallTimesOut(r)
      BY <2>2, <2>5 DEF CallSendFails, CallTimesOut, Outcomes
    <2>6. CASE CallGetsResult(r)
      <3>1. /\ UNCHANGED <<pending, cell, supervisor>>
            /\ call[r] = "waiting" /\ cell[r] # "empty" /\ call'[r] = "returned"
            /\ outcome'[r] = cell[r]
            /\ \A s \in Calls : s # r => call'[s] = call[s] /\ outcome'[s] = outcome[s]
        BY <2>6 DEF CallGetsResult, TypeOK
      <3>2. cell[r] # "none" /\ outcome[r] = "none" /\ r \notin pending
        BY <3>1 DEF TypeOK, CallInv
      <3> QED BY <1>0, <3>1, <3>2 DEF CallInv
    <2> QED BY <1>8, <2>1, <2>3, <2>4, <2>5, <2>6 DEF Caller
  <1>9. CASE UNCHANGED vars
    BY <1>1, <1>9 DEF vars
  <1> QED BY <1>2, <1>3, <1>4, <1>5, <1>6, <1>7, <1>8, <1>9 DEF Next, AppCalls

LEMMA SessionInvariant == Spec => []SessionInv
  <1>1. Init => SessionInv
    <2> SUFFICES ASSUME Init PROVE SessionInv
      OBVIOUS
    <2>1. /\ inbound \in Seq(Frame) /\ queue \in Seq(NumberedFrame) /\ handled \in Seq(Inbound)
          /\ Len(inbound) = 0 /\ Len(queue) = 0 /\ Len(handled) = 0
      BY EmptySeq DEF Init
    <2>2. TypeOK
      <3>0. peerSent \in 0 .. MaxInbound
        BY GoBoundsAssumption DEF Init
      <3>1. /\ closing \in BOOLEAN /\ committed \in BOOLEAN /\ stopSignal \in BOOLEAN
            /\ queuedFailed \in BOOLEAN /\ failed \in BOOLEAN /\ parentDone \in BOOLEAN
            /\ connected \in BOOLEAN /\ cancelled \in BOOLEAN /\ fault \in BOOLEAN
        BY DEF Init
      <3>2. /\ call \in [Calls -> CallStates] /\ outcome \in [Calls -> Outcomes]
            /\ cell \in [Calls -> {"empty", "answered", "closed"}]
        BY DEF Init, CallStates, Outcomes
      <3>3. /\ reply \in [Inbound -> {"none", "unclaimed", "deferred", "sent"}]
            /\ answered \in [Inbound -> Nat]
        BY DEF Init
      <3> QED BY <2>1, <3>0, <3>1, <3>2, <3>3 DEF Init, TypeOK, CallStates, Outcomes
    <2>3. LifeInv /\ TransportInv /\ WorkerInv
      BY DEF Init, LifeInv, TransportInv, WorkerInv, Shutdown, Failed, Released
    <2>4. FlowInv
      BY <2>1 DEF Init, FlowInv, OnTheWire
    <2>5. ReplyInv
      BY DEF Init, ReplyInv, NoSilentReply
    <2>6. CallInv
      BY DEF Init, CallInv
    <2> QED BY <2>2, <2>3, <2>4, <2>5, <2>6 DEF SessionInv
  <1>2. SessionInv /\ [Next]_vars => SessionInv'
    BY TypeStep, LifeStep, TransportStep, WorkerStep, FlowStep, ReplyStep, CallStep DEF SessionInv
  <1> QED BY <1>1, <1>2, PTL DEF Spec

-----------------------------------------------------------------------------
(* The properties.                                                          *)

\* A caller in Send or in the final select can always be completed, shutdown
\* leaves behind only entries that are about to be cancelled, and a result is
\* never published into a cell that is taken.
THEOREM NoOrphanedCallTheorem == Spec => []NoOrphanedCall
  <1>1. SessionInv => NoOrphanedCall
    BY DEF SessionInv, TypeOK, CallInv, NoOrphanedCall
  <1> QED BY <1>1, SessionInvariant, PTL

\* Response, context, deadline, failed send and failPending settle a call once.
THEOREM SettledOnceTheorem == Spec => SettledOnce
  <1>1. SessionInv /\ [Next]_vars
          => [\A r \in Calls : /\ outcome[r] # "none" => outcome'[r] = outcome[r]
                               /\ cell[r] # "empty" => cell'[r] = cell[r]]_vars
    BY CallStep DEF SessionInv
  <1> QED BY <1>1, SessionInvariant, PTL DEF Spec, SettledOnce

\* A failure that was observed in time is the outcome of the session, and a
\* transport its factory made is closed.
THEOREM EndsExactTheorem == Spec => []EndsExact
  <1>1. SessionInv => EndsExact
    BY DEF SessionInv, TypeOK, LifeInv, TransportInv, Shutdown, Failed, Released, EndsExact
  <1> QED BY <1>1, SessionInvariant, PTL

\* The parts of FlowInv, put end to end.
LEMMA ReceivedInOrder == SessionInv => DispatchedInOrder
  <1> SUFFICES ASSUME SessionInv, ~cancelled
               PROVE  /\ \A i \in 1 .. Len(Received) : Received[i] = i
                      /\ {inbound[i].id : i \in OnTheWire} = Len(Received) + 1 .. peerSent
                      /\ \A i, j \in OnTheWire : i < j => inbound[i].id < inbound[j].id
    BY DEF DispatchedInOrder
  <1> DEFINE n == Len(handled) + Len(queue)
  <1>1. /\ handled \in Seq(Inbound) /\ queue \in Seq(NumberedFrame)
        /\ Len(handled) \in Nat /\ Len(queue) \in Nat
    BY DEF SessionInv, TypeOK
  <1>2. /\ Ids(queue) \in Seq(Inbound) /\ Len(Ids(queue)) = Len(queue)
        /\ \A i \in 1 .. Len(queue) : Ids(queue)[i] = queue[i].id
    <2>1. \A i \in 1 .. Len(queue) : queue[i] \in NumberedFrame /\ queue[i].id \in Inbound
      <3>1. \A i \in 1 .. Len(queue) : queue[i] \in NumberedFrame
        BY <1>1
      <3> QED BY <3>1 DEF NumberedFrame
    <2>2. Ids(queue) \in [1 .. Len(queue) -> Inbound]
      BY <2>1 DEF Ids
    <2> QED BY <1>1, <2>2 DEF Ids
  <1>3. /\ Len(Received) = n
        /\ \A i \in 1 .. n :
              Received[i] = IF i <= Len(handled) THEN handled[i] ELSE Ids(queue)[i - Len(handled)]
    <2>1. ASSUME NEW s \in Seq(Inbound)
          PROVE  /\ Len(handled \o s) = Len(handled) + Len(s)
                 /\ \A i \in 1 .. Len(handled) + Len(s) : (handled \o s)[i]
                       = IF i <= Len(handled) THEN handled[i] ELSE s[i - Len(handled)]
      BY <1>1, ConcatProperties
    <2> QED BY <1>2, <2>1 DEF Received
  <1>4. /\ \A i \in 1 .. Len(handled) : handled[i] = i
        /\ \A i \in 1 .. Len(queue) : queue[i].id = Len(handled) + i
        /\ \A i \in OnTheWire : inbound[i].id \in n + 1 .. peerSent
        /\ \A q \in n + 1 .. peerSent : \E i \in OnTheWire : inbound[i].id = q
        /\ \A i, j \in OnTheWire : i < j => inbound[i].id < inbound[j].id
    BY DEF SessionInv, FlowInv
  <1>5. \A i \in 1 .. n : Received[i] = i
    <2> TAKE i \in 1 .. n
    <2>1. CASE i <= Len(handled)
      <3>1. i \in 1 .. Len(handled)
        BY <1>1, <2>1
      <3> QED BY <1>3, <1>4, <2>1, <3>1
    <2>2. CASE ~(i <= Len(handled))
      <3>1. i - Len(handled) \in 1 .. Len(queue)
        BY <1>1, <2>2
      <3>2. Ids(queue)[i - Len(handled)] = Len(handled) + (i - Len(handled))
        BY <1>2, <1>4, <3>1
      <3> QED BY <1>1, <1>3, <2>2, <3>2
    <2> QED BY <2>1, <2>2
  <1> HIDE DEF n
  <1> QED BY <1>3, <1>4, <1>5

\* Frames are dispatched completely and in the order sent, a request is
\* answered at most once whoever races for its reply, a claimed reply is not
\* lost silently, and RespondThenClose stops the session after its response.
THEOREM RepliesExactTheorem == Spec => []RepliesExact
  <1>1. SessionInv => RepliesExact
    <2> SUFFICES ASSUME SessionInv PROVE RepliesExact
      OBVIOUS
    <2>1. TypeOK /\ ReplyInv /\ DispatchedInOrder
      BY ReceivedInOrder DEF SessionInv
    <2>2. AtMostOneResponse
      BY <2>1 DEF ReplyInv, AtMostOneResponse
    <2> QED BY <2>1, <2>2 DEF ReplyInv, RepliesExact
  <1> QED BY <1>1, SessionInvariant, PTL

-----------------------------------------------------------------------------
(* The refinement of SessionContract.                                       *)

\* The lifecycle state moves forward, and only the supervisor moves it.
LEMMA PhaseStep ==
    SessionInv /\ [Next]_vars =>
      \/ state' = state
      \/ state = "inactive" /\ state' = "connecting"
      \/ state = "connecting" /\ state' \in {"active", "closing"}
      \/ state = "active" /\ state' = "closing"
      \/ state = "closing" /\ state' \in {"closed", "failed"}
  <1> SUFFICES ASSUME SessionInv, [Next]_vars, state' # state
               PROVE  \/ state = "inactive" /\ state' = "connecting"
                      \/ state = "connecting" /\ state' \in {"active", "closing"}
                      \/ state = "active" /\ state' = "closing"
                      \/ state = "closing" /\ state' \in {"closed", "failed"}
    OBVIOUS
  <1> USE DEF lifeVars, transportVars, linkVars, workerVars, callVars, replyVars
  <1>1. CASE Supervise
    BY <1>1 DEF SessionInv, LifeInv, Shutdown, Failed, Supervise, Run, TransportAccepted,
       CreateStopped, FactoryAbandoned, BeginSucceeds, BeginFails, StopObserved, CommitStops,
       SetClosing, FailPending, CancelTasks, FactoryJoined, CloseResource, Complete
  <1>2. CASE CloseCalled \/ MonitorFails \/ ReaderEnds \/ Responder
    BY <1>2 DEF CloseCalled, MonitorFails, ReaderEnds, Responder, ResponseClaims,
       ResponseEntersSend, ResponseSent, ResponseSendFails, RequestStop
  <1> QED BY <1>1, <1>2, LifeFrame DEF Next

\* A request is opened by a caller past the second closing check, and one that
\* is open stays open until it is settled.
Open == {r \in pending : call[r] \in {"sending", "waiting"}}

LEMMA OpenStep ==
    SessionInv /\ SessionInv' /\ [Next]_vars =>
      /\ Open' \subseteq Open \/ state \in {"connecting", "active"}
      /\ \A r \in Open : r \in Open' \/ outcome'[r] # "none" \/ cell'[r] # "empty"
  <1> SUFFICES ASSUME SessionInv, SessionInv', [Next]_vars
               PROVE  /\ Open' \subseteq Open \/ state \in {"connecting", "active"}
                      /\ \A r \in Open : r \in Open' \/ outcome'[r] # "none" \/ cell'[r] # "empty"
    OBVIOUS
  <1> USE DEF lifeVars, transportVars, linkVars, workerVars, callVars, replyVars
  <1>0. /\ Open \subseteq Calls /\ CallInv' /\ call \in [Calls -> CallStates]
        /\ call' \in [Calls -> CallStates]
    BY DEF SessionInv, TypeOK, Open, CallStates
  <1>1. ASSUME NEW r \in Open, call'[r] \in {"sending", "waiting", "returned"}
        PROVE  r \in Open' \/ outcome'[r] # "none" \/ cell'[r] # "empty"
    BY <1>0, <1>1 DEF CallInv, Open
  <1>2. CASE call' = call /\ pending' \subseteq pending
    <2>1. \A r \in Open : call'[r] \in {"sending", "waiting"}
      BY <1>2 DEF Open
    <2> QED BY <1>1, <1>2, <2>1 DEF Open
  <1>3. ASSUME NEW r \in Calls, NEW s \in CallStates \ {"idle"},
               call' = [call EXCEPT ![r] = s], pending' \subseteq pending \cup {r},
               s \in {"checked", "registered"} => r \notin Open,
               s \in {"sending", "waiting"} /\ r \in Open' => r \in Open \/ state \in {"connecting", "active"}
        PROVE  /\ Open' \subseteq Open \/ state \in {"connecting", "active"}
               /\ \A x \in Open : x \in Open' \/ outcome'[x] # "none" \/ cell'[x] # "empty"
    <2>1. call'[r] = s /\ \A x \in Calls : x # r => call'[x] = call[x]
      BY <1>0, <1>3
    <2>2. \A x \in Open' : x \in Open \/ (x = r /\ s \in {"sending", "waiting"})
      <3>1. Open' \subseteq Calls
        BY DEF SessionInv, TypeOK, Open
      <3> QED BY <1>3, <2>1, <3>1 DEF Open
    <2>3. \A x \in Open : call'[x] \in {"sending", "waiting"} \/ x = r
      BY <1>0, <2>1 DEF Open
    <2>4. \A x \in Open : call'[x] \in {"sending", "waiting", "returned"}
      BY <1>3, <2>1, <2>3 DEF CallStates
    <2> QED BY <1>1, <1>3, <2>2, <2>4
  <1>4. CASE \E r \in Calls : AppCalls(r) \/ HandlerCalls(r)
    <2>1. PICK r \in Calls : CallChecks(r)
      BY <1>4 DEF AppCalls, HandlerCalls
    <2>2. r \notin Open /\ call' = [call EXCEPT ![r] = "checked"] /\ pending' = pending
      BY <2>1 DEF CallChecks, Open
    <2> QED BY <1>3, <2>2 DEF CallStates
  <1>5. ASSUME NEW r \in Calls, Caller(r)
        PROVE  /\ Open' \subseteq Open \/ state \in {"connecting", "active"}
               /\ \A x \in Open : x \in Open' \/ outcome'[x] # "none" \/ cell'[x] # "empty"
    <2>1. CASE CallRegisters(r)
      BY <1>3, <2>1 DEF CallRegisters, CallStates, Open
    <2>2. ASSUME NEW result, CallReturns(r, result)
          PROVE  /\ Open' \subseteq Open \/ state \in {"connecting", "active"}
                 /\ \A x \in Open : x \in Open' \/ outcome'[x] # "none" \/ cell'[x] # "empty"
      BY <1>3, <2>2 DEF CallReturns, CallStates
    <2>3. ASSUME NEW encodable \in BOOLEAN, CallEntersSend(r, encodable)
          PROVE  /\ Open' \subseteq Open \/ state \in {"connecting", "active"}
                 /\ \A x \in Open : x \in Open' \/ outcome'[x] # "none" \/ cell'[x] # "empty"
      <3>1. CASE call' = [call EXCEPT ![r] = "sending"] /\ pending' = pending
                 /\ ~closing /\ connected
        <4>1. supervisor \notin Shutdown /\ supervisor # "idle"
          BY <3>1 DEF SessionInv, LifeInv, TransportInv
        <4>2. state \in {"connecting", "active"}
          BY <4>1 DEF SessionInv, TypeOK, LifeInv, Shutdown, Failed
        <4> QED BY <1>3, <3>1, <4>2 DEF CallStates
      <3> QED BY <2>2, <2>3, <3>1 DEF CallEntersSend
    <2>4. CASE CallSent(r)
      <3>1. call[r] = "sending" /\ call' = [call EXCEPT ![r] = "waiting"] /\ pending' = pending
        BY <2>4 DEF CallSent
      <3>2. r \in Open' => r \in Open
        BY <3>1 DEF Open
      <3> QED BY <1>3, <3>1, <3>2 DEF CallStates
    <2>5. CASE CallSendFails(r) \/ CallTimesOut(r)
      BY <2>2, <2>5 DEF CallSendFails, CallTimesOut
    <2>6. CASE CallGetsResult(r)
      BY <1>3, <2>6 DEF CallGetsResult, CallStates
    <2> QED BY <1>5, <2>1, <2>3, <2>4, <2>5, <2>6 DEF Caller
  <1>6. CASE Supervise
    <2>1. call' = call /\ pending' \subseteq pending
      BY <1>6 DEF Supervise, Run, TransportAccepted, CreateStopped, FactoryAbandoned,
         BeginSucceeds, BeginFails, StopObserved, CommitStops, SetClosing, FailPending, CancelTasks,
         FactoryJoined, CloseResource, Complete
    <2> QED BY <1>2, <2>1
  <1>7. CASE Peer \/ Responder \/ DispatcherPops \/ DispatcherEnds \/ FactoryGoroutine
             \/ ReaderReceives \/ ReaderEnds
    BY <1>2, <1>7 DEF Peer, PeerOffers, PeerAnswers, LinkEnds, Responder, ResponseClaims,
       ResponseEntersSend, ResponseSent, ResponseSendFails, DispatcherPops, DispatcherEnds,
       FactoryGoroutine, FactoryReturns, LateResultClosed, ReaderReceives, ReaderEnds
  <1>8. CASE Handler
    BY <1>2, <1>4, <1>8 DEF Handler, HandlerDefers, HandlerResponds, HandlerReturns,
       DeferredResponds
  <1>9. CASE CloseCalled \/ MonitorFails \/ ParentCancelled \/ \E ok \in BOOLEAN : OnBeginReturns(ok)
    BY <1>2, <1>9 DEF CloseCalled, MonitorFails, ParentCancelled, OnBeginReturns
  <1>10. CASE UNCHANGED vars
    BY <1>2, <1>10 DEF vars
  <1> QED BY <1>4, <1>5, <1>6, <1>7, <1>8, <1>9, <1>10 DEF Next

\* A response reaches the wire while the transport is open, for a request that
\* had none.
LEMMA AnswerStep ==
    SessionInv /\ [Next]_vars =>
      \A q \in Inbound :
        \/ answered'[q] = answered[q]
        \/ answered[q] = 0 /\ answered'[q] = 1 /\ state \in {"connecting", "active", "closing"}
  <1> SUFFICES ASSUME SessionInv, [Next]_vars, NEW q \in Inbound, answered'[q] # answered[q]
               PROVE  /\ answered[q] = 0 /\ answered'[q] = 1
                      /\ state \in {"connecting", "active", "closing"}
    OBVIOUS
  <1> USE DEF lifeVars, transportVars, linkVars, workerVars, callVars, replyVars
  <1>1. PICK p \in responding : ResponseSent(p)
    <2>1. CASE Supervise
      BY <2>1 DEF Supervise, Run, TransportAccepted, CreateStopped, FactoryAbandoned,
         BeginSucceeds, BeginFails, StopObserved, CommitStops, SetClosing, FailPending, CancelTasks,
         FactoryJoined, CloseResource, Complete
    <2>2. CASE Peer \/ FactoryGoroutine \/ \E r \in Calls : AppCalls(r) \/ Caller(r)
      BY <2>2 DEF Peer, PeerOffers, PeerAnswers, LinkEnds, FactoryGoroutine, FactoryReturns,
         LateResultClosed, AppCalls, CallChecks, Caller, CallRegisters, CallEntersSend, CallSent,
         CallSendFails, CallGetsResult, CallTimesOut
    <2>3. CASE ReaderReceives \/ ReaderEnds \/ DispatcherPops \/ DispatcherEnds
      BY <2>3 DEF ReaderReceives, ReaderEnds, DispatcherPops, DispatcherEnds
    <2>4. CASE Handler
      BY <2>4 DEF Handler, HandlerCalls, CallChecks, HandlerDefers, HandlerResponds,
         HandlerReturns, DeferredResponds, StartResponse
    <2>5. CASE Responder
      BY <2>5 DEF Responder, ResponseClaims, ResponseEntersSend, ResponseSendFails
    <2>6. CASE CloseCalled \/ MonitorFails \/ ParentCancelled \/ \E ok \in BOOLEAN : OnBeginReturns(ok)
      BY <2>6 DEF CloseCalled, MonitorFails, ParentCancelled, OnBeginReturns
    <2> QED BY <2>1, <2>2, <2>3, <2>4, <2>5, <2>6 DEF Next, vars
  <1>2. /\ p.id \in Inbound /\ answered \in [Inbound -> Nat] /\ p.step = "sending"
        /\ answered' = [answered EXCEPT ![p.id] = @ + 1] /\ link = "open"
    BY <1>1, ResponseType DEF SessionInv, TypeOK, ResponseSent
  <1>3. answered[p.id] = 0 /\ reply[p.id] # "none" /\ connected
    BY <1>2 DEF SessionInv, ReplyInv
  <1>4. q = p.id /\ answered'[q] = 1
    BY <1>2, <1>3
  <1>5. supervisor \notin {"idle", "ended"}
    BY <1>2, <1>3 DEF SessionInv, TransportInv, Released
  <1>6. state \in {"connecting", "active", "closing"}
    BY <1>5 DEF SessionInv, TypeOK, LifeInv, Shutdown, Failed
  <1> QED BY <1>3, <1>4, <1>6

LEMMA ContractStep ==
    SessionInv /\ SessionInv' /\ [Next]_vars => [Contract!Next]_(Contract!contractVars)
  <1> SUFFICES ASSUME SessionInv, SessionInv', [Next]_vars
               PROVE  Contract!Next
    OBVIOUS
  <1>1. Contract!PhaseMoves
    BY PhaseStep DEF Contract!PhaseMoves, Contract!Rank
  <1>2. Contract!RepliesMove
    BY AnswerStep DEF Contract!RepliesMove
  <1>3. Contract!RequestsMove
    <2> DEFINE settled == {r \in Calls : outcome[r] # "none" \/ cell[r] # "empty"}
               settledNext == {r \in Calls : outcome'[r] # "none" \/ cell'[r] # "empty"}
    <2>1. Open' \cap settledNext = {}
      BY DEF SessionInv, CallInv, Open
    <2>2. settled \subseteq settledNext
      BY CallStep DEF SessionInv
    <2>3. Open \subseteq Open' \cup settledNext
      BY OpenStep DEF SessionInv, TypeOK, Open
    <2>4. Open' \ Open # {} => state \in {"connecting", "active"}
      BY OpenStep
    <2>5. state' \in {"closed", "failed"} => Open' = {}
      <3>1. state' \in {"closed", "failed"} => supervisor' \in Failed
        BY DEF SessionInv, LifeInv, TypeOK, Shutdown, Failed
      <3> QED BY <3>1 DEF SessionInv, CallInv, Open
    <2> QED BY <2>1, <2>2, <2>3, <2>4, <2>5 DEF Contract!RequestsMove, Contract!Ended, Open
  <1> QED BY <1>1, <1>2, <1>3 DEF Contract!Next

\* The Go session implements what every SDK promises of a session: each of its
\* steps moves the contract one step or leaves it alone.
THEOREM ContractTheorem == Spec => ImplementsContract
  <1>1. Init => Contract!Init
    BY DEF Init, Contract!Init
  <1> QED BY <1>1, ContractStep, SessionInvariant, PTL
          DEF Spec, ImplementsContract, Contract!Spec
=============================================================================
