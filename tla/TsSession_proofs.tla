-------------------------- MODULE TsSession_proofs --------------------------
(***************************************************************************)
(* Proofs about TsSession for every set of calls, every number of inbound   *)
(* frames and every capacity.                                               *)
(***************************************************************************)
EXTENDS TsSession, SequenceTheorems, TLAPS

\* SettlePending moves a call from pending to settled and touches no other.
LEMMA SettleCalls ==
    ASSUME CallInv, NEW S, NEW o \in Outcomes, SettlePending(S, o)
    PROVE  /\ pending' \subseteq Calls
           /\ pending' = pending \ S
           /\ call' \in [Calls -> {"idle", "sending", "waiting", "returned"}]
           /\ result' \in [Calls -> Outcomes \cup {"none"}]
           /\ \A r \in Calls :
                /\ r \in pending' => result'[r] = "none" /\ call'[r] \in {"sending", "waiting"}
                /\ call'[r] = "idle" => result'[r] = "none"
                /\ call'[r] = "sending" => r \in pending' \/ result'[r] # "none"
                /\ call'[r] = "waiting" => r \in pending'
                /\ call'[r] = "returned" => result'[r] # "none"
                /\ result[r] # "none" => result'[r] = result[r]
  <1>1. o # "none"
    BY DEF Outcomes
  <1> QED BY <1>1 DEF CallInv, SettlePending

\* A stop keeps an aborted signal aborted.
LEMMA StopAborts == ASSUME NEW f, RequestStop(f) PROVE aborted'
  BY DEF RequestStop

LEMMA CallStep == CallInv /\ [Next]_vars => CallInv'
  <1> SUFFICES ASSUME CallInv, [Next]_vars
               PROVE  CallInv'
    OBVIOUS
  <1> USE DEF sessionVars, linkVars, workerVars, callVars, replyVars
  <1>1. CASE StopRequested
    BY <1>1, StopAborts DEF StopRequested, CallInv, ShuttingDown
  <1>2. ASSUME NEW f \in BOOLEAN, MonitorEnds(f)
        PROVE  CallInv'
    BY <1>2, StopAborts DEF MonitorEnds, CallInv, ShuttingDown
  <1>3. CASE LateAudioFailure
    BY <1>3, StopAborts DEF LateAudioFailure, CallInv, ShuttingDown
  <1>4. ASSUME NEW r \in Calls, NEW t \in BOOLEAN, NEW e \in BOOLEAN, Request(r, t, e)
        PROVE  CallInv'
    BY <1>4 DEF Request, CallInv, ShuttingDown, Outcomes
  <1>5. ASSUME NEW r \in Calls, SendCompletes(r)
        PROVE  CallInv'
    BY <1>5 DEF SendCompletes, CallInv, ShuttingDown
  <1>6. ASSUME NEW r \in Calls, SendFails(r)
        PROVE  CallInv'
    BY <1>6 DEF SendFails, CallInv, ShuttingDown, Outcomes
  <1>7. ASSUME NEW r \in Calls, NEW o \in Outcomes, CancelPending(r, o)
        PROVE  CallInv'
    BY <1>7, SettleCalls DEF CancelPending, CallInv, ShuttingDown
  <1>8. CASE Peer
    BY <1>8 DEF Peer, PeerOffers, PeerAnswers, PeerSendsGarbage, LinkEnds, CallInv, ShuttingDown
  <1>9. CASE ReaderReceives
    <2>1. CASE UNCHANGED <<call, pending, result>>
      BY <1>9, <2>1, StopAborts DEF ReaderReceives, CallInv, ShuttingDown
    <2>2. CASE SettlePending({Head(inbound).id}, "answered")
      <3>1. "answered" \in Outcomes
        BY DEF Outcomes
      <3> QED BY <1>9, <2>2, <3>1, StopAborts, SettleCalls DEF ReaderReceives, CallInv, ShuttingDown
    <2> QED BY <1>9, <2>1, <2>2 DEF ReaderReceives
  <1>10. CASE ReaderEnds \/ ReaderAborted
    BY <1>10, StopAborts DEF ReaderEnds, ReaderAborted, CallInv, ShuttingDown
  <1>11. CASE Dispatch
    BY <1>11, StopAborts DEF Dispatch, DispatcherShifts, DispatcherAborted, HandlerResponds, HandlerDefers,
       HandlerEnds, DeferredResponds, ReplyCompletes, ReplyFails, CallInv, ShuttingDown
  <1>12. CASE Supervise
    <2>0. "closed" \in Outcomes
      BY DEF Outcomes
    <2>1. ASSUME NEW how \in {"transport", "factory", "cancelled"}, Run(how)
          PROVE  CallInv'
      <3>1. CASE how = "cancelled"
        BY <2>0, <2>1, <3>1, SettleCalls DEF Run, CallInv, ShuttingDown
      <3>2. CASE how # "cancelled"
        BY <2>1, <3>2 DEF Run, StartWorkers, CallInv, ShuttingDown
      <3> QED BY <3>1, <3>2
    <2>2. ASSUME NEW f \in BOOLEAN, CatchAndClose(f)
          PROVE  CallInv'
      BY <2>0, <2>2, SettleCalls, StopAborts DEF CatchAndClose, CallInv, ShuttingDown
    <2>3. CASE FactoryReturns \/ BeginReturns
      BY <2>3 DEF FactoryReturns, BeginReturns, StartWorkers, CallInv, ShuttingDown
    <2>4. CASE FactoryFails \/ BeginFails \/ StoppedWhileStarting
      BY <2>2, <2>4 DEF FactoryFails, BeginFails, StoppedWhileStarting
    <2>5. CASE Stopped
      BY <2>0, <2>5, SettleCalls DEF Stopped, CallInv, ShuttingDown
    <2>6. ASSUME NEW ok \in BOOLEAN, AudioClosed(ok) \/ TransportClosed(ok)
          PROVE  CallInv'
      BY <2>6 DEF AudioClosed, TransportClosed, CallInv, ShuttingDown
    <2>7. CASE WorkersJoined
      BY <2>7 DEF WorkersJoined, CallInv, ShuttingDown
    <2> QED BY <1>12, <2>1, <2>3, <2>4, <2>5, <2>6, <2>7 DEF Supervise
  <1>13. CASE UNCHANGED vars
    BY <1>13 DEF vars, CallInv, ShuttingDown
  <1>14. "timeout" \in Outcomes /\ "aborted" \in Outcomes
    BY DEF Outcomes
  <1> QED BY <1>1, <1>2, <1>3, <1>4, <1>5, <1>6, <1>7, <1>8, <1>9, <1>10, <1>11, <1>12, <1>13, <1>14
          DEF Next, Outgoing, AppRequest, HandlerRequests

\* Every step leaves the outcome of a settled call alone: the actions that
\* write result do so for pending calls, or for a call that had not begun.
LEMMA SettleStep ==
    CallInv /\ [Next]_vars => \A r \in Calls : result[r] # "none" => result'[r] = result[r]
  <1> SUFFICES ASSUME CallInv, [Next]_vars
               PROVE  \A r \in Calls : result[r] # "none" => result'[r] = result[r]
    OBVIOUS
  <1> USE DEF sessionVars, linkVars, workerVars, callVars, replyVars
  <1>0. {"answered", "timeout", "aborted", "closed"} \subseteq Outcomes
    BY DEF Outcomes
  <1>1. ASSUME NEW S, NEW o \in Outcomes, SettlePending(S, o)
        PROVE  \A r \in Calls : result[r] # "none" => result'[r] = result[r]
    BY <1>1, SettleCalls
  <1>2. CASE result' = result
    BY <1>2
  <1>3. ASSUME NEW r \in Calls, NEW t \in BOOLEAN, NEW e \in BOOLEAN, Request(r, t, e)
        PROVE  \A s \in Calls : result[s] # "none" => result'[s] = result[s]
    BY <1>3 DEF Request, CallInv
  <1>4. ASSUME NEW r \in Calls, SendFails(r)
        PROVE  \A s \in Calls : result[s] # "none" => result'[s] = result[s]
    BY <1>4 DEF SendFails, CallInv
  <1>5. ASSUME NEW r \in Calls, SendCompletes(r)
        PROVE  result' = result
    BY <1>5 DEF SendCompletes
  <1>6. ASSUME NEW r \in Calls, NEW o \in {"timeout", "aborted"}, CancelPending(r, o)
        PROVE  \A s \in Calls : result[s] # "none" => result'[s] = result[s]
    BY <1>0, <1>1, <1>6 DEF CancelPending
  <1>7. CASE Outgoing
    BY <1>2, <1>3, <1>4, <1>5, <1>6, <1>7 DEF Outgoing, AppRequest, HandlerRequests
  <1>8. CASE ReaderReceives
    BY <1>0, <1>1, <1>2, <1>8 DEF ReaderReceives
  <1>9. CASE Supervise
    <2>1. result' = result \/ SettlePending(Calls, "closed")
      BY <1>9 DEF Supervise, Run, FactoryReturns, FactoryFails, BeginReturns, BeginFails,
         StoppedWhileStarting, Stopped, AudioClosed, TransportClosed, WorkersJoined, CatchAndClose
    <2> QED BY <1>0, <1>1, <1>2, <2>1
  <1>10. CASE Peer \/ Dispatch \/ ReaderEnds \/ ReaderAborted
    BY <1>2, <1>10 DEF Peer, PeerOffers, PeerAnswers, PeerSendsGarbage, LinkEnds,
       ReaderEnds, ReaderAborted, Dispatch, DispatcherShifts, DispatcherAborted,
       HandlerResponds, HandlerDefers, HandlerEnds, DeferredResponds, ReplyCompletes, ReplyFails
  <1>11. CASE StopRequested \/ LateAudioFailure \/ \E f \in BOOLEAN : MonitorEnds(f)
    BY <1>2, <1>11 DEF StopRequested, LateAudioFailure, MonitorEnds
  <1>12. CASE UNCHANGED vars
    BY <1>2, <1>12 DEF vars
  <1> QED BY <1>7, <1>8, <1>9, <1>10, <1>11, <1>12 DEF Next

LEMMA CallInvariant == Spec => []CallInv
  <1>1. Init => CallInv
    BY DEF Init, CallInv, ShuttingDown, Outcomes
  <1> QED BY <1>1, CallStep, PTL DEF Spec

\* No caller is left waiting for a promise nobody holds, and shutdown leaves
\* no pending request behind.
THEOREM NoOrphanedCallTheorem == Spec => []NoOrphanedCall
  <1>1. CallInv => NoOrphanedCall
    BY DEF CallInv, NoOrphanedCall
  <1> QED BY <1>1, CallInvariant, PTL
-----------------------------------------------------------------------------
(* Lifecycle, workers and replies.                                          *)

\* A failure is recorded exactly when the session is told of it, the lifecycle
\* state follows the supervisor, and a link that is open behind the end of the
\* session is one whose close failed.
LifeInv ==
    /\ stopFailed = fault /\ (fault => aborted)
    /\ supervisor = "idle" <=> state = "inactive"
    /\ supervisor \in {"factory", "begin"} =>
          state = "connecting" \/ (aborted /\ state = "closing")
    /\ supervisor = "run" => state = IF aborted THEN "closing" ELSE "active"
    /\ supervisor \in {"closeAudio", "closeTransport", "joinWorkers"} =>
          aborted /\ state \in {"connecting", "closing"}
    /\ supervisor = "ended" => aborted /\ state = IF fault THEN "failed" ELSE "closed"
    /\ link = "open" => supervisor \notin {"idle", "factory"}
    /\ link = "open" /\ supervisor \in {"joinWorkers", "ended"} => fault

\* The workers start once; a dispatcher that works on a frame has one, and whoever awaits the send of
\* a response inside the dispatcher keeps it there.
WorkerInv ==
    /\ supervisor \in {"idle", "factory"} => reader = "off" /\ dispatcher = "off"
    /\ dispatcher \in {"handling", "sending"} => current \in NumberedFrame
    /\ \A p \in replying :
          p.by # "background" => dispatcher = "sending" /\ p.id = current.id

\* A frame is held by a parked push, or by one that the stop cut off.  Until
\* then the queue is full: whoever takes a frame from it admits the held one.
HoldInv ==
    /\ supervisor \in {"idle", "factory"} => held = NoFrame /\ dispatch = <<>>
    /\ reader = "push" => held # NoFrame
    /\ held # NoFrame => reader = "push" \/ (reader = "done" /\ aborted)
    /\ Len(dispatch) <= DispatchCapacity
    /\ held # NoFrame /\ ~aborted => Len(dispatch) = DispatchCapacity

\* The frames dispatched, queued, held and on the wire continue one another.
FlowInv ==
    LET n == Len(handled) + Len(dispatch) + (IF held # NoFrame THEN 1 ELSE 0) IN
    /\ \A i \in 1 .. Len(handled) : handled[i] = i
    /\ \A i \in 1 .. Len(dispatch) : dispatch[i].id = Len(handled) + i
    /\ held # NoFrame => held.id = n
    /\ n <= peerSent
    /\ \A i \in OnTheWire : inbound[i].id \in n + 1 .. peerSent
    /\ \A q \in n + 1 .. peerSent : \E i \in OnTheWire : inbound[i].id = q
    /\ \A i, j \in OnTheWire : i < j => inbound[i].id < inbound[j].id

\* A reply exists only for a dispatched request, so that dispatching a frame
\* never reopens one; a response is sent or on its way only once claimed.
ReplyInv ==
    /\ \A q \in Inbound : /\ reply[q] # "none" => q <= Len(handled)
                          /\ answered[q] \in {0, 1}
                          /\ answered[q] = 1 => reply[q] = "sent"
    /\ \A p \in replying : reply[p.id] = "sent" /\ answered[p.id] = 0
    /\ \A p1, p2 \in replying : p1.id = p2.id => p1 = p2
    /\ \A q \in closedAfter : answered[q] = 1

SessionInv == TypeOK /\ LifeInv /\ WorkerInv /\ HoldInv /\ FlowInv /\ ReplyInv

\* What a stop does to the session object.
LEMMA StopEffect ==
    ASSUME TypeOK, NEW f \in BOOLEAN, RequestStop(f)
    PROVE  /\ aborted' = TRUE
           /\ state' \in States /\ stopFailed' \in BOOLEAN
  BY DEF RequestStop, TypeOK, States

LEMMA SettleType ==
    ASSUME TypeOK, NEW S, NEW o \in Outcomes, SettlePending(S, o)
    PROVE  /\ pending' \subseteq Calls
           /\ call' \in [Calls -> {"idle", "sending", "waiting", "returned"}]
           /\ result' \in [Calls -> Outcomes \cup {"none"}]
  BY DEF SettlePending, TypeOK

\* Every action keeps the type of every variable.
LEMMA TypeStep == TypeOK /\ WorkerInv /\ [Next]_vars => TypeOK'
  <1> SUFFICES ASSUME TypeOK, WorkerInv, [Next]_vars
               PROVE  TypeOK'
    OBVIOUS
  <1> USE BoundsAssumption, DispatchAssumption
  <1> USE DEF sessionVars, linkVars, workerVars, callVars, replyVars
  <1>0. {"answered", "timeout", "aborted", "closed", "unsent"} \subseteq Outcomes
    BY DEF Outcomes
  <1>1. CASE StopRequested
    <2>1. state' \in States /\ aborted' \in BOOLEAN /\ stopFailed' \in BOOLEAN
      BY <1>1, StopEffect DEF StopRequested
    <2> QED BY <1>1, <2>1 DEF StopRequested, TypeOK
  <1>2. ASSUME NEW f \in BOOLEAN, MonitorEnds(f)
        PROVE  TypeOK'
    <2>1. state' \in States /\ aborted' \in BOOLEAN /\ stopFailed' \in BOOLEAN
      BY <1>2, StopEffect DEF MonitorEnds
    <2>2. fault' \in BOOLEAN
      BY <1>2 DEF MonitorEnds, TypeOK
    <2> QED BY <1>2, <2>1, <2>2 DEF MonitorEnds, TypeOK
  <1>3. CASE LateAudioFailure
    <2>1. state' \in States /\ aborted' \in BOOLEAN /\ stopFailed' \in BOOLEAN
      BY <1>3, StopEffect DEF LateAudioFailure
    <2> QED BY <1>3, <2>1 DEF LateAudioFailure, TypeOK
  <1>4. ASSUME NEW r \in Calls, NEW t \in BOOLEAN, NEW e \in BOOLEAN,
               AppRequest(r, t, e) \/ HandlerRequests(r, t, e)
        PROVE  TypeOK'
    <2>1. Request(r, t, e) /\ nested' \subseteq Calls
      BY <1>4 DEF AppRequest, HandlerRequests, TypeOK
    <2>2. /\ pending' \subseteq Calls /\ terminalCalls' \subseteq Calls
          /\ call' \in [Calls -> {"idle", "sending", "waiting", "returned"}]
          /\ result' \in [Calls -> Outcomes \cup {"none"}]
      BY <1>0, <2>1 DEF Request, TypeOK
    <2>3. UNCHANGED <<sessionVars, linkVars, workerVars, asked, replyVars, fault>>
      BY <2>1 DEF Request
    <2> QED BY <2>1, <2>2, <2>3 DEF TypeOK
  <1>5. ASSUME NEW r \in Calls, SendCompletes(r)
        PROVE  TypeOK'
    BY <1>5 DEF SendCompletes, TypeOK
  <1>6. ASSUME NEW r \in Calls, SendFails(r)
        PROVE  TypeOK'
    BY <1>0, <1>6 DEF SendFails, TypeOK
  <1>7. ASSUME NEW r \in Calls, NEW o \in Outcomes, CancelPending(r, o)
        PROVE  TypeOK'
    BY <1>7, SettleType DEF CancelPending, TypeOK
  <1>8. ASSUME NEW kind \in {"request", "event"}, PeerOffers(kind)
        PROVE  TypeOK'
    <2>1. [kind |-> kind, id |-> peerSent + 1] \in Frame /\ peerSent' \in 0 .. MaxInbound
      BY <1>8 DEF PeerOffers, TypeOK, Frame, NumberedFrame, Inbound
    <2>2. inbound' \in Seq(Frame)
      BY <1>8, <2>1 DEF PeerOffers, PeerSends, TypeOK
    <2> QED BY <1>8, <2>1, <2>2 DEF PeerOffers, TypeOK
  <1>9. ASSUME NEW r \in Calls, PeerAnswers(r)
        PROVE  TypeOK'
    <2>1. [kind |-> "response", id |-> r] \in Frame
      BY DEF Frame
    <2>2. inbound' \in Seq(Frame)
      BY <1>9, <2>1 DEF PeerAnswers, PeerSends, TypeOK
    <2> QED BY <1>9, <2>2 DEF PeerAnswers, TypeOK
  <1>10. CASE PeerSendsGarbage
    <2>1. [kind |-> "garbage", id |-> 0] \in Frame
      BY DEF Frame
    <2>2. inbound' \in Seq(Frame)
      BY <1>10, <2>1 DEF PeerSendsGarbage, PeerSends, TypeOK
    <2> QED BY <1>10, <2>2 DEF PeerSendsGarbage, TypeOK
  <1>11. ASSUME NEW how \in {"eof", "broken"}, LinkEnds(how)
         PROVE  TypeOK'
    BY <1>11 DEF LinkEnds, TypeOK
  <1>12. CASE ReaderReceives
    <2> DEFINE f == Head(inbound)
    <2>1. inbound' \in Seq(Frame) /\ f \in Frame
      BY <1>12 DEF ReaderReceives, TypeOK
    <2>2. f.kind \in {"request", "event"} => f \in NumberedFrame
      BY <2>1 DEF Frame, NumberedFrame
    <2>3. f \in NumberedFrame => Append(dispatch, f) \in Seq(NumberedFrame)
      BY DEF TypeOK
    <2> HIDE DEF f
    <2>4. dispatch' \in Seq(NumberedFrame) /\ held' \in NumberedFrame \cup {NoFrame}
          /\ reader' \in {"off", "receive", "push", "done"}
      BY <1>12, <2>2, <2>3 DEF ReaderReceives, TypeOK, f
    <2>5. /\ pending' \subseteq Calls
          /\ call' \in [Calls -> {"idle", "sending", "waiting", "returned"}]
          /\ result' \in [Calls -> Outcomes \cup {"none"}]
      <3>1. UNCHANGED <<call, pending, result>> \/ SettlePending({f.id}, "answered")
        BY <1>12 DEF ReaderReceives, f
      <3> QED BY <1>0, <3>1, SettleType DEF TypeOK
    <2>6. state' \in States /\ aborted' \in BOOLEAN /\ stopFailed' \in BOOLEAN
      <3>1. UNCHANGED <<state, aborted, stopFailed>> \/ RequestStop(FALSE)
        BY <1>12 DEF ReaderReceives
      <3> QED BY <3>1, StopEffect DEF TypeOK
    <2>7. UNCHANGED <<ready, supervisor, link, peerSent, dispatcher, current, handled,
                   terminalCalls, asked, nested, replyVars, fault>>
      BY <1>12 DEF ReaderReceives
    <2> QED BY <2>1, <2>4, <2>5, <2>6, <2>7 DEF TypeOK
  <1>13. CASE ReaderEnds
    BY <1>13, StopEffect DEF ReaderEnds, TypeOK
  <1>14. CASE ReaderAborted
    BY <1>14 DEF ReaderAborted, TypeOK
  <1>15. CASE DispatcherShifts
    <2> DEFINE f == Head(dispatch)
    <2>1. f \in NumberedFrame /\ Tail(dispatch) \in Seq(NumberedFrame)
      BY <1>15 DEF DispatcherShifts, TypeOK
    <2>2. f.id \in Inbound
      BY <2>1 DEF NumberedFrame
    <2>3. dispatch' \in Seq(NumberedFrame)
      BY <1>15, <2>1 DEF DispatcherShifts, AfterShift, TypeOK
    <2>4. handled' \in Seq(Inbound) /\ current' \in NumberedFrame
      BY <1>15, <2>1, <2>2 DEF DispatcherShifts, TypeOK
    <2>5. reply' \in [Inbound -> ReplyStatus]
      BY <1>15 DEF DispatcherShifts, TypeOK, ReplyStatus
    <2> QED BY <1>15, <2>3, <2>4, <2>5 DEF DispatcherShifts, TypeOK
  <1>16. CASE DispatcherAborted
    BY <1>16 DEF DispatcherAborted, TypeOK
  <1>17. ASSUME NEW q \in Inbound, NEW by \in Senders, NEW close \in BOOLEAN,
                StartResponse(q, by, close)
         PROVE  /\ reply' \in [Inbound -> ReplyStatus] /\ replying' \subseteq Reply
                /\ answered' \in [Inbound -> Nat] /\ closedAfter' \subseteq Inbound
    BY <1>17 DEF StartResponse, TypeOK, ReplyStatus, Reply
  <1>18. dispatcher = "handling" => current.id \in Inbound
    BY DEF WorkerInv, NumberedFrame
  <1>19. ASSUME NEW close \in BOOLEAN, HandlerResponds(close)
         PROVE  TypeOK'
    BY <1>17, <1>18, <1>19 DEF HandlerResponds, HandlerRuns, TypeOK, Senders
  <1>20. CASE HandlerDefers
    <2>1. reply' \in [Inbound -> ReplyStatus]
      BY <1>20 DEF HandlerDefers, TypeOK, ReplyStatus
    <2> QED BY <1>20, <2>1 DEF HandlerDefers, TypeOK
  <1>21. ASSUME NEW how \in {"result", "terminal", "nothing", "throws"}, HandlerEnds(how)
         PROVE  TypeOK'
    <2>1. CASE UNCHANGED replyVars
      BY <1>21, <2>1 DEF HandlerEnds, Resume, TypeOK
    <2>2. CASE \E by \in {"auto", "error"} : StartResponse(current.id, by, how = "terminal")
      <3>1. /\ reply' \in [Inbound -> ReplyStatus] /\ replying' \subseteq Reply
            /\ answered' \in [Inbound -> Nat] /\ closedAfter' \subseteq Inbound
        BY <1>17, <1>18, <1>21, <2>2 DEF HandlerEnds, HandlerRuns, Senders
      <3>2. /\ dispatcher' \in {"off", "shift", "handling", "sending", "done"}
            /\ current' \in NumberedFrame \cup {NoFrame} /\ nested' \subseteq Calls
        BY <1>21 DEF HandlerEnds, Resume, TypeOK
      <3> QED BY <1>21, <3>1, <3>2 DEF HandlerEnds, TypeOK
    <2> QED BY <1>21, <2>1, <2>2 DEF HandlerEnds
  <1>22. ASSUME NEW q \in Inbound, NEW close \in BOOLEAN, DeferredResponds(q, close)
         PROVE  TypeOK'
    BY <1>17, <1>22 DEF DeferredResponds, TypeOK, Senders
  <1>23. ASSUME NEW p \in replying, ReplyCompletes(p) \/ ReplyFails(p)
         PROVE  TypeOK'
    <2>1. p.id \in Inbound
      BY DEF TypeOK, Reply
    <2>2. state' \in States /\ aborted' \in BOOLEAN /\ stopFailed' \in BOOLEAN
      <3>1. UNCHANGED <<state, aborted, stopFailed>> \/ \E f \in BOOLEAN : RequestStop(f)
        BY <1>23 DEF ReplyCompletes, ReplyFails
      <3> QED BY <3>1, StopEffect DEF TypeOK
    <2>3. /\ replying' \subseteq Reply /\ nested' \subseteq Calls
          /\ dispatcher' \in {"off", "shift", "handling", "sending", "done"}
          /\ current' \in NumberedFrame \cup {NoFrame}
      BY <1>23 DEF ReplyCompletes, ReplyFails, AfterReply, TypeOK
    <2>4. answered' \in [Inbound -> Nat] /\ closedAfter' \subseteq Inbound /\ fault' \in BOOLEAN
      <3>1. CASE ReplyCompletes(p)
        <4>1. answered' = [answered EXCEPT ![p.id] = @ + 1] /\ answered \in [Inbound -> Nat]
          BY <3>1 DEF ReplyCompletes, TypeOK
        <4>2. answered' \in [Inbound -> Nat]
          <5>1. answered[p.id] + 1 \in Nat
            BY <2>1, <4>1
          <5> QED BY <4>1, <5>1
        <4> QED BY <2>1, <3>1, <4>2 DEF ReplyCompletes, TypeOK
      <3>2. CASE ReplyFails(p)
        BY <3>2 DEF ReplyFails, TypeOK
      <3> QED BY <1>23, <3>1, <3>2
    <2>5. UNCHANGED <<ready, supervisor, linkVars, reader, held, dispatch, handled, call,
                      pending, terminalCalls, result, asked, reply>>
      BY <1>23 DEF ReplyCompletes, ReplyFails
    <2> QED BY <2>2, <2>3, <2>4, <2>5 DEF TypeOK
  <1>24. CASE Supervise
    <2>1. ASSUME NEW how \in {"transport", "factory", "cancelled"}, Run(how)
          PROVE  TypeOK'
      <3>1. CASE how = "cancelled"
        <4>1. SettlePending(Calls, "closed")
          BY <2>1, <3>1 DEF Run
        <4>2. /\ pending' \subseteq Calls
              /\ call' \in [Calls -> {"idle", "sending", "waiting", "returned"}]
              /\ result' \in [Calls -> Outcomes \cup {"none"}]
          BY <1>0, <4>1, SettleType
        <4>3. /\ state' \in States /\ aborted' \in BOOLEAN /\ stopFailed' \in BOOLEAN
              /\ ready' \in {"pending", "resolved", "rejected"} /\ supervisor' = "closeAudio"
              /\ fault' \in BOOLEAN /\ UNCHANGED <<link, reader, dispatcher>>
          BY <2>1, <3>1 DEF Run, TypeOK, States
        <4> QED BY <2>1, <4>2, <4>3 DEF Run, TypeOK
      <3>2. CASE how # "cancelled"
        <4>1. /\ state' = "connecting" /\ link' \in {link, "open"}
              /\ reader' \in {reader, "done", "receive"} /\ dispatcher' \in {dispatcher, "done", "shift"}
              /\ supervisor' \in {"factory", "begin"}
              /\ UNCHANGED <<aborted, stopFailed, ready, pending, result, call, fault>>
          BY <2>1, <3>2 DEF Run, StartWorkers
        <4> QED BY <2>1, <4>1 DEF Run, TypeOK, States
      <3> QED BY <3>1, <3>2
    <2>2. ASSUME CatchAndClose(TRUE), UNCHANGED <<linkVars, workerVars, terminalCalls, asked, nested, replyVars>>,
                 fault' \in BOOLEAN
          PROVE  TypeOK'
      <3>1. /\ pending' \subseteq Calls
            /\ call' \in [Calls -> {"idle", "sending", "waiting", "returned"}]
            /\ result' \in [Calls -> Outcomes \cup {"none"}]
        BY <1>0, <2>2, SettleType DEF CatchAndClose
      <3>2. state' \in States /\ aborted' \in BOOLEAN /\ stopFailed' \in BOOLEAN
        BY <2>2, StopEffect DEF CatchAndClose, TypeOK
      <3>3. ready' \in {"pending", "resolved", "rejected"} /\ supervisor' = "closeAudio"
        BY <2>2 DEF CatchAndClose, TypeOK
      <3> QED BY <2>2, <3>1, <3>2, <3>3 DEF TypeOK
    <2>3. CASE FactoryReturns \/ BeginReturns
      BY <2>3 DEF FactoryReturns, BeginReturns, StartWorkers, TypeOK, States
    <2>4. CASE FactoryFails \/ BeginFails \/ StoppedWhileStarting
      <3>1. fault' \in BOOLEAN
        BY <2>4 DEF FactoryFails, BeginFails, StoppedWhileStarting, TypeOK
      <3> QED BY <2>2, <2>4, <3>1 DEF FactoryFails, BeginFails, StoppedWhileStarting
    <2>5. CASE Stopped
      BY <1>0, <2>5, SettleType DEF Stopped, TypeOK
    <2>6. ASSUME NEW ok \in BOOLEAN, AudioClosed(ok) \/ TransportClosed(ok)
          PROVE  TypeOK'
      BY <2>6, ZenonT(40) DEF AudioClosed, TransportClosed, TypeOK
    <2>7. CASE WorkersJoined
      BY <2>7 DEF WorkersJoined, TypeOK, States
    <2> QED BY <1>24, <2>1, <2>3, <2>4, <2>5, <2>6, <2>7 DEF Supervise
  <1>25. CASE UNCHANGED vars
    BY <1>25 DEF vars, TypeOK
  <1>26. CASE Outgoing
    BY <1>0, <1>4, <1>5, <1>6, <1>7, <1>26 DEF Outgoing
  <1>27. CASE Peer
    BY <1>8, <1>9, <1>10, <1>11, <1>27 DEF Peer
  <1>28. CASE Dispatch
    BY <1>15, <1>16, <1>19, <1>20, <1>21, <1>22, <1>23, <1>28 DEF Dispatch
  <1> QED BY <1>1, <1>2, <1>3, <1>12, <1>13, <1>14, <1>24, <1>25, <1>26, <1>27, <1>28 DEF Next

LEMMA LifeStep == TypeOK /\ LifeInv /\ [Next]_vars => LifeInv'
  <1> SUFFICES ASSUME TypeOK, LifeInv, [Next]_vars
               PROVE  LifeInv'
    OBVIOUS
  <1> USE DEF sessionVars, linkVars, workerVars, callVars, replyVars
  <1>1. CASE UNCHANGED <<sessionVars, link, fault>>
    BY <1>1 DEF LifeInv
  <1>2. ASSUME NEW f \in BOOLEAN, RequestStop(f), fault' = (fault \/ f), ~aborted \/ f,
               UNCHANGED <<supervisor, link>>, supervisor # "ended"
        PROVE  LifeInv'
    BY <1>2 DEF RequestStop, LifeInv, TypeOK
  <1>3. ASSUME NEW f \in BOOLEAN, MonitorEnds(f)
        PROVE  LifeInv'
    BY <1>2, <1>3 DEF MonitorEnds
  <1>4. CASE StopRequested \/ LateAudioFailure
    <2>1. CASE StopRequested
      BY <1>2, <2>1 DEF StopRequested, LifeInv, TypeOK
    <2>2. CASE LateAudioFailure
      BY <1>2, <2>2 DEF LateAudioFailure, TypeOK
    <2> QED BY <1>4, <2>1, <2>2
  <1>5. CASE Outgoing
    BY <1>1, <1>5 DEF Outgoing, AppRequest, HandlerRequests, Request, SendCompletes, SendFails,
       CancelPending
  <1>6. CASE Peer
    <2>1. UNCHANGED <<sessionVars, fault>> /\ (link' = "open" => link = "open")
      BY <1>6 DEF Peer, PeerOffers, PeerAnswers, PeerSendsGarbage, LinkEnds
    <2> QED BY <2>1 DEF LifeInv
  <1>7. CASE ReaderReceives
    <2>1. CASE UNCHANGED <<state, aborted, stopFailed>>
      BY <1>1, <1>7, <2>1 DEF ReaderReceives
    <2>2. CASE RequestStop(FALSE)
      BY <1>2, <1>7, <2>2 DEF ReaderReceives, LifeInv, TypeOK
    <2> QED BY <1>7, <2>1, <2>2 DEF ReaderReceives
  <1>8. CASE ReaderEnds
    BY <1>2, <1>8 DEF ReaderEnds, LifeInv, TypeOK
  <1>9. CASE ReaderAborted
    BY <1>1, <1>9 DEF ReaderAborted
  <1>10. CASE Dispatch
    <2>1. ASSUME NEW p \in replying, ReplyCompletes(p)
          PROVE  LifeInv'
      <3>1. CASE UNCHANGED <<state, aborted, stopFailed>>
        BY <1>1, <2>1, <3>1 DEF ReplyCompletes
      <3>2. CASE RequestStop(FALSE)
        <4>1. CASE aborted
          BY <3>1, <3>2, <4>1 DEF RequestStop, TypeOK
        <4>2. CASE ~aborted
          BY <1>2, <2>1, <3>2, <4>2 DEF ReplyCompletes, LifeInv, TypeOK
        <4> QED BY <4>1, <4>2
      <3> QED BY <2>1, <3>1, <3>2 DEF ReplyCompletes
    <2>2. ASSUME NEW p \in replying, ReplyFails(p)
          PROVE  LifeInv'
      <3>1. CASE UNCHANGED <<state, aborted, stopFailed, fault>>
        BY <1>1, <2>2, <3>1 DEF ReplyFails
      <3>2. CASE ~aborted /\ RequestStop(TRUE) /\ fault' = TRUE
        BY <1>2, <2>2, <3>2 DEF ReplyFails, LifeInv, TypeOK
      <3> QED BY <2>2, <3>1, <3>2 DEF ReplyFails
    <2> QED BY <1>1, <1>10, <2>1, <2>2 DEF Dispatch, DispatcherShifts, DispatcherAborted,
            HandlerResponds, HandlerDefers, HandlerEnds, DeferredResponds
  <1>11. CASE Supervise
    <2>1. ASSUME NEW how \in {"transport", "factory", "cancelled"}, Run(how)
          PROVE  LifeInv'
      BY <2>1 DEF Run, StartWorkers, LifeInv, TypeOK
    <2>2. CASE FactoryReturns \/ BeginReturns
      BY <2>2 DEF FactoryReturns, BeginReturns, StartWorkers, LifeInv, TypeOK
    <2>3. CASE FactoryFails \/ BeginFails \/ StoppedWhileStarting
      BY <2>3 DEF FactoryFails, BeginFails, StoppedWhileStarting, CatchAndClose, RequestStop,
         LifeInv, TypeOK
    <2>4. CASE Stopped
      BY <2>4 DEF Stopped, LifeInv, TypeOK
    <2>5. ASSUME NEW ok \in BOOLEAN, AudioClosed(ok) \/ TransportClosed(ok)
          PROVE  LifeInv'
      BY <2>5 DEF AudioClosed, TransportClosed, LifeInv, TypeOK
    <2>6. CASE WorkersJoined
      BY <2>6 DEF WorkersJoined, LifeInv, TypeOK
    <2> QED BY <1>11, <2>1, <2>2, <2>3, <2>4, <2>5, <2>6 DEF Supervise
  <1>12. CASE UNCHANGED vars
    BY <1>1, <1>12 DEF vars
  <1> QED BY <1>3, <1>4, <1>5, <1>6, <1>7, <1>8, <1>9, <1>10, <1>11, <1>12 DEF Next

LEMMA WorkerStep == TypeOK /\ WorkerInv /\ ReplyInv /\ LifeInv /\ [Next]_vars => WorkerInv'
  <1> SUFFICES ASSUME TypeOK, WorkerInv, ReplyInv, LifeInv, [Next]_vars
               PROVE  WorkerInv'
    OBVIOUS
  <1> USE DEF sessionVars, linkVars, workerVars, callVars, replyVars
  <1>1. CASE UNCHANGED <<supervisor, reader, dispatcher, current, replying>>
    BY <1>1 DEF WorkerInv
  <1>2. CASE StopRequested \/ LateAudioFailure \/ \E f \in BOOLEAN : MonitorEnds(f)
    BY <1>1, <1>2 DEF StopRequested, LateAudioFailure, MonitorEnds
  <1>3. CASE Outgoing
    BY <1>1, <1>3 DEF Outgoing, AppRequest, HandlerRequests, Request, SendCompletes, SendFails,
       CancelPending
  <1>4. CASE Peer
    BY <1>1, <1>4 DEF Peer, PeerOffers, PeerAnswers, PeerSendsGarbage, LinkEnds
  <1>5. CASE ReaderReceives
    BY <1>5 DEF ReaderReceives, WorkerInv
  <1>6. CASE ReaderEnds \/ ReaderAborted
    BY <1>6 DEF ReaderEnds, ReaderAborted, WorkerInv
  <1>7. CASE DispatcherShifts
    <2>1. Head(dispatch) \in NumberedFrame
      BY <1>7 DEF DispatcherShifts, TypeOK
    <2> QED BY <1>7, <2>1 DEF DispatcherShifts, WorkerInv
  <1>8. CASE DispatcherAborted
    BY <1>8 DEF DispatcherAborted, WorkerInv
  <1>9. ASSUME NEW close \in BOOLEAN, HandlerResponds(close)
        PROVE  WorkerInv'
    BY <1>9 DEF HandlerResponds, HandlerRuns, StartResponse, WorkerInv
  <1>10. CASE HandlerDefers
    BY <1>1, <1>10 DEF HandlerDefers
  <1>11. ASSUME NEW how \in {"result", "terminal", "nothing", "throws"}, HandlerEnds(how)
         PROVE  WorkerInv'
    BY <1>11 DEF HandlerEnds, HandlerRuns, StartResponse, Resume, WorkerInv
  <1>12. ASSUME NEW q \in Inbound, NEW close \in BOOLEAN, DeferredResponds(q, close)
         PROVE  WorkerInv'
    BY <1>12 DEF DeferredResponds, StartResponse, WorkerInv
  <1>13. ASSUME NEW p \in replying, ReplyCompletes(p) \/ ReplyFails(p)
         PROVE  WorkerInv'
    <2>1. AfterReply(p) /\ UNCHANGED <<supervisor, reader, held>>
      BY <1>13 DEF ReplyCompletes, ReplyFails
    <2>2. \A p2 \in replying' : p2 \in replying /\ p2 # p
      BY <2>1 DEF AfterReply
    <2>3. CASE p.by = "background"
      BY <2>1, <2>2, <2>3 DEF AfterReply, WorkerInv
    <2>4. CASE p.by # "background"
      <3>1. dispatcher = "sending" /\ current \in NumberedFrame
        BY <2>4 DEF WorkerInv
      <3>2. \A p2 \in replying' : p2.by = "background"
        BY <2>2, <2>4 DEF WorkerInv, ReplyInv
      <3>3. dispatcher' \in {"handling", "sending"} => current' \in NumberedFrame
        BY <2>1, <2>4, <3>1 DEF AfterReply
      <3> QED BY <2>1, <3>1, <3>2, <3>3 DEF WorkerInv
    <2> QED BY <2>3, <2>4
  <1>14. CASE Dispatch
    BY <1>7, <1>8, <1>9, <1>10, <1>11, <1>12, <1>13, <1>14 DEF Dispatch
  <1>15. CASE Supervise
    BY <1>15 DEF Supervise, Run, StartWorkers, FactoryReturns, FactoryFails, BeginReturns,
       BeginFails, StoppedWhileStarting, Stopped, AudioClosed, TransportClosed, WorkersJoined,
       CatchAndClose, WorkerInv
  <1>16. CASE UNCHANGED vars
    BY <1>1, <1>16 DEF vars
  <1> QED BY <1>2, <1>3, <1>4, <1>5, <1>6, <1>14, <1>15, <1>16 DEF Next

\* The requests and events on the wire after the peer sent a frame, and after
\* the reader took one.
LEMMA WireAppend ==
    ASSUME inbound \in Seq(Frame), NEW f \in Frame, inbound' = Append(inbound, f)
    PROVE  /\ \A i \in OnTheWire : i \in 1 .. Len(inbound) /\ inbound'[i] = inbound[i]
           /\ inbound'[Len(inbound) + 1] = f
           /\ OnTheWire' = IF f \in NumberedFrame THEN OnTheWire \cup {Len(inbound) + 1}
                                                  ELSE OnTheWire
  <1>1. /\ Len(inbound') = Len(inbound) + 1 /\ Len(inbound) \in Nat
        /\ \A i \in 1 .. Len(inbound) : inbound'[i] = inbound[i]
        /\ inbound'[Len(inbound) + 1] = f
    BY AppendProperties
  <1> QED BY <1>1 DEF OnTheWire

LEMMA WireTail ==
    ASSUME inbound \in Seq(Frame), inbound # <<>>, inbound' = Tail(inbound)
    PROVE  /\ \A i \in OnTheWire' : /\ i \in Nat \ {0} /\ i + 1 \in OnTheWire
                                    /\ inbound'[i] = inbound[i + 1]
           /\ \A i \in OnTheWire : i = 1 \/ (i - 1 \in OnTheWire' /\ inbound'[i - 1] = inbound[i])
           /\ Head(inbound) = inbound[1]
           /\ Head(inbound) \in NumberedFrame => 1 \in OnTheWire
           /\ Head(inbound) \notin NumberedFrame => 1 \notin OnTheWire
  <1>1. /\ Len(inbound') = Len(inbound) - 1 /\ Len(inbound) \in Nat \ {0}
        /\ \A i \in 1 .. Len(inbound) - 1 : inbound'[i] = inbound[i + 1]
        /\ Head(inbound) = inbound[1]
    BY HeadTailProperties, EmptySeq
  <1> QED BY <1>1 DEF OnTheWire

LEMMA HoldStep == TypeOK /\ LifeInv /\ WorkerInv /\ HoldInv /\ [Next]_vars => HoldInv'
  <1> SUFFICES ASSUME TypeOK, LifeInv, WorkerInv, HoldInv, [Next]_vars
               PROVE  HoldInv'
    OBVIOUS
  <1> USE DispatchAssumption
  <1> USE DEF sessionVars, linkVars, workerVars, callVars, replyVars
  <1>0. Len(dispatch) \in Nat /\ dispatch \in Seq(NumberedFrame) /\ DispatchCapacity \in Nat \ {0}
    BY DEF TypeOK
  <1>1. ASSUME UNCHANGED <<held, dispatch, reader>>, aborted => aborted',
               supervisor' \in {"idle", "factory"} => supervisor \in {"idle", "factory"}
        PROVE  HoldInv'
    BY <1>1 DEF HoldInv
  <1>2. CASE StopRequested \/ LateAudioFailure \/ \E f \in BOOLEAN : MonitorEnds(f)
    BY <1>1, <1>2, StopAborts DEF StopRequested, LateAudioFailure, MonitorEnds
  <1>3. CASE Outgoing
    BY <1>1, <1>3 DEF Outgoing, AppRequest, HandlerRequests, Request, SendCompletes, SendFails,
       CancelPending
  <1>4. CASE Peer
    BY <1>1, <1>4 DEF Peer, PeerOffers, PeerAnswers, PeerSendsGarbage, LinkEnds
  <1>5. CASE ReaderReceives
    <2>0. held = NoFrame /\ supervisor \notin {"idle", "factory"} /\ supervisor' = supervisor
          /\ reader = "receive"
      BY <1>5 DEF ReaderReceives, HoldInv, WorkerInv
    <2>1. CASE UNCHANGED <<held, dispatch, reader>>
      BY <1>1, <1>5, <2>0, <2>1, StopAborts DEF ReaderReceives
    <2>2. CASE /\ Head(inbound).kind \in {"request", "event"}
               /\ Len(dispatch) < DispatchCapacity
               /\ dispatch' = Append(dispatch, Head(inbound)) /\ UNCHANGED <<reader, held>>
      <3>1. Len(dispatch') = Len(dispatch) + 1
        BY <1>0, <2>2
      <3>2. Len(dispatch') <= DispatchCapacity
        BY <1>0, <2>2, <3>1
      <3> QED BY <2>0, <2>2, <3>2 DEF HoldInv
    <2>3. CASE /\ Head(inbound).kind \in {"request", "event"}
               /\ ~(Len(dispatch) < DispatchCapacity)
               /\ reader' = "push" /\ held' = Head(inbound) /\ UNCHANGED dispatch
      <3>1. held' # NoFrame
        BY <2>3 DEF NoFrame
      <3>2. Len(dispatch) = DispatchCapacity
        BY <1>0, <2>3 DEF HoldInv
      <3> QED BY <1>0, <2>0, <2>3, <3>1, <3>2 DEF HoldInv
    <2> QED BY <1>5, <2>1, <2>2, <2>3 DEF ReaderReceives
  <1>6. CASE ReaderEnds \/ ReaderAborted
    BY <1>6, StopAborts DEF ReaderEnds, ReaderAborted, HoldInv
  <1>7. CASE DispatcherShifts
    <2>1. dispatch # <<>> /\ held' = NoFrame /\ UNCHANGED <<supervisor, aborted>>
          /\ reader' # "push" /\ supervisor \notin {"idle", "factory"}
      BY <1>7 DEF DispatcherShifts, WorkerInv
    <2>2. Len(Tail(dispatch)) = Len(dispatch) - 1 /\ Tail(dispatch) \in Seq(NumberedFrame)
      BY <1>0, <2>1, HeadTailProperties, EmptySeq
    <2>3. Len(dispatch') <= Len(dispatch)
      <3>1. CASE held = NoFrame
        BY <1>0, <1>7, <2>2, <3>1 DEF DispatcherShifts, AfterShift
      <3>2. CASE held # NoFrame
        <4>1. dispatch' = Append(Tail(dispatch), held) /\ held \in NumberedFrame
          BY <1>7, <3>2 DEF DispatcherShifts, AfterShift, TypeOK
        <4>2. Len(dispatch') = Len(Tail(dispatch)) + 1
          BY <2>2, <4>1, AppendProperties
        <4> QED BY <1>0, <2>2, <4>2
      <3> QED BY <3>1, <3>2
    <2>4. dispatch' \in Seq(NumberedFrame) /\ Len(dispatch') \in Nat
      <3>1. dispatch' \in Seq(NumberedFrame)
        BY <1>7, <2>2 DEF DispatcherShifts, AfterShift, TypeOK
      <3> QED BY <3>1
    <2>5. Len(dispatch') <= DispatchCapacity
      BY <1>0, <2>3, <2>4 DEF HoldInv
    <2> QED BY <2>1, <2>5 DEF HoldInv
  <1>8. CASE Dispatch
    BY <1>1, <1>7, <1>8, StopAborts DEF Dispatch, DispatcherAborted, HandlerResponds, HandlerDefers,
       HandlerEnds, DeferredResponds, ReplyCompletes, ReplyFails
  <1>9. CASE Supervise
    <2>1. UNCHANGED <<held, dispatch>> /\ (aborted => aborted')
      <3>1. UNCHANGED <<held, dispatch>>
        BY <1>9 DEF Supervise, Run, FactoryReturns, FactoryFails, BeginReturns, BeginFails,
           StoppedWhileStarting, Stopped, AudioClosed, TransportClosed, WorkersJoined
      <3>2. ASSUME NEW f, CatchAndClose(f) PROVE aborted => aborted'
        BY <3>2 DEF CatchAndClose
      <3>3. aborted => aborted'
        BY <1>9, <3>2 DEF Supervise, Run, FactoryReturns, FactoryFails, BeginReturns, BeginFails,
           StoppedWhileStarting, Stopped, AudioClosed, TransportClosed, WorkersJoined
      <3> QED BY <3>1, <3>3
    <2>2. supervisor' \in {"idle", "factory"} => supervisor \in {"idle", "factory"}
      BY <1>9 DEF Supervise, Run, StartWorkers, FactoryReturns, FactoryFails, BeginReturns, BeginFails,
         StoppedWhileStarting, Stopped, AudioClosed, TransportClosed, WorkersJoined, CatchAndClose
    <2>3. UNCHANGED reader \/ (supervisor \in {"idle", "factory"} /\ reader' \in {"receive", "done"})
      BY <1>9 DEF Supervise, Run, StartWorkers, FactoryReturns, FactoryFails, BeginReturns, BeginFails,
         StoppedWhileStarting, Stopped, AudioClosed, TransportClosed, WorkersJoined, CatchAndClose
    <2>4. CASE supervisor \in {"idle", "factory"} /\ reader' \in {"receive", "done"}
      BY <2>1, <2>2, <2>4 DEF HoldInv
    <2> QED BY <1>1, <2>1, <2>2, <2>3, <2>4
  <1>10. CASE UNCHANGED vars
    BY <1>1, <1>10 DEF vars
  <1> QED BY <1>2, <1>3, <1>4, <1>5, <1>6, <1>8, <1>9, <1>10 DEF Next

LEMMA FlowStep == TypeOK /\ HoldInv /\ FlowInv /\ [Next]_vars => FlowInv'
  <1> SUFFICES ASSUME TypeOK, HoldInv, FlowInv, [Next]_vars
               PROVE  FlowInv'
    OBVIOUS
  <1> USE BoundsAssumption, DispatchAssumption
  <1> USE DEF sessionVars, linkVars, workerVars, callVars, replyVars
  <1> DEFINE held1 == IF held # NoFrame THEN 1 ELSE 0
             n == Len(handled) + Len(dispatch) + held1
  <1>1. /\ Len(handled) \in Nat /\ Len(dispatch) \in Nat /\ Len(inbound) \in Nat
        /\ held1 \in {0, 1} /\ n \in Nat /\ peerSent \in Nat
    BY DEF TypeOK
  <1>2. /\ \A i \in 1 .. Len(handled) : handled[i] = i
        /\ \A i \in 1 .. Len(dispatch) : dispatch[i].id = Len(handled) + i
        /\ held # NoFrame => held.id = n
        /\ n <= peerSent
        /\ \A i \in OnTheWire : inbound[i].id \in n + 1 .. peerSent
        /\ \A q \in n + 1 .. peerSent : \E i \in OnTheWire : inbound[i].id = q
        /\ \A i, j \in OnTheWire : i < j => inbound[i].id < inbound[j].id
    BY DEF FlowInv
  <1>3. CASE UNCHANGED <<handled, dispatch, held, inbound, peerSent>>
    BY <1>3 DEF FlowInv, OnTheWire
  <1>4. CASE StopRequested \/ LateAudioFailure \/ \E f \in BOOLEAN : MonitorEnds(f)
    BY <1>3, <1>4 DEF StopRequested, LateAudioFailure, MonitorEnds
  <1>5. CASE Outgoing
    BY <1>3, <1>5 DEF Outgoing, AppRequest, HandlerRequests, Request, SendCompletes, SendFails,
       CancelPending
  <1>6. CASE ReaderEnds \/ ReaderAborted
    BY <1>3, <1>6 DEF ReaderEnds, ReaderAborted
  <1>7. CASE Supervise
    BY <1>3, <1>7 DEF Supervise, Run, FactoryReturns, FactoryFails, BeginReturns, BeginFails,
       StoppedWhileStarting, Stopped, AudioClosed, TransportClosed, WorkersJoined
  <1>8. CASE Peer
    <2> HIDE DEF n
    <2>1. CASE \E how \in {"eof", "broken"} : LinkEnds(how)
      BY <1>3, <2>1 DEF LinkEnds
    <2>2. ASSUME NEW f \in Frame \ NumberedFrame, PeerSends(f),
                 UNCHANGED <<handled, dispatch, held, peerSent>>
          PROVE  FlowInv'
      <3>1. OnTheWire' = OnTheWire /\ \A i \in OnTheWire : inbound'[i] = inbound[i]
        BY <2>2, WireAppend DEF PeerSends, TypeOK
      <3> QED BY <1>2, <2>2, <3>1 DEF FlowInv, n
    <2>3. ASSUME NEW kind \in {"request", "event"}, PeerOffers(kind)
          PROVE  FlowInv'
      <3> DEFINE f == [kind |-> kind, id |-> peerSent + 1]
                 last == Len(inbound) + 1
      <3>1. f \in NumberedFrame /\ f.id = peerSent + 1 /\ f \in Frame
        BY <2>3 DEF PeerOffers, TypeOK, NumberedFrame, Inbound, Frame
      <3>2. /\ UNCHANGED <<handled, dispatch, held>> /\ peerSent' = peerSent + 1
            /\ inbound' = Append(inbound, f)
        BY <2>3 DEF PeerOffers, PeerSends
      <3> HIDE DEF f
      <3>3. /\ OnTheWire' = OnTheWire \cup {last}
            /\ \A i \in OnTheWire : i \in 1 .. Len(inbound) /\ inbound'[i] = inbound[i]
            /\ inbound'[last] = f
        BY <3>1, <3>2, WireAppend DEF TypeOK
      <3>4. n' = n
        BY <3>2 DEF n
      <3> HIDE DEF last
      <3>5. \A i \in OnTheWire' : inbound'[i].id \in n + 1 .. peerSent + 1
        <4> TAKE i \in OnTheWire'
        <4>1. CASE i = last
          BY <1>1, <1>2, <3>1, <3>3, <4>1
        <4>2. CASE i \in OnTheWire
          <5>1. inbound'[i].id \in n + 1 .. peerSent
            BY <1>2, <3>3, <4>2
          <5> QED BY <1>1, <5>1
        <4> QED BY <3>3, <4>1, <4>2
      <3>6. \A q \in n + 1 .. peerSent + 1 : \E i \in OnTheWire' : inbound'[i].id = q
        <4> TAKE q \in n + 1 .. peerSent + 1
        <4>1. CASE q = peerSent + 1
          BY <3>1, <3>3, <4>1
        <4>2. CASE q # peerSent + 1
          <5>1. q \in n + 1 .. peerSent
            BY <1>1, <4>2
          <5>2. PICK i \in OnTheWire : inbound[i].id = q
            BY <1>2, <5>1
          <5> QED BY <3>3, <5>2
        <4> QED BY <4>1, <4>2
      <3>7. \A i, j \in OnTheWire' : i < j => inbound'[i].id < inbound'[j].id
        <4> SUFFICES ASSUME NEW i \in OnTheWire', NEW j \in OnTheWire', i < j
                     PROVE  inbound'[i].id < inbound'[j].id
          OBVIOUS
        <4>1. CASE j = last
          <5>1. i \in OnTheWire
            BY <1>1, <3>3, <4>1 DEF last
          <5> QED BY <1>1, <1>2, <3>1, <3>3, <4>1, <5>1
        <4>2. CASE j # last
          <5>1. i \in OnTheWire /\ j \in OnTheWire
            BY <1>1, <3>3, <4>2 DEF last
          <5> QED BY <1>2, <3>3, <5>1
        <4> QED BY <4>1, <4>2
      <3>8. n <= peerSent + 1
        BY <1>1, <1>2
      <3> QED BY <1>2, <3>2, <3>5, <3>6, <3>7, <3>8 DEF FlowInv, n
    <2>4. ASSUME NEW r \in Calls, PeerAnswers(r)
          PROVE  FlowInv'
      <3>1. [kind |-> "response", id |-> r] \in Frame \ NumberedFrame
        BY DEF Frame, NumberedFrame
      <3> QED BY <2>2, <2>4, <3>1 DEF PeerAnswers
    <2>5. CASE PeerSendsGarbage
      <3>1. [kind |-> "garbage", id |-> 0] \in Frame \ NumberedFrame
        BY DEF Frame, NumberedFrame
      <3> QED BY <2>2, <2>5, <3>1 DEF PeerSendsGarbage
    <2> QED BY <1>8, <2>1, <2>3, <2>4, <2>5 DEF Peer
  <1>9. CASE ReaderReceives
    <2> DEFINE f == Head(inbound)
    <2>1. inbound \in Seq(Frame) /\ inbound # <<>> /\ inbound' = Tail(inbound) /\ held = NoFrame
          /\ UNCHANGED <<handled, peerSent>>
      BY <1>9 DEF ReaderReceives, TypeOK, HoldInv
    <2>2. /\ \A i \in OnTheWire' : /\ i \in Nat \ {0} /\ i + 1 \in OnTheWire
                                    /\ inbound'[i] = inbound[i + 1]
          /\ \A i \in OnTheWire : i = 1 \/ (i - 1 \in OnTheWire' /\ inbound'[i - 1] = inbound[i])
          /\ f = inbound[1]
          /\ f \in NumberedFrame => 1 \in OnTheWire
          /\ f \notin NumberedFrame => 1 \notin OnTheWire
      BY <2>1, WireTail
    <2>3. f \in Frame /\ (f.kind \in {"request", "event"} <=> f \in NumberedFrame)
      <3>1. f \in Frame
        BY <2>1
      <3> QED BY <3>1 DEF Frame, NumberedFrame
    <2>4. \A i, j \in OnTheWire' : i < j => inbound'[i].id < inbound'[j].id
      BY <1>2, <2>2
    <2> HIDE DEF f
    <2>5. CASE f.kind \in {"garbage", "response"}
      <3>1. UNCHANGED <<dispatch, held>>
        BY <1>9, <2>5 DEF ReaderReceives, f
      <3>2. 1 \notin OnTheWire
        BY <2>2, <2>3, <2>5
      <3>3. \A i \in OnTheWire' : inbound'[i].id \in n + 1 .. peerSent
        BY <1>2, <2>2
      <3>4. \A q \in n + 1 .. peerSent : \E i \in OnTheWire' : inbound'[i].id = q
        BY <1>2, <2>2, <3>2
      <3> QED BY <1>2, <2>1, <2>4, <3>1, <3>3, <3>4 DEF FlowInv
    <2>6. CASE f.kind \in {"request", "event"}
      <3> HIDE DEF n
      <3>1. 1 \in OnTheWire /\ f.id \in n + 1 .. peerSent
        BY <1>2, <2>2, <2>3, <2>6
      <3>2. \A i \in OnTheWire : i \in Nat \ {0}
        BY DEF OnTheWire
      <3>3. \A i \in OnTheWire : i # 1 => f.id < inbound[i].id
        BY <1>2, <2>2, <3>1, <3>2
      <3>4. f.id = n + 1
        <4>1. n + 1 \in n + 1 .. peerSent
          BY <1>1, <3>1
        <4>2. PICK i \in OnTheWire : inbound[i].id = n + 1
          BY <1>2, <4>1
        <4>3. ~(f.id < n + 1)
          BY <1>1, <3>1
        <4> QED BY <2>2, <3>3, <4>2, <4>3
      <3>5. \A i \in OnTheWire' : inbound'[i].id \in n + 2 .. peerSent
        <4> TAKE i \in OnTheWire'
        <4>1. i + 1 \in OnTheWire /\ i + 1 # 1 /\ inbound'[i] = inbound[i + 1]
          BY <2>2
        <4>2. n + 1 < inbound'[i].id /\ inbound'[i].id \in n + 1 .. peerSent
          BY <1>2, <3>3, <3>4, <4>1
        <4> QED BY <1>1, <4>2
      <3>6. \A q \in n + 2 .. peerSent : \E i \in OnTheWire' : inbound'[i].id = q
        <4> TAKE q \in n + 2 .. peerSent
        <4>1. PICK i \in OnTheWire : inbound[i].id = q
          BY <1>1, <1>2
        <4>2. i # 1
          BY <1>1, <2>2, <3>4, <4>1
        <4> QED BY <2>2, <4>1, <4>2
      <3>7. n + 1 <= peerSent /\ held1 = 0
        BY <1>1, <2>1, <3>1
      <3>8. CASE Len(dispatch) < DispatchCapacity
        <4>1. dispatch' = Append(dispatch, f) /\ UNCHANGED held
          BY <1>9, <2>6, <3>8 DEF ReaderReceives, f
        <4>2. f \in NumberedFrame /\ dispatch \in Seq(NumberedFrame)
          BY <2>3, <2>6 DEF TypeOK
        <4>3. /\ Len(dispatch') = Len(dispatch) + 1
              /\ \A i \in 1 .. Len(dispatch) : dispatch'[i] = dispatch[i]
              /\ dispatch'[Len(dispatch) + 1] = f
          BY <4>1, <4>2, AppendProperties
        <4>4. n = Len(handled) + Len(dispatch)
          BY <1>1, <3>7 DEF n
        <4>5. \A i \in 1 .. Len(dispatch') : dispatch'[i].id = Len(handled) + i
          <5> TAKE i \in 1 .. Len(dispatch')
          <5>1. CASE i = Len(dispatch) + 1
            BY <1>1, <3>4, <4>3, <4>4, <5>1
          <5>2. CASE i # Len(dispatch) + 1
            <6>1. i \in 1 .. Len(dispatch)
              BY <1>1, <4>3, <5>2
            <6> QED BY <1>2, <4>3, <6>1
          <5> QED BY <5>1, <5>2
        <4>6. n' = n + 1 /\ n + 1 + 1 = n + 2
          BY <1>1, <2>1, <4>1, <4>3, <4>4 DEF n
        <4>7. /\ n' <= peerSent'
              /\ \A i \in OnTheWire' : inbound'[i].id \in n' + 1 .. peerSent'
              /\ \A q \in n' + 1 .. peerSent' : \E i \in OnTheWire' : inbound'[i].id = q
          BY <2>1, <3>5, <3>6, <3>7, <4>6
        <4> QED BY <1>2, <2>1, <2>4, <4>1, <4>5, <4>7 DEF FlowInv, n
      <3>9. CASE ~(Len(dispatch) < DispatchCapacity)
        <4>1. held' = f /\ held' # NoFrame /\ dispatch' = dispatch
          <5>1. held' = f /\ dispatch' = dispatch
            BY <1>9, <2>6, <3>9 DEF ReaderReceives, f
          <5> QED BY <2>6, <5>1 DEF NoFrame
        <4>2. n' = n + 1 /\ n + 1 + 1 = n + 2
          BY <1>1, <2>1, <3>7, <4>1 DEF n
        <4>3. /\ n' <= peerSent' /\ held'.id = n'
              /\ \A i \in OnTheWire' : inbound'[i].id \in n' + 1 .. peerSent'
              /\ \A q \in n' + 1 .. peerSent' : \E i \in OnTheWire' : inbound'[i].id = q
          BY <2>1, <3>4, <3>5, <3>6, <3>7, <4>1, <4>2
        <4> QED BY <1>2, <2>1, <2>4, <4>1, <4>3 DEF FlowInv, n
      <3> QED BY <3>8, <3>9
    <2> QED BY <1>9, <2>5, <2>6 DEF ReaderReceives, f
  <1>10. CASE DispatcherShifts
    <2>1. dispatch \in Seq(NumberedFrame) /\ dispatch # <<>> /\ UNCHANGED <<inbound, peerSent>>
          /\ handled \in Seq(Inbound)
      BY <1>10 DEF DispatcherShifts, TypeOK
    <2>2. /\ Head(dispatch) = dispatch[1] /\ Len(dispatch) \in Nat \ {0}
          /\ Tail(dispatch) \in Seq(NumberedFrame) /\ Len(Tail(dispatch)) = Len(dispatch) - 1
          /\ \A i \in 1 .. Len(dispatch) - 1 : Tail(dispatch)[i] = dispatch[i + 1]
      BY <2>1, HeadTailProperties, EmptySeq
    <2>3. Head(dispatch).id = Len(handled) + 1 /\ Head(dispatch).id \in Inbound
      <3>1. Head(dispatch) \in NumberedFrame
        BY <2>1
      <3> QED BY <1>2, <2>2, <3>1 DEF NumberedFrame
    <2>4. /\ Len(handled') = Len(handled) + 1
          /\ \A i \in 1 .. Len(handled') : handled'[i] = i
      <3>1. handled' = Append(handled, Head(dispatch).id)
        BY <1>10 DEF DispatcherShifts
      <3>2. /\ Len(handled') = Len(handled) + 1
            /\ \A i \in 1 .. Len(handled) : handled'[i] = handled[i]
            /\ handled'[Len(handled) + 1] = Head(dispatch).id
        BY <2>1, <2>3, <3>1, AppendProperties
      <3> QED BY <1>1, <1>2, <2>3, <3>2
    <2>5. held' = NoFrame
      BY <1>10 DEF DispatcherShifts
    <2>6. /\ Len(dispatch') = Len(dispatch) - 1 + held1
          /\ \A i \in 1 .. Len(dispatch') : dispatch'[i].id = Len(handled) + 1 + i
      <3>1. CASE held # NoFrame
        <4>1. dispatch' = Append(Tail(dispatch), held) /\ held \in NumberedFrame
          BY <1>10, <3>1 DEF DispatcherShifts, AfterShift, TypeOK
        <4>2. /\ Len(dispatch') = Len(dispatch)
              /\ \A i \in 1 .. Len(dispatch) - 1 : dispatch'[i] = dispatch[i + 1]
              /\ dispatch'[Len(dispatch)] = held
          <5>1. /\ Len(dispatch') = Len(Tail(dispatch)) + 1
                /\ \A i \in 1 .. Len(Tail(dispatch)) : dispatch'[i] = Tail(dispatch)[i]
                /\ dispatch'[Len(Tail(dispatch)) + 1] = held
            BY <2>2, <4>1, AppendProperties
          <5>2. Len(dispatch) - 1 + 1 = Len(dispatch)
            BY <1>1
          <5> QED BY <2>2, <5>1, <5>2
        <4>3. held.id = Len(handled) + Len(dispatch) + 1
          BY <1>2, <3>1
        <4>4. ASSUME NEW i \in 1 .. Len(dispatch)
              PROVE  dispatch'[i].id = Len(handled) + 1 + i
          <5>1. CASE i = Len(dispatch)
            BY <1>1, <4>2, <4>3, <5>1
          <5>2. CASE i # Len(dispatch)
            <6>1. i \in 1 .. Len(dispatch) - 1 /\ i + 1 \in 1 .. Len(dispatch)
              BY <1>1, <5>2
            <6>2. dispatch[i + 1].id = Len(handled) + (i + 1)
              BY <1>2, <6>1
            <6> QED BY <1>1, <4>2, <6>1, <6>2
          <5> QED BY <5>1, <5>2
        <4>5. Len(dispatch) - 1 + held1 = Len(dispatch)
          BY <1>1, <3>1
        <4> QED BY <4>2, <4>4, <4>5
      <3>2. CASE held = NoFrame
        <4>1. dispatch' = Tail(dispatch)
          BY <1>10, <3>2 DEF DispatcherShifts, AfterShift
        <4> QED BY <1>1, <1>2, <2>2, <3>2, <4>1
      <3> QED BY <3>1, <3>2
    <2> DEFINE n1 == Len(handled') + Len(dispatch')
    <2> HIDE DEF held1
    <2>7. n1 = n
      BY <1>1, <2>4, <2>6
    <2>8. OnTheWire' = OnTheWire
      BY <2>1 DEF OnTheWire
    <2> HIDE DEF n, n1
    <2>9. /\ n1 <= peerSent'
          /\ \A i \in OnTheWire' : inbound'[i].id \in n1 + 1 .. peerSent'
          /\ \A q \in n1 + 1 .. peerSent' : \E i \in OnTheWire' : inbound'[i].id = q
          /\ \A i, j \in OnTheWire' : i < j => inbound'[i].id < inbound'[j].id
      BY <1>2, <2>1, <2>7, <2>8
    <2>10. Len(handled') + Len(dispatch') + 0 = n1
      BY <1>1, <2>4, <2>6, <2>7 DEF n1
    <2> QED BY <2>4, <2>5, <2>6, <2>9, <2>10 DEF FlowInv
  <1>11. CASE Dispatch
    BY <1>3, <1>10, <1>11 DEF Dispatch, DispatcherAborted, HandlerResponds, HandlerDefers,
       HandlerEnds, DeferredResponds, ReplyCompletes, ReplyFails
  <1>12. CASE UNCHANGED vars
    BY <1>3, <1>12 DEF vars
  <1> QED BY <1>4, <1>5, <1>6, <1>7, <1>8, <1>9, <1>11, <1>12 DEF Next

LEMMA ReplyStep ==
    TypeOK /\ WorkerInv /\ FlowInv /\ ReplyInv /\ [Next]_vars => ReplyInv'
  <1> SUFFICES ASSUME TypeOK, WorkerInv, FlowInv, ReplyInv, [Next]_vars
               PROVE  ReplyInv'
    OBVIOUS
  <1> USE DEF sessionVars, linkVars, workerVars, callVars, replyVars
  <1>0. /\ reply \in [Inbound -> ReplyStatus] /\ answered \in [Inbound -> Nat]
        /\ \A p \in replying : p.id \in Inbound
        /\ closedAfter \subseteq Inbound /\ Len(handled) \in Nat
    BY DEF TypeOK, Reply
  <1>1. CASE UNCHANGED <<replyVars, handled>>
    BY <1>1 DEF ReplyInv
  <1>2. CASE Outgoing \/ Peer \/ ReaderReceives \/ ReaderEnds \/ ReaderAborted
    BY <1>1, <1>2 DEF Outgoing, AppRequest, HandlerRequests, Request, SendCompletes, SendFails,
       CancelPending, Peer, PeerOffers, PeerAnswers, PeerSendsGarbage, LinkEnds, ReaderReceives,
       ReaderEnds, ReaderAborted
  <1>3. CASE Supervise
    BY <1>1, <1>3 DEF Supervise, Run, StartWorkers, FactoryReturns, FactoryFails, BeginReturns,
       BeginFails, StoppedWhileStarting, Stopped, AudioClosed, TransportClosed, WorkersJoined
  <1>4. CASE StopRequested \/ LateAudioFailure \/ \E f \in BOOLEAN : MonitorEnds(f)
    BY <1>1, <1>4 DEF StopRequested, LateAudioFailure, MonitorEnds
  <1>5. CASE DispatcherShifts
    <2> DEFINE q == Head(dispatch).id
    <2>1. dispatch \in Seq(NumberedFrame) /\ dispatch # <<>>
      BY <1>5 DEF DispatcherShifts, TypeOK
    <2>2. Head(dispatch) = dispatch[1] /\ 1 \in 1 .. Len(dispatch) /\ dispatch[1] \in NumberedFrame
      BY <2>1
    <2>3. q = Len(handled) + 1 /\ q \in Inbound
      BY <1>5, <2>2 DEF DispatcherShifts, FlowInv, NumberedFrame
    <2> HIDE DEF q
    <2>4. ~(q <= Len(handled))
      BY <1>0, <2>3
    <2>5. reply[q] = "none" /\ answered[q] = 0
      BY <2>3, <2>4 DEF ReplyInv
    <2>6. Len(handled') = Len(handled) + 1
      <3>1. handled \in Seq(Inbound) /\ handled' = Append(handled, q)
        BY <1>5 DEF DispatcherShifts, TypeOK, q
      <3> QED BY <2>3, <3>1, AppendProperties
    <2>7. /\ UNCHANGED <<replying, answered, closedAfter>>
          /\ \A x \in Inbound : x # q => reply'[x] = reply[x]
      BY <1>0, <1>5 DEF DispatcherShifts, q
    <2>8. \A p \in replying : p.id # q
      BY <2>5 DEF ReplyInv
    <2>9. \A x \in Inbound : reply'[x] # "none" => x <= Len(handled')
      <3> TAKE x \in Inbound
      <3>1. x \in Int
        BY DEF Inbound
      <3>2. CASE x = q
        BY <1>0, <2>3, <2>6, <3>2
      <3>3. CASE x # q
        BY <1>0, <2>6, <2>7, <3>1, <3>3 DEF ReplyInv
      <3> QED BY <3>2, <3>3
    <2> QED BY <1>0, <2>5, <2>7, <2>8, <2>9 DEF ReplyInv
  <1>6. ASSUME NEW q \in Inbound, NEW by \in Senders, NEW close \in BOOLEAN,
               MayRespond(q), StartResponse(q, by, close), UNCHANGED handled
        PROVE  ReplyInv'
    <2> DEFINE p == [id |-> q, by |-> by, close |-> close]
    <2>1. /\ replying' = replying \cup {p} /\ p.id = q /\ UNCHANGED <<answered, closedAfter>>
          /\ reply'[q] = "sent" /\ \A x \in Inbound : x # q => reply'[x] = reply[x]
      BY <1>0, <1>6 DEF StartResponse
    <2>2. reply[q] \notin {"none", "sent"}
      BY <1>6 DEF MayRespond
    <2>3. \A p2 \in replying : p2.id # q
      BY <2>2 DEF ReplyInv
    <2>4. answered[q] = 0
      BY <1>0, <2>2 DEF ReplyInv
    <2> HIDE DEF p
    <2> QED BY <1>0, <1>6, <2>1, <2>2, <2>3, <2>4 DEF ReplyInv
  <1>7. dispatcher = "handling" => current.id \in Inbound
    BY DEF WorkerInv, NumberedFrame
  <1>8. ASSUME NEW close \in BOOLEAN, HandlerResponds(close)
        PROVE  ReplyInv'
    BY <1>6, <1>7, <1>8 DEF HandlerResponds, HandlerRuns, Senders
  <1>9. CASE HandlerDefers
    <2>1. current.id \in Inbound /\ reply[current.id] = "unclaimed"
      BY <1>7, <1>9 DEF HandlerDefers, HandlerRuns
    <2>2. /\ reply' = [reply EXCEPT ![current.id] = "deferred"]
          /\ UNCHANGED <<replying, answered, closedAfter, handled>>
      BY <1>9 DEF HandlerDefers
    <2> QED BY <1>0, <2>1, <2>2 DEF ReplyInv
  <1>10. ASSUME NEW how \in {"result", "terminal", "nothing", "throws"}, HandlerEnds(how)
         PROVE  ReplyInv'
    <2>1. UNCHANGED handled
      BY <1>10 DEF HandlerEnds
    <2>2. \/ UNCHANGED replyVars
          \/ \E by \in Senders : MayRespond(current.id) /\ StartResponse(current.id, by, how = "terminal")
      BY <1>10 DEF HandlerEnds, Senders
    <2> QED BY <1>1, <1>6, <1>7, <1>10, <2>1, <2>2 DEF HandlerEnds, HandlerRuns
  <1>11. ASSUME NEW q \in Inbound, NEW close \in BOOLEAN, DeferredResponds(q, close)
         PROVE  ReplyInv'
    BY <1>6, <1>11 DEF DeferredResponds, Senders
  <1>12. ASSUME NEW p \in replying, ReplyCompletes(p)
         PROVE  ReplyInv'
    <2>1. p.id \in Inbound /\ answered[p.id] = 0 /\ reply[p.id] = "sent"
      BY <1>0 DEF ReplyInv
    <2>2. /\ answered'[p.id] = 1 /\ \A x \in Inbound : x # p.id => answered'[x] = answered[x]
          /\ closedAfter' \subseteq closedAfter \cup {p.id}
          /\ UNCHANGED <<reply, handled>> /\ replying' = replying \ {p}
      <3>1. answered' = [answered EXCEPT ![p.id] = @ + 1]
        BY <1>12 DEF ReplyCompletes
      <3>2. answered'[p.id] = 1 /\ \A x \in Inbound : x # p.id => answered'[x] = answered[x]
        BY <1>0, <2>1, <3>1
      <3> QED BY <1>12, <3>2 DEF ReplyCompletes, AfterReply
    <2>3. \A p2 \in replying' : p2.id # p.id
      BY <2>2 DEF ReplyInv
    <2> QED BY <1>0, <2>1, <2>2, <2>3 DEF ReplyInv
  <1>13. ASSUME NEW p \in replying, ReplyFails(p)
         PROVE  ReplyInv'
    <2>1. replying' = replying \ {p} /\ UNCHANGED <<reply, answered, closedAfter, handled>>
      BY <1>13 DEF ReplyFails, AfterReply
    <2> QED BY <2>1 DEF ReplyInv
  <1>14. CASE Dispatch
    BY <1>1, <1>5, <1>8, <1>9, <1>10, <1>11, <1>12, <1>13, <1>14 DEF Dispatch, DispatcherAborted
  <1>15. CASE UNCHANGED vars
    BY <1>1, <1>15 DEF vars
  <1> QED BY <1>2, <1>3, <1>4, <1>14, <1>15 DEF Next

LEMMA SessionInvariant == Spec => []SessionInv
  <1>1. Init => SessionInv
    <2> SUFFICES ASSUME Init PROVE SessionInv
      OBVIOUS
    <2>1. /\ inbound \in Seq(Frame) /\ dispatch \in Seq(NumberedFrame) /\ handled \in Seq(Inbound)
          /\ Len(inbound) = 0 /\ Len(dispatch) = 0 /\ Len(handled) = 0
      BY EmptySeq DEF Init
    <2>2. TypeOK
      <3>0. peerSent \in 0 .. MaxInbound
        BY BoundsAssumption DEF Init
      <3>1. state \in States /\ aborted \in BOOLEAN /\ stopFailed \in BOOLEAN /\ fault \in BOOLEAN
        BY DEF Init, States
      <3>2. /\ call \in [Calls -> {"idle", "sending", "waiting", "returned"}]
            /\ result \in [Calls -> Outcomes \cup {"none"}]
        BY DEF Init
      <3>3. reply \in [Inbound -> ReplyStatus] /\ answered \in [Inbound -> Nat]
        BY DEF Init, ReplyStatus
      <3> QED BY <2>1, <3>0, <3>1, <3>2, <3>3 DEF Init, TypeOK
    <2>3. LifeInv /\ WorkerInv
      BY DEF Init, LifeInv, WorkerInv
    <2>6. HoldInv
      BY <2>1, DispatchAssumption DEF Init, HoldInv
    <2>4. FlowInv
      BY <2>1 DEF Init, FlowInv, OnTheWire
    <2>5. ReplyInv
      BY DEF Init, ReplyInv
    <2> QED BY <2>2, <2>3, <2>4, <2>5, <2>6 DEF SessionInv
  <1>2. SessionInv /\ [Next]_vars => SessionInv'
    BY TypeStep, LifeStep, WorkerStep, HoldStep, FlowStep, ReplyStep DEF SessionInv
  <1> QED BY <1>1, <1>2, PTL DEF Spec

\* The outcome of run() is "failed" exactly when something failed.
THEOREM OutcomeExactTheorem == Spec => []OutcomeExact
  <1>1. SessionInv => OutcomeExact
    BY DEF SessionInv, LifeInv, OutcomeExact
  <1> QED BY <1>1, SessionInvariant, PTL

\* The numbers of a sequence of frames.
LEMMA IdsOf ==
    ASSUME NEW fs \in Seq(NumberedFrame)
    PROVE  /\ Ids(fs) \in Seq(Inbound) /\ Len(Ids(fs)) = Len(fs)
           /\ \A i \in 1 .. Len(fs) : Ids(fs)[i] = fs[i].id
  <1>1. \A i \in 1 .. Len(fs) : fs[i] \in NumberedFrame
    OBVIOUS
  <1>2. \A i \in 1 .. Len(fs) : fs[i].id \in Inbound
    BY <1>1 DEF NumberedFrame
  <1>3. Ids(fs) \in [1 .. Len(fs) -> Inbound]
    BY <1>2 DEF Ids
  <1> QED BY <1>3 DEF Ids

\* The parts of FlowInv, put end to end.
LEMMA ReceivedInOrder == SessionInv => DispatchedInOrder
  <1> SUFFICES ASSUME SessionInv
               PROVE  /\ \A i \in 1 .. Len(Received) : Received[i] = i
                      /\ {inbound[i].id : i \in OnTheWire} = Len(Received) + 1 .. peerSent
                      /\ \A i, j \in OnTheWire : i < j => inbound[i].id < inbound[j].id
    BY DEF DispatchedInOrder
  <1> DEFINE tail == HeldIds
             held1 == IF held # NoFrame THEN 1 ELSE 0
             n == Len(handled) + Len(dispatch) + held1
             two == handled \o Ids(dispatch)
  <1>1. /\ handled \in Seq(Inbound) /\ dispatch \in Seq(NumberedFrame)
        /\ Len(handled) \in Nat /\ Len(dispatch) \in Nat
    BY DEF SessionInv, TypeOK
  <1>2. /\ Ids(dispatch) \in Seq(Inbound) /\ Len(Ids(dispatch)) = Len(dispatch)
        /\ \A i \in 1 .. Len(dispatch) : Ids(dispatch)[i] = dispatch[i].id
    BY <1>1, IdsOf
  <1>3. tail \in Seq(Inbound) /\ Len(tail) = held1 /\ (held # NoFrame => tail[1] = held.id)
    <2>1. held # NoFrame => held.id \in Inbound
      BY DEF SessionInv, TypeOK, NumberedFrame
    <2> QED BY <2>1 DEF HeldIds
  <1>4. /\ two \in Seq(Inbound) /\ Len(two) = Len(handled) + Len(dispatch)
        /\ \A i \in 1 .. Len(handled) + Len(dispatch) :
              two[i] = IF i <= Len(handled) THEN handled[i] ELSE Ids(dispatch)[i - Len(handled)]
    <2>1. ASSUME NEW s \in Seq(Inbound)
          PROVE  /\ handled \o s \in Seq(Inbound) /\ Len(handled \o s) = Len(handled) + Len(s)
                 /\ \A i \in 1 .. Len(handled) + Len(s) : (handled \o s)[i]
                       = IF i <= Len(handled) THEN handled[i] ELSE s[i - Len(handled)]
      BY <1>1, ConcatProperties
    <2> QED BY <1>2, <2>1
  <1>5. /\ Len(Received) = n
        /\ \A i \in 1 .. n : Received[i] = IF i <= Len(two) THEN two[i] ELSE tail[i - Len(two)]
    <2>1. Received = two \o tail
      BY DEF Received
    <2> HIDE DEF two, tail
    <2>2. /\ Len(two \o tail) = Len(two) + Len(tail)
          /\ \A i \in 1 .. Len(two) + Len(tail) :
                (two \o tail)[i] = IF i <= Len(two) THEN two[i] ELSE tail[i - Len(two)]
      <3>1. two \in Seq(Inbound) /\ tail \in Seq(Inbound)
        BY <1>3, <1>4
      <3> QED BY <3>1, ConcatProperties
    <2> QED BY <1>3, <1>4, <2>1, <2>2
  <1>6. /\ \A i \in 1 .. Len(handled) : handled[i] = i
        /\ \A i \in 1 .. Len(dispatch) : dispatch[i].id = Len(handled) + i
        /\ held # NoFrame => held.id = n
        /\ \A i \in OnTheWire : inbound[i].id \in n + 1 .. peerSent
        /\ \A q \in n + 1 .. peerSent : \E i \in OnTheWire : inbound[i].id = q
        /\ \A i, j \in OnTheWire : i < j => inbound[i].id < inbound[j].id
    BY DEF SessionInv, FlowInv
  <1> HIDE DEF two, tail
  <1>7. \A i \in 1 .. n : Received[i] = i
    <2> TAKE i \in 1 .. n
    <2>1. CASE i <= Len(handled)
      <3>1. i \in 1 .. Len(handled) /\ i \in 1 .. Len(handled) + Len(dispatch) /\ i <= Len(two)
        BY <1>1, <1>4, <2>1
      <3> QED BY <1>4, <1>5, <1>6, <2>1, <3>1
    <2>2. CASE ~(i <= Len(handled)) /\ i <= Len(handled) + Len(dispatch)
      <3>1. i - Len(handled) \in 1 .. Len(dispatch)
        BY <1>1, <2>2
      <3>2. Ids(dispatch)[i - Len(handled)] = Len(handled) + (i - Len(handled))
        BY <1>2, <1>6, <3>1
      <3> QED BY <1>1, <1>4, <1>5, <2>2, <3>2
    <2>3. CASE ~(i <= Len(handled) + Len(dispatch))
      <3>1. held # NoFrame /\ i = n /\ i - Len(two) = 1
        <4>1. held1 = 1 /\ held # NoFrame
          BY <1>1, <2>3
        <4> HIDE DEF held1
        <4> QED BY <1>1, <1>4, <2>3, <4>1
      <3> QED BY <1>3, <1>4, <1>5, <1>6, <2>3, <3>1
    <2> QED BY <2>1, <2>2, <2>3
  <1> HIDE DEF n
  <1> QED BY <1>5, <1>6, <1>7

\* Requests and events are dispatched completely and in the order sent, a
\* request is answered at most once, and a session stopped by
\* respondThenClose has sent that response.
THEOREM RepliesExactTheorem == Spec => []RepliesExact
  <1>1. SessionInv => RepliesExact
    <2> SUFFICES ASSUME SessionInv PROVE RepliesExact
      OBVIOUS
    <2>1. DispatchedInOrder
      BY ReceivedInOrder
    <2>2. TypeOK /\ ReplyInv
      BY DEF SessionInv
    <2>3. AtMostOneResponse
      BY <2>2 DEF ReplyInv, AtMostOneResponse, TypeOK
    <2>4. \A q \in closedAfter : answered[q] = 1
      BY <2>2 DEF ReplyInv
    <2> QED BY <2>1, <2>2, <2>3, <2>4 DEF RepliesExact
  <1> QED BY <1>1, SessionInvariant, PTL

-----------------------------------------------------------------------------
(* The refinement of SessionContract.                                       *)

\* The lifecycle state moves forward.
LEMMA PhaseStep ==
    SessionInv /\ [Next]_vars =>
      \/ state' = state
      \/ state = "inactive" /\ state' \in {"connecting", "closing"}
      \/ state = "connecting" /\ state' \in {"active", "closing", "closed", "failed"}
      \/ state = "active" /\ state' = "closing"
      \/ state = "closing" /\ state' \in {"closed", "failed"}
  <1> SUFFICES ASSUME SessionInv, [Next]_vars, state' # state
               PROVE  \/ state = "inactive" /\ state' \in {"connecting", "closing"}
                      \/ state = "connecting" /\ state' \in {"active", "closing", "closed", "failed"}
                      \/ state = "active" /\ state' = "closing"
                      \/ state = "closing" /\ state' \in {"closed", "failed"}
    OBVIOUS
  <1> USE DEF sessionVars, linkVars, workerVars, callVars, replyVars
  <1>0. LifeInv /\ state \in States
    BY DEF SessionInv, TypeOK
  <1>1. ASSUME NEW f, RequestStop(f)
        PROVE  state \in {"connecting", "active"} /\ state' = "closing"
    <2>1. ~aborted /\ state # "inactive" /\ state' = "closing"
      BY <1>1 DEF RequestStop
    <2>2. supervisor \in {"factory", "begin", "run"}
      BY <1>0, <2>1 DEF SessionInv, TypeOK, LifeInv
    <2> QED BY <1>0, <2>1, <2>2 DEF LifeInv
  <1>2. CASE Supervise
    <2>1. ASSUME NEW how \in {"transport", "factory", "cancelled"}, Run(how)
          PROVE  state = "inactive" /\ state' \in {"connecting", "closing"}
      BY <1>0, <2>1 DEF Run, LifeInv
    <2>2. CASE BeginReturns
      BY <1>0, <2>2 DEF BeginReturns, LifeInv
    <2>3. CASE FactoryFails \/ BeginFails \/ StoppedWhileStarting
      BY <1>1, <2>3 DEF FactoryFails, BeginFails, StoppedWhileStarting, CatchAndClose
    <2>4. CASE WorkersJoined
      BY <1>0, <2>4 DEF WorkersJoined, LifeInv
    <2> QED BY <1>2, <2>1, <2>2, <2>3, <2>4 DEF Supervise, FactoryReturns, Stopped, AudioClosed,
            TransportClosed
  <1>3. CASE Dispatch
    BY <1>1, <1>3 DEF Dispatch, DispatcherShifts, DispatcherAborted, HandlerResponds,
       HandlerDefers, HandlerEnds, DeferredResponds, ReplyCompletes, ReplyFails
  <1>4. CASE StopRequested \/ LateAudioFailure \/ \E f \in BOOLEAN : MonitorEnds(f)
    BY <1>1, <1>4 DEF StopRequested, LateAudioFailure, MonitorEnds
  <1>5. CASE ReaderReceives \/ ReaderEnds \/ ReaderAborted
    BY <1>1, <1>5 DEF ReaderReceives, ReaderEnds, ReaderAborted
  <1>6. CASE Outgoing
    BY <1>6 DEF Outgoing, AppRequest, HandlerRequests, Request, SendCompletes, SendFails,
       CancelPending
  <1>7. CASE Peer
    BY <1>7 DEF Peer, PeerOffers, PeerAnswers, PeerSendsGarbage, LinkEnds
  <1>8. CASE UNCHANGED vars
    BY <1>8 DEF vars
  <1> QED BY <1>2, <1>3, <1>4, <1>5, <1>6, <1>7, <1>8 DEF Next

\* A request is opened only by a connected session, and a call that began
\* stays begun.
LEMMA OpenStep ==
    CallInv /\ [Next]_vars =>
      /\ pending' \subseteq pending \/ state \in {"connecting", "active"}
      /\ \A r \in Calls : call[r] # "idle" => call'[r] # "idle"
  <1> SUFFICES ASSUME CallInv, [Next]_vars
               PROVE  /\ pending' \subseteq pending \/ state \in {"connecting", "active"}
                      /\ \A r \in Calls : call[r] # "idle" => call'[r] # "idle"
    OBVIOUS
  <1> USE DEF sessionVars, linkVars, workerVars, callVars, replyVars
  <1>1. CASE UNCHANGED <<pending, call>>
    BY <1>1
  <1>2. ASSUME NEW S, NEW o, SettlePending(S, o)
        PROVE  /\ pending' \subseteq pending
               /\ \A r \in Calls : call[r] # "idle" => call'[r] # "idle"
    BY <1>2 DEF SettlePending
  <1>3. CASE Supervise
    BY <1>1, <1>2, <1>3 DEF Supervise, Run, StartWorkers, FactoryReturns, FactoryFails,
       BeginReturns, BeginFails, StoppedWhileStarting, Stopped, AudioClosed, TransportClosed,
       WorkersJoined, CatchAndClose
  <1>4. ASSUME NEW r \in Calls, NEW t \in BOOLEAN, NEW e \in BOOLEAN, Request(r, t, e)
        PROVE  /\ state \in {"connecting", "active"}
               /\ \A s \in Calls : call[s] # "idle" => call'[s] # "idle"
    BY <1>4 DEF Request, CallInv
  <1>5. ASSUME NEW r \in Calls, SendCompletes(r) \/ SendFails(r)
        PROVE  /\ pending' \subseteq pending
               /\ \A s \in Calls : call[s] # "idle" => call'[s] # "idle"
    BY <1>5 DEF SendCompletes, SendFails, CallInv
  <1>6. CASE Outgoing
    BY <1>2, <1>4, <1>5, <1>6 DEF Outgoing, AppRequest, HandlerRequests, CancelPending
  <1>7. CASE Peer \/ ReaderEnds \/ ReaderAborted
    BY <1>1, <1>7 DEF Peer, PeerOffers, PeerAnswers, PeerSendsGarbage, LinkEnds, ReaderEnds,
       ReaderAborted
  <1>8. CASE ReaderReceives
    BY <1>1, <1>2, <1>8 DEF ReaderReceives
  <1>9. CASE Dispatch
    BY <1>1, <1>9 DEF Dispatch, DispatcherShifts, DispatcherAborted, HandlerResponds,
       HandlerDefers, HandlerEnds, DeferredResponds, ReplyCompletes, ReplyFails
  <1>10. CASE StopRequested \/ LateAudioFailure \/ \E f \in BOOLEAN : MonitorEnds(f)
    BY <1>1, <1>10 DEF StopRequested, LateAudioFailure, MonitorEnds
  <1>11. CASE UNCHANGED vars
    BY <1>1, <1>11 DEF vars
  <1> QED BY <1>3, <1>6, <1>7, <1>8, <1>9, <1>10, <1>11 DEF Next

\* A response reaches the wire for a request that had none, and never from a
\* session that was not run or has ended in order.
LEMMA AnswerStep ==
    SessionInv /\ [Next]_vars =>
      \A q \in Inbound :
        \/ answered'[q] = answered[q]
        \/ answered[q] = 0 /\ answered'[q] = 1 /\ state \notin {"inactive", "closed"}
  <1> SUFFICES ASSUME SessionInv, [Next]_vars, NEW q \in Inbound, answered'[q] # answered[q]
               PROVE  answered[q] = 0 /\ answered'[q] = 1 /\ state \notin {"inactive", "closed"}
    OBVIOUS
  <1> USE DEF sessionVars, linkVars, workerVars, callVars, replyVars
  <1>1. PICK p \in replying : ReplyCompletes(p)
    <2>1. CASE Supervise
      BY <2>1 DEF Supervise, Run, FactoryReturns, FactoryFails, BeginReturns, BeginFails,
         StoppedWhileStarting, Stopped, AudioClosed, TransportClosed, WorkersJoined
    <2>2. CASE Outgoing \/ Peer
      BY <2>2 DEF Outgoing, AppRequest, HandlerRequests, Request, SendCompletes, SendFails,
         CancelPending, Peer, PeerOffers, PeerAnswers, PeerSendsGarbage, LinkEnds
    <2>3. CASE ReaderReceives \/ ReaderEnds \/ ReaderAborted
      BY <2>3 DEF ReaderReceives, ReaderEnds, ReaderAborted
    <2>4. CASE Dispatch
      BY <2>4 DEF Dispatch, DispatcherShifts, DispatcherAborted, HandlerResponds,
         HandlerDefers, HandlerEnds, DeferredResponds, StartResponse, ReplyFails
    <2>5. CASE StopRequested \/ LateAudioFailure \/ \E f \in BOOLEAN : MonitorEnds(f)
      BY <2>5 DEF StopRequested, LateAudioFailure, MonitorEnds
    <2> QED BY <2>1, <2>2, <2>3, <2>4, <2>5 DEF Next, vars
  <1>2. p.id \in Inbound /\ answered[p.id] = 0 /\ answered \in [Inbound -> Nat]
    BY DEF SessionInv, ReplyInv, TypeOK, Reply
  <1>3. answered' = [answered EXCEPT ![p.id] = @ + 1] /\ link = "open"
    BY <1>1 DEF ReplyCompletes
  <1>4. q = p.id /\ answered'[q] = 1
    BY <1>2, <1>3
  <1>5. state \notin {"inactive", "closed"}
    BY <1>3 DEF SessionInv, LifeInv, TypeOK
  <1> QED BY <1>2, <1>4, <1>5

LEMMA ContractStep ==
    /\ SessionInv /\ CallInv /\ SessionInv' /\ CallInv'
    /\ [Next]_vars
    => [Contract!Next]_(Contract!contractVars)
  <1> SUFFICES ASSUME SessionInv, CallInv, SessionInv', CallInv', [Next]_vars
               PROVE  Contract!Next
    OBVIOUS
  <1>1. Contract!PhaseMoves
    BY PhaseStep DEF Contract!PhaseMoves, Contract!Rank
  <1>2. Contract!RepliesMove
    BY AnswerStep DEF Contract!RepliesMove
  <1>3. Contract!RequestsMove
    <2> DEFINE settled == {r \in Calls : result[r] # "none"}
               settledNext == {r \in Calls : result'[r] # "none"}
    <2>1. pending' \cap settledNext = {}
      BY DEF CallInv
    <2>2. settled \subseteq settledNext
      BY SettleStep
    <2>3. pending \subseteq pending' \cup settledNext
      <3> SUFFICES ASSUME NEW r \in pending
                   PROVE  r \in pending' \/ result'[r] # "none"
        BY DEF CallInv
      <3>1. r \in Calls /\ call'[r] # "idle"
        BY OpenStep DEF CallInv
      <3>2. call'[r] \in {"sending", "waiting", "returned"}
        BY <3>1 DEF CallInv
      <3> QED BY <3>1, <3>2 DEF CallInv
    <2>4. pending' \ pending # {} => state \in {"connecting", "active"}
      BY OpenStep
    <2>5. state' \in {"closed", "failed"} => pending' = {}
      <3>1. state' \in {"closed", "failed"} => supervisor' = "ended"
        BY DEF SessionInv, LifeInv, TypeOK
      <3> QED BY <3>1 DEF CallInv, ShuttingDown
    <2> QED BY <2>1, <2>2, <2>3, <2>4, <2>5 DEF Contract!RequestsMove, Contract!Ended
  <1> QED BY <1>1, <1>2, <1>3 DEF Contract!Next

\* The TypeScript session implements what every SDK promises of a session:
\* each of its steps moves the contract one step or leaves it alone.
THEOREM ContractTheorem == Spec => ImplementsContract
  <1>1. Init => Contract!Init
    BY DEF Init, Contract!Init
  <1> QED BY <1>1, ContractStep, SessionInvariant, CallInvariant, PTL
          DEF Spec, ImplementsContract, Contract!Spec

-----------------------------------------------------------------------------
(* The refinement of AsyncQueue by the two users of the dispatch queue.     *)

LEMMA IdsAppend ==
    ASSUME NEW fs \in Seq(NumberedFrame), NEW f \in NumberedFrame
    PROVE  Ids(Append(fs, f)) = Append(Ids(fs), f.id)
  <1>1. f.id \in Inbound
    BY DEF NumberedFrame
  <1>2. /\ Append(fs, f) \in Seq(NumberedFrame) /\ Len(Append(fs, f)) = Len(fs) + 1
        /\ \A i \in 1 .. Len(fs) : Append(fs, f)[i] = fs[i]
        /\ Append(fs, f)[Len(fs) + 1] = f /\ Len(fs) \in Nat
    BY AppendProperties
  <1>3. /\ Ids(fs) \in Seq(Inbound) /\ Len(Ids(fs)) = Len(fs)
        /\ \A i \in 1 .. Len(fs) : Ids(fs)[i] = fs[i].id
    BY IdsOf
  <1> DEFINE s == Ids(Append(fs, f))
             t == Append(Ids(fs), f.id)
  <1>4. s \in Seq(Inbound) /\ Len(s) = Len(fs) + 1
        /\ \A i \in 1 .. Len(fs) + 1 : s[i] = Append(fs, f)[i].id
    BY <1>2, IdsOf
  <1>5. /\ t \in Seq(Inbound) /\ Len(t) = Len(fs) + 1
        /\ \A i \in 1 .. Len(fs) : t[i] = Ids(fs)[i]
        /\ t[Len(fs) + 1] = f.id
    BY <1>1, <1>3, AppendProperties
  <1> HIDE DEF s, t
  <1>6. \A i \in 1 .. Len(fs) + 1 : s[i] = t[i]
    <2> TAKE i \in 1 .. Len(fs) + 1
    <2>1. CASE i = Len(fs) + 1
      BY <1>2, <1>4, <1>5, <2>1
    <2>2. CASE i \in 1 .. Len(fs)
      BY <1>2, <1>3, <1>4, <1>5, <2>2
    <2> QED BY <1>2, <2>1, <2>2
  <1>7. s = t
    BY <1>4, <1>5, <1>6, SeqEqual
  <1> QED BY <1>7 DEF s, t

LEMMA IdsTail ==
    ASSUME NEW fs \in Seq(NumberedFrame), fs # <<>>
    PROVE  /\ Ids(fs) # <<>> /\ Head(Ids(fs)) = Head(fs).id
           /\ Tail(Ids(fs)) = Ids(Tail(fs))
  <1>1. /\ Len(fs) \in Nat \ {0} /\ Head(fs) = fs[1]
        /\ Tail(fs) \in Seq(NumberedFrame) /\ Len(Tail(fs)) = Len(fs) - 1
        /\ \A i \in 1 .. Len(fs) - 1 : Tail(fs)[i] = fs[i + 1]
    BY HeadTailProperties, EmptySeq
  <1>2. /\ Ids(fs) \in Seq(Inbound) /\ Len(Ids(fs)) = Len(fs)
        /\ \A i \in 1 .. Len(fs) : Ids(fs)[i] = fs[i].id
    BY IdsOf
  <1>3. Ids(fs) # <<>>
    BY <1>1, <1>2
  <1>4. /\ Head(Ids(fs)) = Ids(fs)[1]
        /\ Tail(Ids(fs)) \in Seq(Inbound) /\ Len(Tail(Ids(fs))) = Len(fs) - 1
        /\ \A i \in 1 .. Len(fs) - 1 : Tail(Ids(fs))[i] = Ids(fs)[i + 1]
    BY <1>2, <1>3, HeadTailProperties
  <1>5. Head(Ids(fs)) = Head(fs).id
    <2>1. 1 \in 1 .. Len(fs)
      <3>1. Len(fs) \in Nat \ {0}
        BY <1>1, Zenon
      <3> QED BY <3>1
    <2> QED BY <1>1, <1>2, <1>4, <2>1, SMTT(30)
  <1> DEFINE s == Tail(Ids(fs))
             t == Ids(Tail(fs))
  <1>6. t \in Seq(Inbound) /\ Len(t) = Len(fs) - 1
        /\ \A i \in 1 .. Len(fs) - 1 : t[i] = Tail(fs)[i].id
    BY <1>1, IdsOf
  <1>7. \A i \in 1 .. Len(fs) - 1 : s[i] = t[i]
    <2> TAKE i \in 1 .. Len(fs) - 1
    <2>1. i + 1 \in 1 .. Len(fs)
      BY <1>1
    <2> QED BY <1>1, <1>2, <1>4, <1>6, <2>1
  <1> HIDE DEF s, t
  <1>8. s = t
    BY <1>4, <1>6, <1>7, SeqEqual DEF s
  <1> QED BY <1>3, <1>5, <1>8 DEF s, t

LEMMA IdsEmpty == Ids(<<>>) = <<>>
  <1>1. <<>> \in Seq(NumberedFrame) /\ Len(<<>>) = 0
    BY EmptySeq
  <1>2. Ids(<<>>) \in Seq(Inbound) /\ Len(Ids(<<>>)) = 0
    BY <1>1, IdsOf
  <1> QED BY <1>2, EmptySeq

\* The values of the one parked push, and of none.
LEMMA ParkedValues ==
    /\ Queue!Elems(Queue!ValuesOf(<<>>)) = {}
    /\ \A v : Queue!Elems(Queue!ValuesOf(<<[who |-> "reader", value |-> v]>>)) = {v}
  <1>1. Queue!Elems(Queue!ValuesOf(<<>>)) = {}
    BY DEF Queue!Elems, Queue!ValuesOf
  <1>2. ASSUME NEW v
        PROVE  Queue!Elems(Queue!ValuesOf(<<[who |-> "reader", value |-> v]>>)) = {v}
    <2>1. Queue!ValuesOf(<<[who |-> "reader", value |-> v]>>) = [i \in 1 .. 1 |-> v]
      BY DEF Queue!ValuesOf
    <2>2. Len([i \in 1 .. 1 |-> v]) = 1
      OBVIOUS
    <2> QED BY <2>1, <2>2 DEF Queue!Elems
  <1> QED BY <1>1, <1>2

LEMMA WithoutOnly == \A x : Queue!Without(<<x>>, 1) = <<>>
  <1> SUFFICES ASSUME NEW x PROVE Queue!Without(<<x>>, 1) = <<>>
    OBVIOUS
  <1>1. SubSeq(<<x>>, 1, 0) = <<>> /\ SubSeq(<<x>>, 2, 1) = <<>>
    OBVIOUS
  <1>2. <<>> \o <<>> = <<>>
    OBVIOUS
  <1> QED BY <1>1, <1>2 DEF Queue!Without

\* A parked dispatcher and a held frame exclude each other in a session that is up.
LEMMA NeverBothParked ==
    ASSUME SessionInv, ~aborted, held # NoFrame
    PROVE  dispatch # <<>>
  <1>1. Len(dispatch) = DispatchCapacity
    BY DEF SessionInv, HoldInv
  <1> QED BY <1>1, DispatchAssumption

\* A step that leaves the frames alone is no step of the queue, or it is the
\* abort of the one parked call, or close().
LEMMA StopIsQueueStep ==
    ASSUME SessionInv, UNCHANGED <<handled, dispatch, held>>,
           (dispatcher = "shift" <=> dispatcher' = "shift") \/ (aborted /\ dispatch = <<>>),
           aborted' \in BOOLEAN, aborted => aborted',
           ShuttingDown => ShuttingDown', ShuttingDown' => aborted'
    PROVE  [Queue!Next]_(Queue!vars)
  <1>0. aborted \in BOOLEAN /\ ShuttingDown \in BOOLEAN /\ ShuttingDown' \in BOOLEAN
    BY DEF SessionInv, TypeOK, ShuttingDown
  <1>1. /\ Taking' <=> Taking
        /\ UNCHANGED <<QueueItems, QueueTaken, QueueOffered>>
    <2>1. Taking' <=> Taking
      BY DEF Taking
    <2>2. AfterShift' = AfterShift /\ HeldIds' = HeldIds
      BY DEF AfterShift, HeldIds
    <2> QED BY <2>1, <2>2 DEF QueueItems, QueueTaken, QueueOffered
  <1>2. aborted \/ dispatcher' = "shift" <=> aborted \/ dispatcher = "shift"
    OBVIOUS
  <1>3. CASE (aborted <=> aborted') /\ (ShuttingDown <=> ShuttingDown')
    <2>1. UNCHANGED <<QueueReaders, QueueWriters, QueueRefused>>
      BY <1>1, <1>3 DEF QueueReaders, QueueWriters, QueueRefused, Taking
    <2>2. UNCHANGED ShuttingDown
      BY <1>0, <1>3
    <2> QED BY <1>1, <2>1, <2>2 DEF Queue!vars
  <1>4. QueueReaders # <<>> =>
          /\ QueueReaders = <<"dispatcher">> /\ QueueItems = <<>> /\ QueueWriters = <<>>
          /\ held = NoFrame
    BY NeverBothParked, IdsEmpty DEF QueueReaders, QueueItems, QueueWriters, Taking
  <1>5. aborted' => QueueReaders' = <<>> /\ QueueWriters' = <<>>
    BY DEF QueueReaders, QueueWriters
  <1>6. CASE aborted' /\ ShuttingDown' /\ ~ShuttingDown
    <2>1. ShuttingDown' = TRUE
      BY <1>0, <1>6
    <2>2. QueueRefused' = QueueRefused \cup Queue!Elems(Queue!ValuesOf(QueueWriters))
      <3>1. CASE held # NoFrame /\ ~Taking
        BY <1>1, <1>6, <3>1, ParkedValues DEF QueueRefused, QueueWriters
      <3>2. CASE ~(held # NoFrame /\ ~Taking)
        BY <1>1, <3>2, ParkedValues DEF QueueRefused, QueueWriters
      <3> QED BY <3>1, <3>2
    <2>3. QueueReaders' = IF QueueItems = <<>> THEN <<>> ELSE QueueReaders
      BY <1>4, <1>5, <1>6
    <2>4. Queue!Close
      BY <1>1, <1>5, <1>6, <2>1, <2>2, <2>3 DEF Queue!Close
    <2> QED BY <2>4 DEF Queue!Next
  <1>7. CASE ~aborted /\ aborted' /\ (ShuttingDown <=> ShuttingDown')
    <2>0. UNCHANGED ShuttingDown
      BY <1>0, <1>7
    <2>1. CASE QueueReaders # <<>>
      <3>1. Len(QueueReaders) = 1 /\ Queue!Without(QueueReaders, 1) = <<>>
        BY <1>4, <2>1, WithoutOnly
      <3>2. UNCHANGED <<QueueWriters, QueueRefused>>
        BY <1>4, <1>5, <1>7, <2>1 DEF QueueRefused
      <3>3. Queue!AbortReader
        BY <1>1, <1>5, <1>7, <2>0, <3>1, <3>2 DEF Queue!AbortReader
      <3> QED BY <3>3 DEF Queue!Next
    <2>2. CASE held # NoFrame /\ ~Taking
      <3>0. QueueReaders = <<>>
        BY <1>4, <2>2
      <3>1. /\ QueueWriters = <<[who |-> "reader", value |-> held.id]>>
            /\ QueueRefused = {} /\ QueueRefused' = {held.id}
        BY <1>1, <1>7, <2>2 DEF QueueWriters, QueueRefused
      <3>2. /\ Len(QueueWriters) = 1 /\ QueueWriters[1].value = held.id
            /\ Queue!Without(QueueWriters, 1) = <<>>
        BY <3>1, WithoutOnly
      <3>3. Queue!AbortWriter
        BY <1>1, <1>5, <1>7, <2>0, <3>0, <3>1, <3>2 DEF Queue!AbortWriter
      <3> QED BY <3>3 DEF Queue!Next
    <2>3. CASE QueueReaders = <<>> /\ ~(held # NoFrame /\ ~Taking)
      <3>1. UNCHANGED <<QueueReaders, QueueWriters, QueueRefused>>
        BY <1>1, <1>5, <1>7, <2>3 DEF QueueWriters, QueueRefused
      <3> QED BY <1>1, <2>0, <3>1 DEF Queue!vars
    <2> QED BY <2>1, <2>2, <2>3
  <1> QED BY <1>0, <1>3, <1>6, <1>7

\* What #admitWriter does in this queue: nothing, or it moves the held frame
\* into the slot that was just freed.
LEMMA AdmitNobody ==
    ASSUME NEW left \in Seq(Inbound), NEW out \in Seq(Inbound), ~ShuttingDown,
           QueueWriters = <<>>, QueueWriters' = <<>>, QueueReaders = <<>>, QueueReaders' = <<>>,
           QueueItems' = left, QueueTaken' = out
    PROVE  Queue!AdmitWriters(1, left, out)
  <1>1. Queue!ValuesOf(<<>>) = <<>> /\ Len(<<>>) = 0
    BY DEF Queue!ValuesOf
  <1>2. SubSeq(<<>>, 1, 0) = <<>>
    OBVIOUS
  <1>3. left \o <<>> = left /\ out \o <<>> = out
    BY ConcatEmptySeq
  <1>4. 0 + 1 = 1 /\ ~(1 <= 0) /\ 0 <= 0
    OBVIOUS
  <1> QED BY <1>1, <1>2, <1>3, <1>4 DEF Queue!AdmitWriters

LEMMA AdmitHeld ==
    ASSUME NEW left \in Seq(Inbound), NEW out \in Seq(Inbound), NEW v \in Inbound, ~ShuttingDown,
           QueueWriters = <<[who |-> "reader", value |-> v]>>, QueueWriters' = <<>>,
           QueueReaders = <<>>, QueueReaders' = <<>>,
           QueueItems' = Append(left, v), QueueTaken' = out
    PROVE  Queue!AdmitWriters(1, left, out)
  <1> DEFINE w == <<[who |-> "reader", value |-> v]>>
             vs == Queue!ValuesOf(w)
  <1>1. Len(w) = 1 /\ SubSeq(w, 2, 1) = <<>>
    OBVIOUS
  <1>2. vs = <<v>>
    <2>1. vs = [i \in 1 .. 1 |-> v]
      BY DEF Queue!ValuesOf
    <2>2. [i \in 1 .. 1 |-> v] = <<v>>
      <3>1. [i \in 1 .. 1 |-> v] \in Seq(Inbound) /\ Len([i \in 1 .. 1 |-> v]) = 1
        OBVIOUS
      <3>2. <<v>> \in Seq(Inbound) /\ Len(<<v>>) = 1 /\ <<v>>[1] = v
        OBVIOUS
      <3> QED BY <3>1, <3>2, SeqEqual
    <2> QED BY <2>1, <2>2
  <1>3. SubSeq(<<v>>, 1, 0) = <<>> /\ SubSeq(<<v>>, 1, 1) = <<v>>
    <2>1. <<v>> \in Seq(Inbound) /\ Len(<<v>>) = 1
      OBVIOUS
    <2>2. SubSeq(<<v>>, 1, Len(<<v>>)) = <<v>>
      BY <2>1, SubSeqFull
    <2> QED BY <2>1, <2>2
  <1>4. left \o <<v>> = Append(left, v) /\ out \o <<>> = out
    BY ConcatEmptySeq, AppendIsConcat
  <1>5. Len(<<>>) = 0 /\ SubSeq(<<>>, 1, 0) = <<>>
    OBVIOUS
  <1>6. 0 + 1 = 1 /\ 1 + 1 = 2 /\ ~(1 <= 0) /\ 1 <= 1
    OBVIOUS
  <1> HIDE DEF w, vs
  <1>7. QueueWriters = w /\ vs = Queue!ValuesOf(w)
    BY DEF w, vs
  <1> QED BY <1>1, <1>2, <1>3, <1>4, <1>5, <1>6, <1>7 DEF Queue!AdmitWriters

\* The dispatcher comes back to its loop in a session that is up: shift().
LEMMA ShiftIsQueueStep ==
    ASSUME SessionInv, UNCHANGED <<handled, dispatch, held>>,
           dispatcher # "shift", dispatcher' = "shift", ~aborted, ~aborted',
           ~ShuttingDown, ~ShuttingDown'
    PROVE  [Queue!Next]_(Queue!vars)
  <1>0. /\ dispatch \in Seq(NumberedFrame) /\ handled \in Seq(Inbound)
        /\ held \in NumberedFrame \cup {NoFrame}
    BY DEF SessionInv, TypeOK
  <1>1. ~Taking /\ QueueItems = Ids(dispatch) /\ QueueTaken = handled /\ QueueReaders = <<>>
    BY DEF Taking, QueueItems, QueueTaken, QueueReaders
  <1>2. UNCHANGED <<ShuttingDown, QueueOffered, AfterShift>> /\ QueueRefused = {} /\ QueueRefused' = {}
    <2>1. UNCHANGED ShuttingDown
      BY DEF ShuttingDown
    <2> QED BY <2>1 DEF QueueOffered, HeldIds, AfterShift, QueueRefused
  <1>3. "dispatcher" \notin Queue!ParkedConsumers
    BY <1>1 DEF Queue!ParkedConsumers, Queue!Elems
  <1>4. CASE dispatch = <<>>
    <2>1. held = NoFrame
      BY <1>4, NeverBothParked
    <2>2. QueueItems = <<>> /\ QueueWriters = <<>> /\ QueueWriters' = <<>>
      BY <1>1, <1>4, <2>1, IdsEmpty DEF QueueWriters
    <2>3. ~Taking'
      BY <1>4 DEF Taking
    <2>4. QueueItems' = <<>> /\ QueueTaken' = QueueTaken /\ QueueReaders' = <<"dispatcher">>
      BY <1>1, <1>4, <2>3, IdsEmpty DEF QueueItems, QueueTaken, QueueReaders
    <2>5. Append(<<>>, "dispatcher") = <<"dispatcher">>
      OBVIOUS
    <2>6. Queue!Shift("dispatcher")
      BY <1>1, <1>2, <1>3, <2>2, <2>4, <2>5 DEF Queue!Shift
    <2> QED BY <2>6 DEF Queue!Next
  <1>5. CASE dispatch # <<>>
    <2>1. Taking'
      BY <1>5 DEF Taking
    <2>2. /\ Head(dispatch) \in NumberedFrame /\ Tail(dispatch) \in Seq(NumberedFrame)
          /\ Ids(dispatch) # <<>> /\ Head(Ids(dispatch)) = Head(dispatch).id
          /\ Tail(Ids(dispatch)) = Ids(Tail(dispatch))
      BY <1>0, <1>5, IdsTail, HeadTailProperties
    <2>3. QueueReaders' = <<>> /\ QueueWriters' = <<>>
      BY <2>1 DEF QueueReaders, QueueWriters
    <2>4. QueueTaken' = Append(QueueTaken, Head(QueueItems)) /\ QueueItems' = Ids(AfterShift)
      BY <1>1, <1>2, <2>1, <2>2 DEF QueueTaken, QueueItems
    <2>5. Tail(QueueItems) \in Seq(Inbound) /\ Append(QueueTaken, Head(QueueItems)) \in Seq(Inbound)
      <3>1. Ids(Tail(dispatch)) \in Seq(Inbound)
        BY <2>2, IdsOf
      <3>2. Head(dispatch).id \in Inbound
        BY <2>2 DEF NumberedFrame
      <3>3. Append(handled, Head(dispatch).id) \in Seq(Inbound)
        BY <1>0, <3>2
      <3> QED BY <1>1, <2>2, <3>1, <3>3
    <2>6. CASE held = NoFrame
      <3>1. QueueWriters = <<>> /\ QueueItems' = Tail(QueueItems)
        BY <1>1, <2>2, <2>4, <2>6 DEF QueueWriters, AfterShift
      <3>2. Queue!AdmitWriters(1, Tail(QueueItems), Append(QueueTaken, Head(QueueItems)))
        BY <1>1, <2>3, <2>4, <2>5, <3>1, AdmitNobody
      <3> QED BY <1>1, <1>2, <1>3, <2>2, <3>2 DEF Queue!Shift, Queue!Next
    <2>7. CASE held # NoFrame
      <3>1. held \in NumberedFrame /\ held.id \in Inbound
        BY <1>0, <2>7 DEF NumberedFrame
      <3>2. Ids(AfterShift) = Append(Ids(Tail(dispatch)), held.id)
        BY <2>2, <2>7, <3>1, IdsAppend DEF AfterShift
      <3>3. /\ QueueWriters = <<[who |-> "reader", value |-> held.id]>>
            /\ QueueItems' = Append(Tail(QueueItems), held.id)
        BY <1>1, <2>2, <2>4, <2>7, <3>2 DEF QueueWriters
      <3>4. Queue!AdmitWriters(1, Tail(QueueItems), Append(QueueTaken, Head(QueueItems)))
        BY <1>1, <2>3, <2>4, <2>5, <3>1, <3>3, AdmitHeld
      <3> QED BY <1>1, <1>2, <1>3, <2>2, <3>4 DEF Queue!Shift, Queue!Next
    <2> QED BY <2>6, <2>7
  <1> QED BY <1>4, <1>5

\* The reader pushes a request or an event: push().
LEMMA PushIsQueueStep ==
    ASSUME SessionInv, NEW f \in NumberedFrame, f.id = Len(handled) + Len(dispatch) + 1,
           held = NoFrame, ~aborted, ~aborted', ~ShuttingDown, ~ShuttingDown',
           UNCHANGED <<handled, dispatcher>>,
           IF Len(dispatch) < DispatchCapacity
           THEN dispatch' = Append(dispatch, f) /\ UNCHANGED held
           ELSE held' = f /\ UNCHANGED dispatch
    PROVE  [Queue!Next]_(Queue!vars)
  <1>0. /\ dispatch \in Seq(NumberedFrame) /\ handled \in Seq(Inbound)
        /\ Len(dispatch) \in Nat /\ Len(handled) \in Nat
        /\ DispatchCapacity \in Nat \ {0} /\ Len(dispatch) <= DispatchCapacity
    BY DispatchAssumption DEF SessionInv, TypeOK, HoldInv
  <1>1. f # NoFrame /\ f.id \in Inbound
    BY DEF NumberedFrame, NoFrame
  <1> DEFINE v == QueueOffered + 1
  <1>2. v = f.id /\ v <= MaxInbound
    <2>1. Len(HeldIds) = 0
      BY DEF HeldIds
    <2>2. QueueOffered = Len(handled) + Len(dispatch)
      BY <1>0, <2>1 DEF QueueOffered
    <2> QED BY <1>1, <2>2, BoundsAssumption DEF Inbound
  <1>3. QueueWriters = <<>> /\ QueueRefused = {} /\ QueueRefused' = {} /\ UNCHANGED ShuttingDown
    BY DEF QueueWriters, QueueRefused, ShuttingDown
  <1>4. "reader" \notin Queue!ParkedProducers
    BY <1>3 DEF Queue!ParkedProducers
  <1>5. QueueOffered' = v
    <2>1. CASE Len(dispatch) < DispatchCapacity
      <3>1. Len(dispatch') = Len(dispatch) + 1 /\ HeldIds' = HeldIds /\ Len(HeldIds) = 0
        BY <1>0, <2>1 DEF HeldIds
      <3> QED BY <1>0, <3>1 DEF QueueOffered
    <2>2. CASE ~(Len(dispatch) < DispatchCapacity)
      <3>1. Len(HeldIds) = 0 /\ Len(HeldIds') = 1 /\ dispatch' = dispatch
        BY <1>1, <2>2 DEF HeldIds
      <3> QED BY <1>0, <3>1 DEF QueueOffered
    <2> QED BY <2>1, <2>2
  <1> HIDE DEF v
  <1> DEFINE handed == /\ QueueReaders # <<>>
                       /\ QueueReaders' = Tail(QueueReaders)
                       /\ QueueTaken' = Append(QueueTaken, v)
                       /\ UNCHANGED <<QueueItems, QueueWriters>>
             buffered == /\ QueueReaders = <<>> /\ Len(QueueItems) < DispatchCapacity
                         /\ QueueItems' = Append(QueueItems, v)
                         /\ UNCHANGED <<QueueReaders, QueueTaken, QueueWriters>>
             parked == /\ QueueReaders = <<>> /\ Len(QueueItems) >= DispatchCapacity
                       /\ QueueWriters' = Append(QueueWriters, [who |-> "reader", value |-> v])
                       /\ UNCHANGED <<QueueItems, QueueReaders, QueueTaken>>
  <1>6. handed \/ buffered \/ parked => Queue!Push("reader")
    BY <1>2, <1>3, <1>4, <1>5 DEF Queue!Push, Queue!HandToReader, Queue!Buffer, v
  <1>7. Queue!Push("reader") => Queue!Next
    BY DEF Queue!Next
  <1>8. CASE dispatcher = "shift" /\ dispatch = <<>>
    <2>1. Len(dispatch) = 0 /\ Len(dispatch) < DispatchCapacity
      BY <1>0, <1>8
    <2>2. dispatch' = Append(<<>>, f) /\ held' = NoFrame
      BY <1>8, <2>1
    <2>3. dispatch' # <<>> /\ Head(dispatch') = f /\ Tail(dispatch') = <<>>
      BY <2>2
    <2>4. ~Taking /\ Taking'
      BY <1>8, <2>3 DEF Taking
    <2>5. QueueReaders = <<"dispatcher">> /\ QueueReaders' = <<>> /\ QueueWriters' = <<>>
      BY <1>8, <2>2, <2>4 DEF QueueReaders, QueueWriters
    <2>6. QueueItems = <<>> /\ QueueItems' = <<>>
      BY <1>8, <2>2, <2>3, <2>4, IdsEmpty DEF QueueItems, AfterShift
    <2>7. QueueTaken' = Append(QueueTaken, v)
      BY <1>2, <2>3, <2>4 DEF QueueTaken
    <2>8. Tail(<<"dispatcher">>) = <<>> /\ <<"dispatcher">> # <<>>
      OBVIOUS
    <2>9. handed
      BY <1>3, <2>5, <2>6, <2>7, <2>8
    <2> QED BY <1>6, <1>7, <2>9
  <1>9. CASE Taking
    <2>1. /\ dispatcher = "shift" /\ dispatch # <<>>
          /\ Head(dispatch) \in NumberedFrame /\ Tail(dispatch) \in Seq(NumberedFrame)
          /\ Len(Tail(dispatch)) = Len(dispatch) - 1
      BY <1>0, <1>9, HeadTailProperties DEF Taking
    <2>2. QueueItems = Ids(Tail(dispatch)) /\ QueueReaders = <<>>
      BY <1>9 DEF QueueItems, AfterShift, QueueReaders
    <2>3. Len(QueueItems) < DispatchCapacity
      <3>1. Len(QueueItems) = Len(dispatch) - 1
        BY <2>1, <2>2, IdsOf
      <3> QED BY <1>0, <3>1, SMTT(30)
    <2>4. /\ dispatch' # <<>> /\ Head(dispatch') = Head(dispatch)
          /\ AfterShift' = Append(Tail(dispatch), f)
      <3>1. CASE Len(dispatch) < DispatchCapacity
        <4>1. dispatch' = Append(dispatch, f) /\ held' = NoFrame
          BY <3>1
        <4>2. /\ dispatch' # <<>> /\ Head(dispatch') = Head(dispatch)
              /\ Tail(dispatch') = Append(Tail(dispatch), f)
          BY <1>0, <2>1, <4>1, HeadTailAppend, AppendProperties
        <4> QED BY <4>1, <4>2, SMTT(30) DEF AfterShift
      <3>2. CASE ~(Len(dispatch) < DispatchCapacity)
        BY <1>1, <2>1, <3>2 DEF AfterShift
      <3> QED BY <3>1, <3>2
    <2>5. Taking'
      BY <2>1, <2>4 DEF Taking
    <2>6. QueueItems' = Append(QueueItems, v)
      BY <1>2, <2>1, <2>2, <2>4, <2>5, IdsAppend DEF QueueItems
    <2>7. QueueReaders' = <<>> /\ QueueWriters' = <<>> /\ QueueTaken' = QueueTaken
      BY <1>9, <2>4, <2>5 DEF QueueReaders, QueueWriters, QueueTaken
    <2>8. buffered
      BY <1>3, <2>2, <2>3, <2>6, <2>7
    <2> QED BY <1>6, <1>7, <2>8
  <1>10. CASE dispatcher # "shift"
    <2>1. ~Taking /\ ~Taking'
      BY <1>10 DEF Taking
    <2>2. /\ QueueItems = Ids(dispatch) /\ QueueItems' = Ids(dispatch') /\ QueueReaders = <<>>
          /\ UNCHANGED <<QueueReaders, QueueTaken>>
      BY <1>10, <2>1 DEF QueueItems, QueueReaders, QueueTaken
    <2>3. Len(QueueItems) = Len(dispatch)
      BY <1>0, <2>2, IdsOf
    <2>4. CASE Len(dispatch) < DispatchCapacity
      <3>1. dispatch' = Append(dispatch, f) /\ held' = NoFrame
        BY <2>4
      <3>2. QueueItems' = Append(QueueItems, v) /\ QueueWriters' = <<>>
        BY <1>0, <1>2, <2>2, <3>1, IdsAppend DEF QueueWriters
      <3>3. buffered
        BY <1>3, <2>2, <2>3, <2>4, <3>2
      <3> QED BY <1>6, <1>7, <3>3
    <2>5. CASE ~(Len(dispatch) < DispatchCapacity)
      <3>1. held' = f /\ held' # NoFrame /\ dispatch' = dispatch
        BY <1>1, <2>5
      <3>2. QueueWriters' = <<[who |-> "reader", value |-> v]>> /\ QueueItems' = QueueItems
        BY <1>2, <2>1, <2>2, <3>1 DEF QueueWriters
      <3>3. Append(<<>>, [who |-> "reader", value |-> v]) = <<[who |-> "reader", value |-> v]>>
        OBVIOUS
      <3>4. Len(QueueItems) >= DispatchCapacity
        BY <1>0, <2>3, <2>5
      <3>5. parked
        BY <1>3, <2>2, <3>2, <3>3, <3>4
      <3> QED BY <1>6, <1>7, <3>5
    <2> QED BY <2>4, <2>5
  <1> QED BY <1>8, <1>9, <1>10 DEF Taking

\* The dispatcher goes on with the frame that its shift() has already got.
LEMMA TakeIsNoQueueStep ==
    ASSUME SessionInv, DispatcherShifts
    PROVE  UNCHANGED Queue!vars
  <1>0. /\ dispatch \in Seq(NumberedFrame) /\ handled \in Seq(Inbound)
        /\ Len(handled) \in Nat
    BY DEF SessionInv, TypeOK
  <1>1. /\ dispatch # <<>> /\ dispatcher = "shift" /\ dispatcher' = "handling"
        /\ handled' = Append(handled, Head(dispatch).id) /\ dispatch' = AfterShift
        /\ held' = NoFrame /\ UNCHANGED sessionVars
    BY DEF DispatcherShifts
  <1>2. Taking /\ ~Taking' /\ UNCHANGED <<aborted, ShuttingDown>>
    BY <1>1 DEF Taking, sessionVars, ShuttingDown
  <1>3. UNCHANGED <<QueueItems, QueueReaders, QueueWriters, QueueTaken, QueueRefused>>
    BY <1>1, <1>2 DEF QueueItems, QueueReaders, QueueWriters, QueueTaken, QueueRefused
  <1>4. UNCHANGED QueueOffered
    <2>1. /\ Head(dispatch) \in NumberedFrame /\ Tail(dispatch) \in Seq(NumberedFrame)
          /\ Len(Tail(dispatch)) = Len(dispatch) - 1 /\ Len(dispatch) \in Nat
      BY <1>0, <1>1, HeadTailProperties
    <2>2. Len(handled') = Len(handled) + 1
      <3>1. Head(dispatch).id \in Inbound
        BY <2>1 DEF NumberedFrame
      <3> QED BY <1>0, <1>1, <3>1, AppendProperties
    <2>3. Len(HeldIds') = 0
      BY <1>1 DEF HeldIds
    <2>4. Len(dispatch') = Len(dispatch) - 1 + Len(HeldIds) /\ Len(HeldIds) \in Nat
      <3>1. CASE held = NoFrame
        <4>1. Len(HeldIds) = 0 /\ dispatch' = Tail(dispatch)
          BY <1>1, <3>1 DEF HeldIds, AfterShift
        <4> QED BY <2>1, <4>1
      <3>2. CASE held # NoFrame
        <4>1. Len(HeldIds) = 1 /\ dispatch' = Append(Tail(dispatch), held)
          BY <1>1, <3>2 DEF HeldIds, AfterShift
        <4>2. held \in NumberedFrame
          BY <3>2 DEF SessionInv, TypeOK
        <4>3. Len(dispatch') = Len(Tail(dispatch)) + 1
          BY <2>1, <4>1, <4>2, AppendProperties
        <4> QED BY <2>1, <4>1, <4>3
      <3> QED BY <3>1, <3>2
    <2> QED BY <1>0, <2>1, <2>2, <2>3, <2>4 DEF QueueOffered
  <1> QED BY <1>2, <1>3, <1>4 DEF Queue!vars

\* The next request or event on the wire is the next one to be received.
LEMMA NextToReceive ==
    ASSUME SessionInv, inbound # <<>>, Head(inbound) \in NumberedFrame, held = NoFrame
    PROVE  Head(inbound).id = Len(handled) + Len(dispatch) + 1
  <1> DEFINE n == Len(handled) + Len(dispatch)
             f == Head(inbound)
  <1>1. n \in Nat /\ peerSent \in Nat /\ inbound \in Seq(Frame) /\ n + 0 = n
    <2>1. Len(handled) \in Nat /\ Len(dispatch) \in Nat
      BY DEF SessionInv, TypeOK
    <2> QED BY <2>1, BoundsAssumption DEF SessionInv, TypeOK
  <1>2. /\ \A i \in OnTheWire : inbound[i].id \in n + 1 .. peerSent
        /\ \A q \in n + 1 .. peerSent : \E i \in OnTheWire : inbound[i].id = q
        /\ \A i, j \in OnTheWire : i < j => inbound[i].id < inbound[j].id
    BY <1>1 DEF SessionInv, FlowInv
  <1>3. /\ f = inbound[1] /\ 1 \in OnTheWire
        /\ \A i \in OnTheWire : i \in Nat \ {0}
    BY <1>1 DEF OnTheWire
  <1> HIDE DEF n, f
  <1>4. f.id \in n + 1 .. peerSent
    BY <1>2, <1>3
  <1>5. n + 1 \in n + 1 .. peerSent
    BY <1>1, <1>4
  <1>6. PICK i \in OnTheWire : inbound[i].id = n + 1
    BY <1>2, <1>5
  <1>7. i # 1 => f.id < n + 1
    BY <1>2, <1>3, <1>6
  <1>8. f.id = n + 1
    BY <1>1, <1>3, <1>4, <1>6, <1>7
  <1> QED BY <1>8 DEF n, f

\* Every step of the session is one step of the queue, or none.
LEMMA QueueStep ==
    SessionInv /\ SessionInv' /\ [Next]_vars => [Queue!Next]_(Queue!vars)
  <1> SUFFICES ASSUME SessionInv, SessionInv', [Next]_vars
               PROVE  [Queue!Next]_(Queue!vars)
    OBVIOUS
  <1> USE DEF sessionVars, linkVars, workerVars, callVars, replyVars
  <1>0. /\ aborted \in BOOLEAN /\ aborted' \in BOOLEAN
        /\ ShuttingDown => aborted
        /\ ShuttingDown' => aborted'
    BY DEF SessionInv, TypeOK, LifeInv, ShuttingDown
  <1>1. ASSUME UNCHANGED <<handled, dispatch, held>>,
               (dispatcher = "shift" <=> dispatcher' = "shift") \/ (aborted /\ dispatch = <<>>),
               aborted => aborted', ShuttingDown => ShuttingDown'
        PROVE  [Queue!Next]_(Queue!vars)
    BY <1>0, <1>1, StopIsQueueStep
  <1>2. CASE StopRequested \/ LateAudioFailure \/ \E f \in BOOLEAN : MonitorEnds(f)
    BY <1>1, <1>2, StopAborts DEF StopRequested, LateAudioFailure, MonitorEnds, ShuttingDown
  <1>3. CASE Outgoing
    BY <1>1, <1>3, ZenonT(40) DEF Outgoing, AppRequest, HandlerRequests, Request, SendCompletes,
       SendFails, CancelPending, ShuttingDown
  <1>4. CASE Peer
    BY <1>1, <1>4 DEF Peer, PeerOffers, PeerAnswers, PeerSendsGarbage, LinkEnds, ShuttingDown
  <1>5. CASE ReaderReceives
    <2> DEFINE f == Head(inbound)
    <2>1. /\ ~aborted /\ reader = "receive" /\ inbound # <<>> /\ UNCHANGED <<handled, dispatcher>>
          /\ ShuttingDown' <=> ShuttingDown
      BY <1>5 DEF ReaderReceives, ShuttingDown
    <2>2. CASE f.kind \in {"garbage", "response"}
      <3>1. UNCHANGED <<dispatch, held>>
        BY <1>5, <2>2 DEF ReaderReceives
      <3> QED BY <1>1, <2>1, <3>1
    <2>3. CASE f.kind \in {"request", "event"}
      <3>1. f \in NumberedFrame
        <4>1. f \in Frame
          BY <2>1 DEF SessionInv, TypeOK
        <4> QED BY <2>3, <4>1 DEF Frame, NumberedFrame
      <3>2. held = NoFrame
        BY <2>1 DEF SessionInv, HoldInv
      <3>3. f.id = Len(handled) + Len(dispatch) + 1
        BY <2>1, <3>1, <3>2, NextToReceive
      <3>4. /\ ~aborted'
            /\ IF Len(dispatch) < DispatchCapacity
               THEN dispatch' = Append(dispatch, f) /\ UNCHANGED held
               ELSE held' = f /\ UNCHANGED dispatch
        <4>1. /\ UNCHANGED <<state, aborted, stopFailed>>
              /\ IF Len(dispatch) < DispatchCapacity
                 THEN dispatch' = Append(dispatch, Head(inbound)) /\ UNCHANGED held
                 ELSE held' = Head(inbound) /\ UNCHANGED dispatch
          BY <1>5, <2>3 DEF ReaderReceives
        <4> QED BY <2>1, <4>1
      <3> HIDE DEF f
      <3> QED BY <1>0, <2>1, <3>1, <3>2, <3>3, <3>4, PushIsQueueStep
    <2> QED BY <1>5, <2>2, <2>3 DEF ReaderReceives
  <1>6. CASE ReaderEnds \/ ReaderAborted
    BY <1>1, <1>6, StopAborts DEF ReaderEnds, ReaderAborted, ShuttingDown
  <1>7. CASE DispatcherShifts
    BY <1>7, TakeIsNoQueueStep
  <1>8. ASSUME UNCHANGED <<handled, dispatch, held, supervisor>>, dispatcher \in {"handling", "sending"},
               dispatcher' = IF aborted' THEN "done" ELSE "shift", aborted => aborted'
        PROVE  [Queue!Next]_(Queue!vars)
    <2>1. ShuttingDown' <=> ShuttingDown
      BY <1>8 DEF ShuttingDown
    <2>2. CASE aborted'
      BY <1>1, <1>8, <2>1, <2>2
    <2>3. CASE ~aborted'
      BY <1>0, <1>8, <2>1, <2>3, ShiftIsQueueStep
    <2> QED BY <2>2, <2>3
  <1>9. ASSUME NEW how \in {"result", "terminal", "nothing", "throws"}, HandlerEnds(how)
        PROVE  [Queue!Next]_(Queue!vars)
    <2>1. UNCHANGED <<handled, dispatch, held, supervisor, aborted>> /\ dispatcher = "handling"
      BY <1>9 DEF HandlerEnds, HandlerRuns
    <2>2. dispatcher' = "sending" \/ dispatcher' = IF aborted THEN "done" ELSE "shift"
      BY <1>9 DEF HandlerEnds, Resume
    <2>3. ShuttingDown' <=> ShuttingDown
      BY <2>1 DEF ShuttingDown
    <2> QED BY <1>1, <1>8, <2>1, <2>2, <2>3
  <1>10. ASSUME NEW p \in replying, ReplyCompletes(p) \/ ReplyFails(p)
         PROVE  [Queue!Next]_(Queue!vars)
    <2>1. UNCHANGED <<handled, dispatch, held, supervisor>> /\ AfterReply(p)
      BY <1>10 DEF ReplyCompletes, ReplyFails
    <2>2. aborted => aborted'
      BY <1>10, StopAborts DEF ReplyCompletes, ReplyFails
    <2>3. ShuttingDown' <=> ShuttingDown
      BY <2>1 DEF ShuttingDown
    <2>4. p.by # "background" => dispatcher = "sending"
      BY DEF SessionInv, WorkerInv
    <2>5. \/ dispatcher' = dispatcher
          \/ dispatcher = "sending" /\ dispatcher' = "handling"
          \/ dispatcher = "sending" /\ dispatcher' = IF aborted' THEN "done" ELSE "shift"
      BY <2>1, <2>4 DEF AfterReply
    <2> QED BY <1>1, <1>8, <2>1, <2>2, <2>3, <2>5
  <1>11. CASE DispatcherAborted
    BY <1>1, <1>11 DEF DispatcherAborted, ShuttingDown
  <1>12. CASE HandlerDefers \/ \E close \in BOOLEAN : HandlerResponds(close)
    BY <1>1, <1>12 DEF HandlerDefers, HandlerResponds, HandlerRuns, ShuttingDown
  <1>13. CASE \E q \in Inbound, close \in BOOLEAN : DeferredResponds(q, close)
    BY <1>1, <1>13 DEF DeferredResponds, ShuttingDown
  <1>14. CASE Dispatch
    BY <1>7, <1>9, <1>10, <1>11, <1>12, <1>13, <1>14 DEF Dispatch
  <1>15. CASE Supervise
    <2>1. UNCHANGED <<handled, dispatch, held>>
      BY <1>15 DEF Supervise, Run, FactoryReturns, FactoryFails, BeginReturns, BeginFails,
         StoppedWhileStarting, Stopped, AudioClosed, TransportClosed, WorkersJoined
    <2>2. ASSUME StartWorkers, supervisor \in {"idle", "factory"}, UNCHANGED aborted
          PROVE  [Queue!Next]_(Queue!vars)
      <3>1. ~ShuttingDown /\ ~ShuttingDown' /\ dispatcher # "shift"
        BY <2>2 DEF StartWorkers, ShuttingDown, SessionInv, WorkerInv
      <3>2. CASE aborted
        BY <1>1, <2>1, <2>2, <3>1, <3>2 DEF StartWorkers
      <3>3. CASE ~aborted
        BY <2>1, <2>2, <3>1, <3>3, ShiftIsQueueStep DEF StartWorkers
      <3> QED BY <3>2, <3>3
    <2>3. ASSUME UNCHANGED dispatcher, aborted => aborted', ShuttingDown => ShuttingDown'
          PROVE  [Queue!Next]_(Queue!vars)
      BY <1>1, <2>1, <2>3
    <2>4. ASSUME NEW how \in {"transport", "factory", "cancelled"}, Run(how)
          PROVE  [Queue!Next]_(Queue!vars)
      <3>1. CASE how = "transport"
        BY <2>2, <2>4, <3>1 DEF Run
      <3>2. CASE how # "transport"
        BY <2>3, <2>4, <3>2 DEF Run, ShuttingDown
      <3> QED BY <3>1, <3>2
    <2>5. CASE FactoryReturns
      BY <2>2, <2>5 DEF FactoryReturns
    <2>6. CASE FactoryFails \/ BeginFails \/ StoppedWhileStarting
      <3>1. UNCHANGED dispatcher /\ supervisor' = "closeAudio"
        BY <2>6 DEF FactoryFails, BeginFails, StoppedWhileStarting, CatchAndClose
      <3>2. aborted'
        BY <2>6, StopAborts DEF FactoryFails, BeginFails, StoppedWhileStarting, CatchAndClose
      <3> QED BY <2>3, <3>1, <3>2 DEF ShuttingDown
    <2>7. CASE BeginReturns \/ Stopped \/ WorkersJoined
      BY <2>3, <2>7 DEF BeginReturns, Stopped, WorkersJoined, ShuttingDown
    <2>8. ASSUME NEW ok \in BOOLEAN, AudioClosed(ok) \/ TransportClosed(ok)
          PROVE  [Queue!Next]_(Queue!vars)
      BY <2>3, <2>8 DEF AudioClosed, TransportClosed, ShuttingDown
    <2> QED BY <1>15, <2>4, <2>5, <2>6, <2>7, <2>8 DEF Supervise
  <1>16. CASE UNCHANGED vars
    BY <1>1, <1>16 DEF vars, ShuttingDown
  <1> QED BY <1>2, <1>3, <1>4, <1>5, <1>6, <1>14, <1>15, <1>16 DEF Next

\* The reader and the dispatcher of the session use #dispatch as AsyncQueue
\* allows, whatever stops the session and whenever: every step is a push, a
\* shift, the abort of a parked call, close(), or no step of the queue.
THEOREM DispatchIsQueueTheorem == Spec => DispatchIsQueue
  <1>1. Init => Queue!Init
    <2> SUFFICES ASSUME Init PROVE Queue!Init
      OBVIOUS
    <2>1. ~Taking /\ ~ShuttingDown
      BY DEF Init, Taking, ShuttingDown
    <2>2. QueueItems = <<>> /\ QueueReaders = <<>> /\ QueueWriters = <<>> /\ QueueRefused = {}
          /\ QueueTaken = <<>>
      BY <2>1, IdsEmpty DEF Init, QueueItems, QueueReaders, QueueWriters, QueueRefused, QueueTaken
    <2>3. QueueOffered = 0
      BY DEF Init, QueueOffered, HeldIds
    <2> QED BY <2>1, <2>2, <2>3 DEF Queue!Init, ShuttingDown
  <1> QED BY <1>1, QueueStep, SessionInvariant, PTL DEF Spec, DispatchIsQueue, Queue!Spec

-----------------------------------------------------------------------------
(* What the session inherits: the theorems about AsyncQueue, taken at the    *)
(* reader's and the dispatcher's view of #dispatch, hold of the session.     *)

QueueProofs == INSTANCE AsyncQueue_proofs WITH
    Capacity <- DispatchCapacity, MaxPush <- MaxInbound,
    Producers <- {"reader"}, Consumers <- {"dispatcher"},
    items <- QueueItems, readers <- QueueReaders, writers <- QueueWriters,
    closed <- ShuttingDown, offered <- QueueOffered, taken <- QueueTaken,
    dropped <- {}, refused <- QueueRefused

\* The two instances of AsyncQueue, by its name and through its proofs, are one.
LEMMA SameQueue == Queue!Spec => QueueProofs!Spec
  <1>1. Queue!Init => QueueProofs!Init
    BY SMTT(30) DEF Queue!Init, QueueProofs!Init
  <1>2. [Queue!Next]_(Queue!vars) => [QueueProofs!Next]_(QueueProofs!vars)
    BY DEF Queue!Next, QueueProofs!Next, Queue!vars, QueueProofs!vars, Queue!TryPush,
       QueueProofs!TryPush, Queue!Push, QueueProofs!Push, Queue!HandToReader,
       QueueProofs!HandToReader, Queue!Buffer, QueueProofs!Buffer, Queue!Shift,
       QueueProofs!Shift, Queue!AdmitWriters, QueueProofs!AdmitWriters, Queue!ValuesOf,
       QueueProofs!ValuesOf, Queue!AbortWriter, QueueProofs!AbortWriter, Queue!Without,
       QueueProofs!Without, Queue!AbortReader, QueueProofs!AbortReader, Queue!Close,
       QueueProofs!Close, Queue!Elems, QueueProofs!Elems, Queue!Clear, QueueProofs!Clear,
       Queue!ParkedProducers, QueueProofs!ParkedProducers, Queue!ParkedConsumers,
       QueueProofs!ParkedConsumers
  <1> QED BY <1>1, <1>2, PTL DEF Queue!Spec, QueueProofs!Spec

\* #dispatch keeps for its two callers what AsyncQueue promises, whatever stops
\* the session and whenever.  #readControl waits for room only behind a full
\* queue and #dispatchControl only when nothing is queued or parked, so never
\* both; every frame offered is taken, queued, parked with the reader or refused
\* to it by the stop, in one of these only, and in the order received.
THEOREM DispatchKeepsPromises ==
    Spec => [](Queue!ParkedOnlyWhenBlocked /\ Queue!CallOrder /\ Queue!Accounted)
  <1>0. QueueProofs!Spec => []QueueProofs!ParkedOnlyWhenBlocked
    BY QueueProofs!NoLostWakeup, DispatchAssumption, BoundsAssumption
  <1>1. QueueProofs!Spec => []QueueProofs!CallOrder
    BY QueueProofs!CallOrderTheorem, DispatchAssumption, BoundsAssumption
  <1>2. QueueProofs!Spec => []QueueProofs!Accounted
    BY QueueProofs!AccountedTheorem, DispatchAssumption, BoundsAssumption
  <1>3. QueueProofs!CallOrder => Queue!CallOrder
    BY DEF Queue!CallOrder, QueueProofs!CallOrder, Queue!Pipeline, QueueProofs!Pipeline,
       Queue!ValuesOf, QueueProofs!ValuesOf
  <1>4. QueueProofs!Accounted => Queue!Accounted
    BY DEF Queue!Accounted, QueueProofs!Accounted, Queue!OneFate, QueueProofs!OneFate,
       Queue!Pipeline, QueueProofs!Pipeline, Queue!ValuesOf, QueueProofs!ValuesOf,
       Queue!Elems, QueueProofs!Elems, Queue!TypeOK, QueueProofs!TypeOK, Queue!Value,
       QueueProofs!Value, Queue!Writer, QueueProofs!Writer
  <1>5. QueueProofs!ParkedOnlyWhenBlocked => Queue!ParkedOnlyWhenBlocked
    BY DEF Queue!ParkedOnlyWhenBlocked, QueueProofs!ParkedOnlyWhenBlocked
  <1> QED BY <1>0, <1>1, <1>2, <1>3, <1>4, <1>5, SameQueue, DispatchIsQueueTheorem, PTL
          DEF DispatchIsQueue
=============================================================================
