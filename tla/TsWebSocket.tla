----------------------------- MODULE TsWebSocket -----------------------------
(***************************************************************************)
(* A client connection of the TypeScript SDK over one WebSocket: the dial   *)
(* of the transport factories (node.ts, browser_socket.ts), the two socket  *)
(* adapters, WebSocketTransport with its write chain, its inbound queues    *)
(* and its keepalive monitor (websocket.ts), and as much of the session as  *)
(* uses them: it reads until EOF, writes, and closes the transport once.    *)
(*                                                                          *)
(* The socket itself (ws, or the browser's) is external: its ready state    *)
(* and its events are what the adapters rely on.  Messages are numbered per *)
(* direction and kind.  A ping carries a serial number; what the monitor    *)
(* tells apart is whether a pong answers the last ping ("fresh") or an      *)
(* earlier one ("stale"), so the serial itself is not kept.                 *)
(***************************************************************************)
EXTENDS Integers, Sequences

CONSTANTS
    Capacity,      \* inboundCapacity
    HighWater,     \* highWaterMarkBytes of the browser adapter, in messages
    MaxMisses,     \* policy.maxMisses
    MaxSends,      \* bound: messages the session sends
    MaxArrivals    \* bound: messages of each kind the peer sends

ASSUME WebSocketAssumption ==
    /\ Capacity \in Nat \ {0} /\ HighWater \in Nat \ {0} /\ MaxMisses \in Nat \ {0}
    /\ MaxSends \in Nat /\ MaxArrivals \in Nat

Kinds == {"text", "binary"}
Ping == 0              \* a ping in the write chain; sends are 1, 2, ...

VARIABLES
    platform,   \* the adapter in use: node or browser
    phase,      \* the transport factory: dial, failing, failed, or up
    sock,       \* readyState
    adapter,    \* #closePromise of the adapter: idle, flush, closing, or
                \* errored (resolved by an error event)
    downBy,     \* history: who took the socket out of open
    buffered,   \* bufferedAmount (browser)
    \* WebSocketTransport
    shut,       \* #closed
    live,       \* the listeners in #detach are attached and the queues open
    tail,       \* writes chained behind #writeTail, the running one first
    mending,    \* the chain awaits the #finish of a failed write
    closer,     \* close(): no, tail, socket, done
    sent,       \* sends accepted so far
    written,    \* sends the socket has taken
    rejected,   \* sends whose promise was rejected
    arrived,    \* messages received since the listeners were attached
    queue,      \* #controls and #binary
    got,        \* messages handed to readers
    cleared,    \* frames clearBinary has counted
    \* monitorKeepalive
    ka, misses, pongs,
    \* the peer and the session
    alive,      \* the peer still answers
    owed,       \* pings it has not answered yet
    sess

socketVars == <<sock, adapter, downBy, buffered>>
writeVars == <<tail, mending, sent, written, rejected>>
readVars == <<arrived, queue, got, cleared>>
kaVars == <<ka, misses, pongs, owed>>
vars == <<platform, phase, socketVars, shut, live, closer, writeVars, readVars, kaVars, alive, sess>>

Init ==
    /\ platform \in {"node", "browser"} /\ phase = "dial"
    /\ sock = "connecting" /\ adapter = "idle" /\ downBy = "none" /\ buffered = 0
    /\ shut = FALSE /\ live = FALSE /\ closer = "no"
    /\ tail = <<>> /\ mending = FALSE /\ sent = 0 /\ written = <<>> /\ rejected = {}
    /\ arrived = [k \in Kinds |-> 0] /\ queue = [k \in Kinds |-> <<>>]
    /\ got = [k \in Kinds |-> <<>>] /\ cleared = 0
    /\ ka = "off" /\ misses = 0 /\ pongs = <<>> /\ owed = <<>>
    /\ alive = TRUE /\ sess = "none"

-----------------------------------------------------------------------------
(* The socket and its adapters *)

\* The socket leaves open, on behalf of by.
Down(to, by) ==
    /\ sock' = to
    /\ downBy' = IF sock = "open" THEN by ELSE downBy

\* close() of NodeSocketAdapter: terminate a dial, start the handshake
\* otherwise; resolved by the close event or by an error event before it
\* (SocketError).  A second call shares the promise.
NodeAdapterClose(by) ==
    IF adapter # "idle" \/ sock = "closed"
    THEN UNCHANGED <<sock, downBy, adapter>>
    ELSE adapter' = "closing" /\ Down("closing", by)

\* close() of BrowserSocketAdapter: let the send buffer drain first.
BrowserAdapterClose(by) ==
    IF adapter = "idle" /\ sock = "open" /\ buffered > 0
    THEN adapter' = "flush" /\ downBy' = by /\ UNCHANGED sock
    ELSE NodeAdapterClose(by)

AdapterClose(by) == IF platform = "node" THEN NodeAdapterClose(by) ELSE BrowserAdapterClose(by)

\* The browser adapter's polling loop ends and it starts the handshake.
AdapterFlushed ==
    /\ adapter = "flush" /\ (buffered = 0 \/ sock # "open")
    /\ adapter' = "closing"
    /\ IF sock = "open" THEN Down("closing", downBy) ELSE UNCHANGED <<sock, downBy>>
    /\ UNCHANGED <<platform, phase, buffered, shut, live, closer, writeVars, readVars, kaVars, alive, sess>>

\* The browser sends what it has buffered.
BufferDrains ==
    /\ buffered > 0
    /\ buffered' = buffered - 1
    /\ UNCHANGED <<platform, phase, sock, adapter, downBy, shut, live, closer, writeVars, readVars, kaVars, alive, sess>>

\* The peer starts the closing handshake.
PeerCloses ==
    /\ sock = "open" /\ alive
    /\ Down("closing", "peer")
    /\ UNCHANGED <<platform, phase, adapter, buffered, shut, live, closer, writeVars, readVars, kaVars, alive, sess>>

\* The peer stops answering without closing anything (a half-open connection).
PeerDies ==
    /\ sock = "open" /\ alive
    /\ alive' = FALSE
    /\ UNCHANGED <<platform, phase, socketVars, shut, live, closer, writeVars, readVars, kaVars, sess>>

\* Seeded fault: the close event does not reach the queues.
SocketClosedQuietly ==
    /\ phase = "up" /\ sock \in {"open", "closing"}
    /\ sock = "open" => alive
    /\ Down("closed", "peer")
    /\ buffered' = 0
    /\ UNCHANGED <<platform, phase, adapter, shut, live, closer, writeVars, readVars, kaVars, alive, sess>>

\* The close event: the handshake or its timer is over, or the connection is
\* gone.  The transport's listener runs #finishQueues.
SocketClosed ==
    /\ phase = "up" /\ sock \in {"open", "closing"}
    /\ sock = "open" => alive
    /\ Down("closed", "peer")
    /\ buffered' = 0
    /\ shut' = (shut \/ live) /\ live' = FALSE
    /\ UNCHANGED <<platform, phase, adapter, closer, writeVars, readVars, kaVars, alive, sess>>

\* The error event of ws, on a frame it cannot receive or a write that fails:
\* ws starts the closing handshake and its close event comes later.  The error
\* listeners run #finishQueues and resolve an adapter's close() under way.
SocketError ==
    /\ platform = "node" /\ phase = "up" /\ sock \in {"open", "closing"}
    /\ sock = "open" => alive
    /\ Down("closing", "peer")
    /\ adapter' = IF adapter = "closing" THEN "errored" ELSE adapter
    /\ shut' = (shut \/ live) /\ live' = FALSE
    /\ UNCHANGED <<platform, phase, buffered, closer, writeVars, readVars, kaVars, alive, sess>>

\* The promise of the adapter's close() has resolved.
AdapterDone == sock = "closed" \/ adapter = "errored"

-----------------------------------------------------------------------------
(* The factories *)

\* waitForNodeOpen resolves on the open event; the transport is constructed
\* and the session runs, with a keepalive monitor where there is one.
Opened ==
    /\ phase = "dial" /\ sock = "connecting"
    /\ phase' = "up" /\ sock' = "open" /\ live' = TRUE /\ sess' = "running"
    /\ ka' \in IF platform = "node" THEN {"off", "delay"} ELSE {"off"}
    /\ UNCHANGED <<platform, adapter, downBy, buffered, shut, closer, writeVars, readVars, misses, pongs, owed, alive>>

\* The error or close event comes first.  A dial that fails emits both at once,
\* so that adapter.close() finds the socket closed.
DialFails ==
    /\ phase = "dial" /\ sock = "connecting"
    /\ sock' = "closed" /\ phase' = "failed"
    /\ UNCHANGED <<platform, adapter, downBy, buffered, shut, live, closer, writeVars, readVars, kaVars, alive, sess>>

\* The caller aborts, or the timer fires: give the connection up and wait in
\* the factory's catch until the adapter has closed it.
DialGivenUp ==
    /\ phase = "dial" /\ sock = "connecting"
    /\ phase' = "failing" /\ AdapterClose("dial")
    /\ UNCHANGED <<platform, buffered, shut, live, closer, writeVars, readVars, kaVars, alive, sess>>

\* Seeded fault: the factory rejects without waiting for the adapter.
DialRejectsEarly ==
    /\ phase = "failing"
    /\ phase' = "failed"
    /\ UNCHANGED <<platform, socketVars, shut, live, closer, writeVars, readVars, kaVars, alive, sess>>

DialRejects ==
    /\ phase = "failing"
    /\ phase' = "failed" /\ sock' = "closed"
    /\ UNCHANGED <<platform, adapter, downBy, buffered, shut, live, closer, writeVars, readVars, kaVars, alive, sess>>

-----------------------------------------------------------------------------
(* WebSocketTransport: closing *)

\* #finish: unless already closed, close the queues and the socket.
Finish ==
    IF shut THEN UNCHANGED <<shut, live, sock, downBy, adapter>>
    ELSE shut' = TRUE /\ live' = FALSE /\ AdapterClose("finish")

\* close(), called by the session when it stops: no send is accepted any more.
CloseBegins == closer' = "tail" /\ shut' = TRUE

\* Seeded fault: the socket is closed without awaiting #writeTail.
CloseSocketAtOnce ==
    /\ closer = "tail"
    /\ closer' = "socket" /\ AdapterClose("close")
    /\ UNCHANGED <<platform, phase, buffered, shut, live, writeVars, readVars, kaVars, alive, sess>>

\* The chain has settled: close the socket.
CloseSocket ==
    /\ closer = "tail" /\ tail = <<>> /\ ~mending
    /\ closer' = "socket" /\ AdapterClose("close")
    /\ UNCHANGED <<platform, phase, buffered, shut, live, writeVars, readVars, kaVars, alive, sess>>

\* The adapter's close() has resolved: #finishQueues, and close() resolves.
CloseReturns ==
    /\ closer = "socket" /\ AdapterDone
    /\ closer' = "done" /\ live' = FALSE
    /\ UNCHANGED <<platform, phase, socketVars, shut, writeVars, readVars, kaVars, alive, sess>>

-----------------------------------------------------------------------------
(* WebSocketTransport: writing *)

\* sendText and sendBinary: #enqueue, which refuses once closed.
Send ==
    /\ phase = "up" /\ ~shut /\ sent < MaxSends
    /\ sent' = sent + 1 /\ tail' = Append(tail, sent + 1)
    /\ UNCHANGED <<platform, phase, socketVars, shut, live, closer, mending, written, rejected, readVars, kaVars, alive, sess>>

\* The socket takes the running write (the browser adapter polls until there
\* is room).  A ping leaves for the peer and the monitor waits for its pong:
\* every pong still under way is now stale.
Write ==
    /\ tail # <<>> /\ ~mending /\ sock = "open"
    /\ platform = "browser" => buffered < HighWater
    /\ tail' = Tail(tail)
    /\ buffered' = IF platform = "browser" THEN buffered + 1 ELSE 0
    /\ IF Head(tail) = Ping
       THEN /\ written' = written
            /\ owed' = Append([i \in DOMAIN owed |-> "stale"], "fresh")
            /\ pongs' = [i \in DOMAIN pongs |-> "stale"]
            /\ ka' = IF ka = "ping" THEN "wait" ELSE ka
       ELSE /\ written' = Append(written, Head(tail))
            /\ UNCHANGED <<owed, pongs, ka>>
    /\ UNCHANGED <<platform, phase, sock, adapter, downBy, shut, live, closer, mending, sent, rejected, readVars, misses, alive, sess>>

\* The running write finds the socket not open, or its callback reports the
\* failure: its caller is rejected and the chain runs #finish.
WriteFails ==
    /\ tail # <<>> /\ ~mending /\ sock # "open"
    /\ tail' = Tail(tail)
    /\ rejected' = IF Head(tail) = Ping THEN rejected ELSE rejected \cup {Head(tail)}
    /\ ka' = IF Head(tail) = Ping /\ ka = "ping" THEN "failed" ELSE ka
    /\ mending' = ~shut
    /\ Finish
    /\ UNCHANGED <<platform, phase, buffered, closer, sent, written, readVars, misses, pongs, owed, alive, sess>>

\* The socket.close() in that #finish resolves.
Mended ==
    /\ mending /\ AdapterDone
    /\ mending' = FALSE
    /\ UNCHANGED <<platform, phase, socketVars, shut, live, closer, tail, sent, written, rejected, readVars, kaVars, alive, sess>>

-----------------------------------------------------------------------------
(* WebSocketTransport: receiving *)

Arrival(k) == [arrived EXCEPT ![k] = @ + 1]
Admit(k) == [queue EXCEPT ![k] = Append(@, arrived[k] + 1)]

\* Seeded fault: a message that finds the queue full is dropped.
ReceiveDropping(k) ==
    /\ live /\ sock \in {"open", "closing"} /\ alive /\ arrived[k] < MaxArrivals
    /\ arrived' = Arrival(k)
    /\ queue' = IF Len(queue[k]) < Capacity THEN Admit(k) ELSE queue
    /\ UNCHANGED <<platform, phase, socketVars, shut, live, closer, writeVars, got, cleared, kaVars, alive, sess>>

\* The message listener: tryPush, and #finish when the queue is full.
Receive(k) ==
    /\ live /\ sock \in {"open", "closing"} /\ alive /\ arrived[k] < MaxArrivals
    /\ arrived' = Arrival(k)
    /\ IF Len(queue[k]) < Capacity
       THEN queue' = Admit(k) /\ UNCHANGED <<shut, live, sock, downBy, adapter>>
       ELSE queue' = queue /\ Finish
    /\ UNCHANGED <<platform, phase, buffered, closer, writeVars, got, cleared, kaVars, alive, sess>>

\* receiveControl and receiveBinary: a queue that was closed drains first.
Take(k) ==
    /\ queue[k] # <<>> /\ sess = "running"
    /\ got' = [got EXCEPT ![k] = Append(@, Head(queue[k]))]
    /\ queue' = [queue EXCEPT ![k] = Tail(@)]
    /\ UNCHANGED <<platform, phase, socketVars, shut, live, closer, writeVars, arrived, cleared, kaVars, alive, sess>>

\* clearBinary
ClearBinary ==
    /\ queue["binary"] # <<>>
    /\ cleared' = cleared + Len(queue["binary"])
    /\ queue' = [queue EXCEPT !["binary"] = <<>>]
    /\ UNCHANGED <<platform, phase, socketVars, shut, live, closer, writeVars, arrived, got, kaVars, alive, sess>>

-----------------------------------------------------------------------------
(* monitorKeepalive *)

\* delay() is over: chain a ping behind the writes, or fail when closed.
KaPings ==
    /\ ka = "delay"
    /\ IF shut THEN ka' = "failed" /\ tail' = tail
               ELSE ka' = "ping" /\ tail' = Append(tail, Ping)
    /\ UNCHANGED <<platform, phase, socketVars, shut, live, closer, mending, sent, written, rejected, readVars, misses, pongs, owed, alive, sess>>

\* The pong listener.
PongArrives ==
    /\ live /\ sock = "open" /\ alive /\ owed # <<>>
    /\ pongs' = Append(pongs, Head(owed)) /\ owed' = Tail(owed)
    /\ UNCHANGED <<platform, phase, socketVars, shut, live, closer, writeVars, readVars, ka, misses, alive, sess>>

\* Seeded fault: any pong answers.
AnyPong ==
    /\ ka = "wait" /\ pongs # <<>>
    /\ pongs' = Tail(pongs) /\ ka' = "delay" /\ misses' = 0
    /\ UNCHANGED <<platform, phase, socketVars, shut, live, closer, writeVars, readVars, owed, alive, sess>>

\* A pong is shifted: only the one with the expected serial answers.
KaPong ==
    /\ ka = "wait" /\ pongs # <<>>
    /\ pongs' = Tail(pongs)
    /\ IF Head(pongs) = "fresh" THEN ka' = "delay" /\ misses' = 0 ELSE UNCHANGED <<ka, misses>>
    /\ UNCHANGED <<platform, phase, socketVars, shut, live, closer, writeVars, readVars, owed, alive, sess>>

\* The deadline passes without the expected pong.
KaMiss ==
    /\ ka = "wait"
    /\ misses' = misses + 1
    /\ ka' = IF misses + 1 >= MaxMisses THEN "failed" ELSE "delay"
    /\ UNCHANGED <<platform, phase, socketVars, shut, live, closer, writeVars, readVars, pongs, owed, alive, sess>>

\* #finishQueues has closed the pong queue: shift() rejects.
KaQueueClosed ==
    /\ ka = "wait" /\ ~live /\ pongs = <<>>
    /\ ka' = "failed"
    /\ UNCHANGED <<platform, phase, socketVars, shut, live, closer, writeVars, readVars, misses, pongs, owed, alive, sess>>

-----------------------------------------------------------------------------
(* The session that owns the transport *)

\* It stops when its reader meets EOF, its monitor fails, or it is asked to;
\* the abort signal ends the monitor, and the transport is closed.
SessionStops(why) ==
    /\ sess = "running"
    /\ \/ why = "eof" /\ ~live /\ queue["text"] = <<>>
       \/ why = "keepalive" /\ ka = "failed"
       \/ why = "request"
    /\ sess' = "stopping"
    /\ ka' = IF ka = "off" THEN "off" ELSE "ended"
    /\ CloseBegins
    /\ UNCHANGED <<platform, phase, socketVars, live, writeVars, readVars, misses, pongs, owed, alive>>

\* transport.close() resolves, or closeTimeoutMs is over.
SessionEnds(timeout) ==
    /\ sess = "stopping" /\ (closer = "done" \/ timeout)
    /\ sess' = "ended"
    /\ UNCHANGED <<platform, phase, socketVars, shut, live, closer, writeVars, readVars, kaVars, alive>>

-----------------------------------------------------------------------------
\* The session is gone and nothing is left to settle.
Over ==
    /\ phase = "failed" \/ (sess = "ended" /\ closer = "done")
    /\ UNCHANGED vars

Next ==
    \/ Opened \/ DialFails \/ DialGivenUp \/ DialRejects
    \/ AdapterFlushed \/ BufferDrains \/ PeerCloses \/ PeerDies
    \/ SocketClosed \/ SocketError
    \/ CloseSocket \/ CloseReturns
    \/ Send \/ Write \/ WriteFails \/ Mended
    \/ \E k \in Kinds : Receive(k) \/ Take(k)
    \/ ClearBinary
    \/ KaPings \/ PongArrives \/ KaPong \/ KaMiss \/ KaQueueClosed
    \/ \E why \in {"eof", "keepalive", "request"} : SessionStops(why)
    \/ \E timeout \in BOOLEAN : SessionEnds(timeout)
    \/ Over

Spec == Init /\ [][Next]_vars

\* Promise reactions run and timers fire.  A closing handshake ends: ws and the
\* browsers drop the connection when the peer does not answer it.  A socket
\* that is open takes or fails each write.
FairSpec ==
    /\ Spec
    /\ WF_vars(DialRejects) /\ WF_vars(AdapterFlushed) /\ WF_vars(BufferDrains)
    /\ WF_vars(sock = "closing" /\ SocketClosed)
    /\ WF_vars(CloseSocket) /\ WF_vars(CloseReturns)
    /\ WF_vars(Write) /\ WF_vars(WriteFails) /\ WF_vars(Mended)
    /\ WF_vars(Take("text")) /\ WF_vars(SessionStops("eof"))
    /\ WF_vars(KaPings) /\ WF_vars(KaPong) /\ WF_vars(KaMiss) /\ WF_vars(KaQueueClosed)
    /\ WF_vars(SessionStops("keepalive")) /\ WF_vars(SessionEnds(FALSE))

-----------------------------------------------------------------------------
(* Properties *)

Elems(s) == {s[i] : i \in 1 .. Len(s)}
Upto(n) == [i \in 1 .. n |-> i]
Chained == Elems(tail) \ {Ping}

\* The write chain keeps order through failures, pings and closing: what the
\* socket has taken is the accepted sends up to some point without a gap, and
\* each later one is still chained or has been rejected to its caller.  And
\* close() flushes: a send fails only when the peer or an overflow has taken
\* the socket down before.
WriteOrder ==
    /\ written = Upto(Len(written))
    /\ rejected \cup Chained = (Len(written) + 1) .. sent
    /\ rejected \cap Chained = {}
    /\ rejected # {} => downBy \in {"peer", "finish"}

\* A burst that overflows an inbound queue ends the transport instead of
\* leaving a gap: until close() is called readers see every message in order,
\* and every frame is read, waiting or counted by a clear.
InboundExact ==
    closer = "no" =>
      LET seen(k) == got[k] \o queue[k] IN
      /\ seen("text") = Upto(Len(seen("text")))
      /\ \A i, j \in 1 .. Len(seen("binary")) : i < j => seen("binary")[i] < seen("binary")[j]
      /\ ~shut => /\ Len(seen("text")) = arrived["text"]
                  /\ Len(seen("binary")) + cleared = arrived["binary"]

\* Late pongs cannot pile up: because only the pong of the last ping answers,
\* at most maxMisses of them are under way or queued, so the monitor's queue
\* never refuses one.
PongBacklogBounded == Len(owed) + Len(pongs) <= MaxMisses

\* The factory rejects only once the connection it gave up is closed.  close()
\* resolves only with no write outstanding and the socket closed or, when ws has
\* reported an error, on its way: never with a socket that is still open.
NoSocketLeak ==
    /\ phase = "failed" => sock = "closed"
    /\ closer = "done" =>
          /\ sock = "closed" \/ (sock = "closing" /\ adapter = "errored" /\ platform = "node")
          /\ tail = <<>> /\ ~mending /\ ~live

\* A closed connection ends the session after what it received is read, a peer
\* that stops answering is detected where a monitor runs, and a session that
\* stops closes its socket, even when it did not wait for it.
ConnectionSettles ==
    /\ (phase = "up" /\ sock = "closed") ~> (sess = "ended")
    /\ (sess = "running" /\ ka # "off" /\ ~alive) ~> (sess = "ended")
    /\ (sess = "stopping" \/ phase = "failing") ~> (sock = "closed")
=============================================================================
