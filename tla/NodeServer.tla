------------------------------ MODULE NodeServer ------------------------------
(***************************************************************************)
(* NodeWebSocketServer of the TypeScript SDK (node.ts): listening, the      *)
(* admission of connections, the set of sessions the server owns, and       *)
(* close(), which ends them and then waits for the ws server.               *)
(*                                                                          *)
(* Of each session there is only its lifecycle: it ends by itself, because  *)
(* its transport tells it that the connection is closed, or because the     *)
(* server closes it (TsSession and TsWebSocket have the detail).  The ws    *)
(* and http servers are external: they emit one connection event per        *)
(* upgrade they accept, answer 503 once they are closing, and report closed *)
(* when the last connection is gone.                                        *)
(***************************************************************************)
CONSTANTS
    Conns          \* connections clients try to open

VARIABLES
    server,     \* idle, starting, listening, closing, draining, closed; failed to
                \* listen, and discarding (closing) such a server
    snapshot,   \* the sessions the running close() awaits
    conn,       \* none, verify, creating, up, refused
    sock,       \* the connection: none, open, closing, closed
    sessions,   \* #sessions
    sess,       \* none, running, stopping, ended, or stray (never run)
    deaf        \* sessions whose socket was closed before they listened to it

vars == <<server, snapshot, conn, sock, sessions, sess, deaf>>

Init ==
    /\ server = "idle" /\ snapshot = {}
    /\ conn = [c \in Conns |-> "none"] /\ sock = [c \in Conns |-> "none"]
    /\ sessions = {} /\ sess = [c \in Conns |-> "none"] /\ deaf = {}

-----------------------------------------------------------------------------
(* listen() *)

\* close() forgets the ws server, so that listen() may be called again; one
\* that failed to listen is kept, and listen() refuses until close() is called.
Listen ==
    /\ server \in {"idle", "closed"}
    /\ server' = "starting"
    /\ UNCHANGED <<snapshot, conn, sock, sessions, sess, deaf>>

ListenSettles(ok) ==
    /\ server = "starting"
    /\ server' = IF ok THEN "listening" ELSE "failed"
    /\ UNCHANGED <<snapshot, conn, sock, sessions, sess, deaf>>

-----------------------------------------------------------------------------
(* Admission *)

\* A client asks for an upgrade; verifyClient may have to wait for
\* authenticate().
Upgrade(c) ==
    /\ server \in {"listening", "closing"} /\ conn[c] = "none"
    /\ conn' = [conn EXCEPT ![c] = "verify"]
    /\ sock' = [sock EXCEPT ![c] = "open"]
    /\ UNCHANGED <<server, snapshot, sessions, sess, deaf>>

\* authenticate() has denied or thrown (401), or the server closes (503).
Denied(c) ==
    /\ conn[c] = "verify"
    /\ conn' = [conn EXCEPT ![c] = "refused"]
    /\ sock' = [sock EXCEPT ![c] = "closed"]
    /\ UNCHANGED <<server, snapshot, sessions, sess, deaf>>

\* The connection event, #accept: without a subprotocol where one is required
\* the socket is closed (1002); otherwise createHandler is awaited.
Accept(c, profiled) ==
    /\ conn[c] = "verify" /\ sock[c] = "open" /\ server \in {"listening", "closing"}
    /\ conn' = [conn EXCEPT ![c] = IF profiled THEN "creating" ELSE "refused"]
    /\ sock' = IF profiled THEN sock ELSE [sock EXCEPT ![c] = "closing"]
    /\ UNCHANGED <<server, snapshot, sessions, sess, deaf>>

\* createHandler resolves: the transport attaches its listeners, the session
\* joins #sessions and runs.  Whether the socket is still open is not checked.
HandlerCreated(c) ==
    /\ conn[c] = "creating"
    /\ conn' = [conn EXCEPT ![c] = "up"]
    /\ sessions' = sessions \cup {c}
    /\ sess' = [sess EXCEPT ![c] = "running"]
    /\ deaf' = IF sock[c] = "closed" THEN deaf \cup {c} ELSE deaf
    /\ UNCHANGED <<server, snapshot, sock>>

\* Something in the setup throws: the socket is closed (1011).  When it is
\* onSession, the session has joined #sessions and will never run or leave.
SetupFails(c, late) ==
    /\ conn[c] = "creating"
    /\ conn' = [conn EXCEPT ![c] = "refused"]
    /\ sock' = [sock EXCEPT ![c] = IF @ = "open" THEN "closing" ELSE @]
    /\ sessions' = IF late THEN sessions \cup {c} ELSE sessions
    /\ sess' = IF late THEN [sess EXCEPT ![c] = "stray"] ELSE sess
    /\ UNCHANGED <<server, snapshot, deaf>>

-----------------------------------------------------------------------------
(* Connections and sessions *)

\* The client closes, the connection fails, or a closing handshake ends.
Disconnect(c) ==
    /\ sock[c] \in {"open", "closing"}
    /\ sock' = [sock EXCEPT ![c] = "closed"]
    /\ UNCHANGED <<server, snapshot, conn, sessions, sess, deaf>>

\* The session stops: its reader meets EOF, or for a reason of its own.
SessionStops(c, eof) ==
    /\ sess[c] = "running"
    /\ eof => sock[c] = "closed" /\ c \notin deaf
    /\ sess' = [sess EXCEPT ![c] = "stopping"]
    /\ sock' = [sock EXCEPT ![c] = IF @ = "open" THEN "closing" ELSE @]
    /\ UNCHANGED <<server, snapshot, conn, sessions, deaf>>

\* Seeded fault: a session that has ended stays in #sessions.
SessionEndsStaying(c, timeout) ==
    /\ sess[c] = "stopping" /\ (sock[c] = "closed" \/ timeout)
    /\ sess' = [sess EXCEPT ![c] = "ended"]
    /\ UNCHANGED <<server, snapshot, conn, sock, sessions, deaf>>

\* run() settles when the transport is closed or closeTimeoutMs is over, and
\* the finally of #accept takes the session out of #sessions.
SessionEnds(c, timeout) ==
    /\ sess[c] = "stopping" /\ (sock[c] = "closed" \/ timeout)
    /\ sess' = [sess EXCEPT ![c] = "ended"]
    /\ sessions' = sessions \ {c}
    /\ UNCHANGED <<server, snapshot, conn, sock, deaf>>

-----------------------------------------------------------------------------
(* close() *)

Stopping(S) == [c \in Conns |-> IF c \in S /\ sess[c] = "running" THEN "stopping" ELSE sess[c]]
Closing(S) == [c \in Conns |-> IF c \in S /\ sess[c] = "running" /\ sock[c] = "open"
                                THEN "closing" ELSE sock[c]]

\* Seeded fault: the sessions are awaited but not asked to stop.
CloseWithoutStopping ==
    /\ server = "listening"
    /\ server' = "closing" /\ snapshot' = sessions
    /\ UNCHANGED <<conn, sock, sessions, sess, deaf>>

\* session.close() of every session there is now.  A stray session rejects.
Close ==
    /\ server \in {"listening", "failed"}
    /\ server' = IF server = "failed" THEN "discarding" ELSE "closing"
    /\ snapshot' = sessions
    /\ sess' = Stopping(sessions) /\ sock' = Closing(sessions)
    /\ UNCHANGED <<conn, sessions, deaf>>

\* Seeded fault: the sessions are not awaited.
CloseServerAtOnce ==
    /\ server = "closing"
    /\ server' = "draining"
    /\ UNCHANGED <<snapshot, conn, sock, sessions, sess, deaf>>

\* allSettled: the ws server is closed and admits nobody any more.
CloseServer ==
    /\ server \in {"closing", "discarding"} /\ \A c \in snapshot : sess[c] \in {"ended", "stray"}
    /\ server' = "draining"
    /\ UNCHANGED <<snapshot, conn, sock, sessions, sess, deaf>>

\* The last connection is gone: close() resolves.
Drained ==
    /\ server = "draining" /\ \A c \in Conns : sock[c] \in {"none", "closed"}
    /\ server' = "closed"
    /\ UNCHANGED <<snapshot, conn, sock, sessions, sess, deaf>>

-----------------------------------------------------------------------------
Next ==
    \/ Listen \/ Close \/ CloseServer \/ Drained
    \/ \E ok \in BOOLEAN : ListenSettles(ok)
    \/ \E c \in Conns :
         \/ Upgrade(c) \/ Denied(c) \/ HandlerCreated(c) \/ Disconnect(c)
         \/ \E b \in BOOLEAN : Accept(c, b) \/ SetupFails(c, b) \/ SessionStops(c, b) \/ SessionEnds(c, b)

Spec == Init /\ [][Next]_vars

\* Promise reactions run; ws ends a closing handshake by a timer if need be;
\* the application's authenticate and createHandler settle.
FairSpec ==
    /\ Spec
    /\ WF_vars(CloseServer) /\ WF_vars(Drained)
    /\ \A c \in Conns :
         /\ WF_vars(sock[c] = "closing" /\ Disconnect(c))
         /\ WF_vars(Denied(c) \/ Accept(c, TRUE) \/ Accept(c, FALSE))
         /\ WF_vars(HandlerCreated(c) \/ SetupFails(c, FALSE) \/ SetupFails(c, TRUE))
         /\ WF_vars(SessionStops(c, TRUE)) /\ WF_vars(SessionEnds(c, FALSE))

-----------------------------------------------------------------------------
(* Properties *)

\* Once close() has resolved, every session it found has ended and every
\* connection is gone: a session left in #sessions is one that never ran or
\* that has lost its connection already.
ClosedMeansReleased ==
    server = "closed" =>
      /\ \A c \in snapshot : sess[c] \in {"ended", "stray"}
      /\ \A c \in sessions : sess[c] = "stray" \/ (sock[c] = "closed" /\ c \notin snapshot)

\* close() resolves, unless a connection that was being admitted when it took
\* its snapshot has become a session, which nobody closes.
ServerCloseCompletes ==
    (server \in {"closing", "discarding"}) ~>
      (server = "closed" \/ \E c \in Conns \ snapshot : sess[c] = "running" /\ sock[c] # "closed")

\* A session whose connection closes while it listens ends and leaves the set,
\* and a connection that is refused or whose setup fails is closed.
ConnectionsEnd ==
    \A c \in Conns :
      /\ (sess[c] = "running" /\ sock[c] = "closed" /\ c \notin deaf) ~> (c \notin sessions)
      /\ (conn[c] = "refused") ~> (sock[c] = "closed")
=============================================================================
