--------------------------- MODULE NodeServer_proofs ---------------------------
(***************************************************************************)
(* What NodeWebSocketServer.close() leaves behind, for any number of        *)
(* connections and any number of lives of one server object.                *)
(***************************************************************************)
EXTENDS NodeServer, TLAPS

ServerTypes ==
    /\ server \in {"idle", "starting", "listening", "closing", "draining", "closed",
                   "failed", "discarding"}
    /\ snapshot \subseteq Conns /\ sessions \subseteq Conns
    /\ conn \in [Conns -> {"none", "verify", "creating", "up", "refused"}]
    /\ sock \in [Conns -> {"none", "open", "closing", "closed"}]
    /\ sess \in [Conns -> {"none", "running", "stopping", "ended", "stray"}]

\* A connection has a session only once its admission is over, and a session
\* that has ended is out of the set.
AdmissionInv ==
    \A c \in Conns :
      /\ conn[c] \in {"none", "verify", "creating"} => sess[c] = "none"
      /\ conn[c] # "none" => sock[c] # "none"
      /\ c \in sessions => conn[c] # "none" /\ sess[c] \notin {"none", "ended"}

\* From the moment the ws server is closed the snapshot is settled, and when
\* close() has resolved no connection is left and none can come.
ReleaseInv ==
    /\ server \in {"draining", "closed"} => \A c \in snapshot : sess[c] \in {"ended", "stray"}
    /\ server = "closed" => \A c \in Conns : sock[c] \in {"none", "closed"}

ServerInv == ServerTypes /\ AdmissionInv /\ ReleaseInv

LEMMA InitServerInv == Init => ServerInv
  BY DEF Init, ServerInv, ServerTypes, AdmissionInv, ReleaseInv

\* What one connection and its session do keeps the invariant.
LEMMA ConnectionKeepsInv ==
  ASSUME ServerInv, NEW c \in Conns, NEW b \in BOOLEAN,
         \/ Upgrade(c) \/ Denied(c) \/ HandlerCreated(c) \/ Disconnect(c)
         \/ Accept(c, b) \/ SetupFails(c, b) \/ SessionStops(c, b) \/ SessionEnds(c, b)
  PROVE  ServerInv'
  <1> USE DEF ServerInv, ServerTypes, AdmissionInv, ReleaseInv
  <1>1. CASE Upgrade(c)
    BY <1>1 DEF Upgrade
  <1>2. CASE Denied(c)
    BY <1>2 DEF Denied
  <1>3. CASE HandlerCreated(c)
    BY <1>3 DEF HandlerCreated
  <1>4. CASE Disconnect(c)
    BY <1>4 DEF Disconnect
  <1>5. CASE Accept(c, b)
    BY <1>5 DEF Accept
  <1>6. CASE SetupFails(c, b)
    BY <1>6 DEF SetupFails
  <1>7. CASE SessionStops(c, b)
    BY <1>7 DEF SessionStops
  <1>8. CASE SessionEnds(c, b)
    BY <1>8 DEF SessionEnds
  <1> QED
    BY <1>1, <1>2, <1>3, <1>4, <1>5, <1>6, <1>7, <1>8

LEMMA NextServerInv == ServerInv /\ [Next]_vars => ServerInv'
  <1> SUFFICES ASSUME ServerInv, [Next]_vars
               PROVE  ServerInv'
    OBVIOUS
  <1>1. CASE Listen
    BY <1>1 DEF Listen, ServerInv, ServerTypes, AdmissionInv, ReleaseInv
  <1>2. ASSUME NEW ok \in BOOLEAN, ListenSettles(ok)
        PROVE  ServerInv'
    BY <1>2 DEF ListenSettles, ServerInv, ServerTypes, AdmissionInv, ReleaseInv
  <1>3. CASE Close
    BY <1>3 DEF Close, Stopping, Closing, ServerInv, ServerTypes, AdmissionInv, ReleaseInv
  <1>4. CASE CloseServer
    BY <1>4 DEF CloseServer, ServerInv, ServerTypes, AdmissionInv, ReleaseInv
  <1>5. CASE Drained
    BY <1>5 DEF Drained, ServerInv, ServerTypes, AdmissionInv, ReleaseInv
  <1>6. CASE UNCHANGED vars
    BY <1>6 DEF vars, ServerInv, ServerTypes, AdmissionInv, ReleaseInv
  <1> QED
    BY <1>1, <1>2, <1>3, <1>4, <1>5, <1>6, ConnectionKeepsInv DEF Next

\* Once close() has resolved, every session it found has ended or never ran,
\* and any session still in #sessions never ran or has lost its connection.
THEOREM ClosedMeansReleasedTheorem == Spec => []ClosedMeansReleased
  <1>1. ServerInv => ClosedMeansReleased
    BY DEF ServerInv, ServerTypes, AdmissionInv, ReleaseInv, ClosedMeansReleased
  <1> QED
    BY <1>1, InitServerInv, NextServerInv, PTL DEF Spec
=============================================================================
