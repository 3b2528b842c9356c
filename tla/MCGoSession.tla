---------------------------- MODULE MCGoSession -----------------------------
(* Small instances of GoSession for TLC. *)
EXTENDS GoSession, TLC

CONSTANTS r1
OneCall == {r1}

\* Either two frames from the peer, or one of them beside a call of our own.
MixedTraffic == peerSent < 2 \/ \A r \in Calls : call[r] = "idle"
=============================================================================
