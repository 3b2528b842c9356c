---------------------------- MODULE MCTsSession -----------------------------
(* Small instances of TsSession for TLC. *)
EXTENDS TsSession, TLC

CONSTANTS r1
OneCall == {r1}

\* Bound on the frames of both directions together: the peer sends all of its
\* frames only in the behaviours without a call of the session, and a frame that
\* does not decode only among the first of them.
Traffic ==
    /\ peerSent + Cardinality({r \in Calls : call[r] # "idle"}) <= MaxInbound
    /\ \A i \in DOMAIN inbound : inbound[i].kind = "garbage" => peerSent < 2

\* Nobody receives once the session was told to stop, and every send may fail
\* then: the peer sends nothing more and leaves the link as it is.
QuietAfterStop ==
    aborted => Len(inbound') <= Len(inbound) /\ link' \in {link, "open", "closed"}
=============================================================================
