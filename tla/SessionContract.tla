--------------------------- MODULE SessionContract ---------------------------
(***************************************************************************)
(* What a session of any of the SDKs promises its application and its peer, *)
(* however its tasks are organised:                                         *)
(*                                                                          *)
(*  - the lifecycle moves forward only, and ends in "closed" or "failed";   *)
(*  - an outgoing request is opened at most once and settled exactly once;  *)
(*    no request is open when the session has ended, and none is opened     *)
(*    afterwards;                                                           *)
(*  - an inbound request is answered at most once, never before the session *)
(*    was run and never once it has ended in "closed".  A session that ended*)
(*    in "failed" may have given up on its transport, which then still      *)
(*    writes an answer it was handed before the stop.                       *)
(*                                                                          *)
(* The detailed specifications of the SDKs implement this one.              *)
(***************************************************************************)
EXTENDS Integers

CONSTANTS Requests, Inquiries   \* outgoing and inbound requests

VARIABLES
    phase,      \* the lifecycle state
    open,       \* outgoing requests whose caller waits
    settled,    \* outgoing requests that have an outcome
    replies     \* number of responses sent per inbound request

contractVars == <<phase, open, settled, replies>>

Ended == {"closed", "failed"}
Rank == [inactive |-> 1, connecting |-> 2, active |-> 3, closing |-> 4, closed |-> 5, failed |-> 5]

Init ==
    /\ phase = "inactive"
    /\ open = {} /\ settled = {}
    /\ replies = [q \in Inquiries |-> 0]

PhaseMoves == phase' = phase \/ Rank[phase'] > Rank[phase]

RequestsMove ==
    /\ open' \cap settled' = {}
    /\ settled \subseteq settled'
    /\ open \subseteq open' \cup settled'
    /\ open' \ open # {} => phase \in {"connecting", "active"}
    /\ phase' \in Ended => open' = {}

RepliesMove ==
    \A q \in Inquiries :
        \/ replies'[q] = replies[q]
        \/ /\ replies[q] = 0 /\ replies'[q] = 1
           /\ phase \notin {"inactive", "closed"}

Next == PhaseMoves /\ RequestsMove /\ RepliesMove

Spec == Init /\ [][Next]_contractVars
=============================================================================
