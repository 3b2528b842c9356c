----------------------------- MODULE MCNodeServer -----------------------------
(* Three connections at a NodeServer. *)
EXTENDS NodeServer
=============================================================================
