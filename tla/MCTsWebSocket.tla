---------------------------- MODULE MCTsWebSocket ----------------------------
(* A small instance of TsWebSocket for TLC. *)
EXTENDS TsWebSocket
=============================================================================
