----------------------------- MODULE MCTsAudio -----------------------------
(* Small instances of the TypeScript audio stream for TLC. *)
EXTENDS TsAudio
=============================================================================
