----------------------------- MODULE MCGoMedia -----------------------------
(* A small instance of the Go media binding for TLC. *)
EXTENDS GoMedia
CONSTANTS b1, b2, b3, narrow, wide
ThreeBinders == {b1, b2, b3}
TwoFormats == {narrow, wide}
=============================================================================
