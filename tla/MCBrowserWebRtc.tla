--------------------------- MODULE MCBrowserWebRtc ---------------------------
(* A small instance of the browser transport and its audio device. *)
EXTENDS BrowserWebRtc
=============================================================================
