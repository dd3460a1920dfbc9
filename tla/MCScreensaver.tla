---------------------------- MODULE MCScreensaver ----------------------------
(* The core with the values its .cfg files give the constants. *)
EXTENDS Screensaver
=============================================================================
