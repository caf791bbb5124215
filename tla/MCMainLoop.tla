----------------------------- MODULE MCMainLoop -----------------------------
(* Instances of the main loop for TLC; the constants are in the .cfg files. *)
EXTENDS MainLoop
=============================================================================
