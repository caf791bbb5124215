------------------------------- MODULE MCChat -------------------------------
(* Instances of the turn loop for TLC; the constants are in the .cfg     *)
(* files.                                                                  *)
EXTENDS Chat
=============================================================================
