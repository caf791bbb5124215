------------------------------- MODULE MCHeap -------------------------------
(* Instances of the kernel heap for TLC; the constants are in the .cfg     *)
(* files.                                                                  *)
EXTENDS Heap
=============================================================================
