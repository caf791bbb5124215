---------------------------- MODULE MCFaultChat ----------------------------
(* FaultChat over two one-byte instructions, either of which may fault.    *)
EXTENDS FaultChat

MCText == <<"a", "a">>
=============================================================================
