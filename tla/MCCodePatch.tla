---------------------------- MODULE MCCodePatch ----------------------------
(* CodePatch with a three-byte .text that holds one two-byte instruction.   *)
EXTENDS CodePatch

MCText == <<"a", "L", "a">>
=============================================================================
