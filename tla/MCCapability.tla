---------------------------- MODULE MCCapability ----------------------------
(* Two names; programs of no and of one argument, and compositions.        *)
EXTENDS Capability

CONSTANTS a, b
MCTexts == {Program(0), Program(1), Compose(0, b, 1), Compose(0, a, 0)}
=============================================================================
