------------------------------ MODULE MCFault ------------------------------
(* Instances of Fault: two fibers, instructions that can be stepped over   *)
(* and plans that step over them.                                          *)
EXTENDS Fault, TLC

CONSTANTS root, ui, skippable, other

MCStepFix == [r \in Rips |-> "OK"]
OnePlan   == {[action |-> "SKIP", scope |-> "any", uses |-> 1]}
TwoPlans  == {[action |-> "SKIP", scope |-> "any", uses |-> n] : n \in {1, 2}}
=============================================================================
