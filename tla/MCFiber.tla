------------------------------ MODULE MCFiber ------------------------------
(* Model-checking instance of Fiber.                                       *)
EXTENDS Fiber, TLC

(* Blocks are interchangeable: only equality of blocks is ever tested.     *)
BlockSymmetry == Permutations(Blocks)
=============================================================================
