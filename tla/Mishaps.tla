------------------------------ MODULE Mishaps ------------------------------
(***************************************************************************)
(* What has gone wrong in a behaviour: the kinds, and how often.  The      *)
(* properties of the stores of the station say which kinds they do not     *)
(* withstand.                                                              *)
(***************************************************************************)
EXTENDS Integers

CONSTANT MaxSlips    \* bound: things that go wrong

ASSUME SlipBound == MaxSlips \in Nat

VARIABLES mishaps, slips

mishapVars == <<mishaps, slips>>

MishapInit == mishaps = {} /\ slips = 0

Slip(kind) ==
  slips < MaxSlips /\ slips' = slips + 1 /\ mishaps' = mishaps \cup {kind}

Smooth == UNCHANGED mishapVars
=============================================================================
