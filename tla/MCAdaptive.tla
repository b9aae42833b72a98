----------------------------- MODULE MCAdaptive -----------------------------
(* A ramp of four phases; rates that fall, stay or rise by more than 5%.   *)
EXTENDS Adaptive

RampOfFour == <<1, 2, 4, 8>>
=============================================================================
