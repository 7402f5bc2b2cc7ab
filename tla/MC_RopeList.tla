----------------------------- MODULE MC_RopeList -----------------------------
(* Four ropes and two texts.                                               *)
EXTENDS RopeList

CONSTANTS r1, r2, r3, r4, a, b

SomeRopes == {r1, r2, r3, r4}
SomeTexts == {a, b}
===============================================================================
