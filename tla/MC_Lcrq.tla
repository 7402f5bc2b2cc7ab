------------------------------- MODULE MC_Lcrq -------------------------------
(* Two threads on a list of at most MaxRings rings of RING_SIZE cells.      *)
EXTENDS Lcrq, TLC

CONSTANT MaxRings

MCRing == 1..MaxRings

ThreadSymmetry == Permutations(Thread)

===============================================================================
