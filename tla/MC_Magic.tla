------------------------------- MODULE MC_Magic -------------------------------
(***************************************************************************)
(* Three bytes, a table in which one entry starts another (as a shorter     *)
(* signature starts a longer one) and two share a prefix.                  *)
(***************************************************************************)
EXTENDS Magic

Table == << <<1, 2>>, <<1, 3, 2>>, <<1, 3, 3>>, <<2, 2, 1>>, <<2, 2>> >>

AllFiles == UNION {[1..k -> Byte] : k \in 0..4}
===============================================================================
