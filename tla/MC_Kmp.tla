-------------------------------- MODULE MC_Kmp --------------------------------
(***************************************************************************)
(* Patterns and files for Kmp: all patterns up to a length, all texts of   *)
(* two letters up to a length, and all shorter texts that also contain     *)
(* newlines.                                                               *)
(***************************************************************************)
EXTENDS Kmp

CONSTANTS a, b, newline, MaxPat, MaxText, MaxLines

Letter == {a, b}
Byte == Letter \cup {newline}

UpTo(S, m) == UNION {[1..k -> S] : k \in 0..m}

AllPatterns == UpTo(Letter, MaxPat) \ {<< >>}
AllTexts == UpTo(Letter, MaxText) \cup UpTo(Byte, MaxLines)
===============================================================================
