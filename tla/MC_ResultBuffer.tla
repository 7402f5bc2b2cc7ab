--------------------------- MODULE MC_ResultBuffer ---------------------------
(***************************************************************************)
(* A worker, its files and its patterns: all patterns up to a length, all  *)
(* texts of two letters up to a length, and all shorter texts that also    *)
(* contain newlines.  The buffer is scaled down: 6 bytes instead of 4096,  *)
(* lines of 4 bytes instead of 1024, colour codes of 2 and 1 bytes.        *)
(***************************************************************************)
EXTENDS ResultBuffer

CONSTANTS MaxPat, MaxText, MaxLines

Letter == Char \ {NL}

UpTo(S, m) == UNION {[1..k -> S] : k \in 0..m}

AllPatterns == UpTo(Letter, MaxPat) \ {<< >>}
AllTexts == UpTo(Letter, MaxText) \cup UpTo(Char, MaxLines)
===============================================================================
