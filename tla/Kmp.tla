---------------------------------- MODULE Kmp ----------------------------------
(***************************************************************************)
(* The matcher of src/match.c (kmp_prepare, kmp_match) together with the   *)
(* loop of worker_thread that calls it on one file until it fails          *)
(* (src/thread.c).  One step is one iteration of a loop of the code, so    *)
(* that what the loops compute can be stated as invariants.                *)
(*                                                                         *)
(* Positions are the 0-based ones of the source: At(s, k) is s[k] in C.    *)
(* Positions are below 2^31: int and uint32_t do not wrap for files of     *)
(* less than 2 GiB, the only ones modelled.                                *)
(***************************************************************************)
EXTENDS Integers, Sequences, FiniteSets

CONSTANTS
  Char,      \* the bytes of patterns and texts
  NL,        \* '\n'
  Patterns,  \* the search patterns: opt.search_pattern
  Texts      \* the contents of the mapped files

ASSUME KmpAssumption ==
  /\ NL \in Char
  /\ Patterns \subseteq Seq(Char) \ {<< >>}
  /\ Texts \subseteq Seq(Char)

VARIABLES
  pat,        \* the pattern, set by kmp_prepare
  text,       \* the mapped file
  kmp_table,  \* the part of the table filled in so far; kmp_table[k] in C is
              \* At(kmp_table, k)
  pc,         \* "prepare", "match" (inside kmp_match) or "done"
  startpos,   \* where in the file this call of kmp_match starts
  text_pos,   \* kmp_match: position in the text, relative to startpos
  pat_pos,    \* kmp_match: position in the pattern
  line_cnt,   \* kmp_match: current line number
  hits        \* the matches reported to worker_writebuffer, in order:
              \* position in the file and line number

vars == <<pat, text, kmp_table, pc, startpos, text_pos, pat_pos, line_cnt, hits>>

At(s, k) == s[k + 1]

-----------------------------------------------------------------------------

(* kmp_table[0] = 0; the loop variable i is Len(kmp_table).                *)
Init ==
  /\ pat \in Patterns
  /\ text \in Texts
  /\ kmp_table = <<0>>
  /\ pc = "prepare"
  /\ startpos = 0 /\ text_pos = 0 /\ pat_pos = 0 /\ line_cnt = 1
  /\ hits = << >>

(* Mutant: a mismatch keeps the previous prefix instead of dropping it.    *)
NextEntryKeepsPrefix ==
  LET k == At(kmp_table, Len(kmp_table) - 1) IN
  IF At(pat, k) = At(pat, Len(kmp_table)) THEN k + 1 ELSE k

(* The next entry of the table: the previous prefix grown by one character *)
(* or nothing.                                                             *)
NextEntry ==
  LET k == At(kmp_table, Len(kmp_table) - 1) IN
  IF At(pat, k) = At(pat, Len(kmp_table)) THEN k + 1 ELSE 0

PrepareStep ==
  /\ pc = "prepare"
  /\ Len(kmp_table) < Len(pat)
  /\ kmp_table' = Append(kmp_table, NextEntry)
  /\ UNCHANGED <<pat, text, pc, startpos, text_pos, pat_pos, line_cnt, hits>>

PrepareDone ==
  /\ pc = "prepare"
  /\ Len(kmp_table) = Len(pat)
  /\ pc' = "match"
  /\ UNCHANGED <<pat, text, kmp_table, startpos, text_pos, pat_pos, line_cnt, hits>>

(* The character under the cursor, while there is one.                     *)
InText == startpos + text_pos < Len(text)
Cursor == At(text, startpos + text_pos)

(* Mutant: newlines that break off a partial match are not counted.        *)
CountLineOutside == line_cnt + IF Cursor = NL /\ pat_pos = 0 THEN 1 ELSE 0

(* Every iteration of the loop in kmp_match first counts a newline under   *)
(* the cursor.                                                             *)
CountLine == line_cnt + IF Cursor = NL THEN 1 ELSE 0

(* Mutant: the next call starts one character behind the match's start.    *)
FoundAdvancesByOne ==
  LET matchpos == text_pos - Len(pat) + 1 IN
  /\ hits' = Append(hits, [pos |-> startpos + matchpos, line |-> CountLine])
  /\ startpos' = startpos + matchpos + 1
  /\ text_pos' = 0
  /\ pat_pos' = 0

(* The last character of the pattern matched: kmp_match returns, the       *)
(* worker records the match and calls again behind it.                     *)
Found ==
  LET matchpos == text_pos - Len(pat) + 1 IN
  /\ hits' = Append(hits, [pos |-> startpos + matchpos, line |-> CountLine])
  /\ startpos' = startpos + matchpos + Len(pat)
  /\ text_pos' = 0
  /\ pat_pos' = 0

(* Mutant: the end of the pattern is noticed one character late.           *)
AgreePastEnd(p) ==
  IF p = Len(pat)
  THEN Found
  ELSE /\ pat_pos' = p + 1
       /\ text_pos' = text_pos + 1
       /\ UNCHANGED <<startpos, hits>>

(* The cursor agrees with position p of the pattern.                       *)
Agree(p) ==
  IF p = Len(pat) - 1
  THEN Found
  ELSE /\ pat_pos' = p + 1
       /\ text_pos' = text_pos + 1
       /\ UNCHANGED <<startpos, hits>>

(* Mutant: the character under the cursor is always skipped.               *)
GiveUpSkips(p) ==
  /\ pat_pos' = 0
  /\ text_pos' = text_pos + 1
  /\ UNCHANGED <<startpos, hits>>

(* The cursor disagrees with the position the table falls back to: start   *)
(* from the beginning of the pattern, on the same character unless the     *)
(* table already said so.                                                  *)
GiveUp(p) ==
  /\ pat_pos' = 0
  /\ text_pos' = IF p = 0 THEN text_pos + 1 ELSE text_pos
  /\ UNCHANGED <<startpos, hits>>

Fallback == At(kmp_table, pat_pos - 1)

MatchStep ==
  /\ pc = "match"
  /\ InText
  /\ line_cnt' = CountLine
  /\ \/ /\ Cursor = At(pat, pat_pos)
        /\ Agree(pat_pos)
     \/ /\ Cursor # At(pat, pat_pos)
        /\ pat_pos = 0
        /\ GiveUp(0)
     \/ /\ Cursor # At(pat, pat_pos)
        /\ pat_pos > 0
        /\ IF Cursor = At(pat, Fallback) THEN Agree(Fallback)
                                         ELSE GiveUp(Fallback)
  /\ UNCHANGED <<pat, text, kmp_table, pc>>

(* Mutant: the worker calls kmp_match again behind the end of the file.    *)
ExhaustedGoesOn ==
  /\ pc = "match"
  /\ ~InText
  /\ startpos' = startpos + text_pos /\ text_pos' = 0 /\ pat_pos' = 0
  /\ UNCHANGED <<pat, text, kmp_table, pc, line_cnt, hits>>

(* The text is exhausted: kmp_match returns false and the worker's loop    *)
(* ends.                                                                   *)
Exhausted ==
  /\ pc = "match"
  /\ ~InText
  /\ pc' = "done"
  /\ UNCHANGED <<pat, text, kmp_table, startpos, text_pos, pat_pos, line_cnt, hits>>

Terminated == pc = "done" /\ UNCHANGED vars

Next == PrepareStep \/ PrepareDone \/ MatchStep \/ Exhausted \/ Terminated

(* The code is sequential: it keeps running.                               *)
Spec == Init /\ [][Next]_vars /\ WF_vars(Next)

-----------------------------------------------------------------------------
(* Reference definitions.                                                  *)

(* The pattern p occurs in s at position k.                                *)
OccursAt(p, s, k) ==
  k + Len(p) <= Len(s) /\ \A j \in 0..Len(p)-1 : At(s, k + j) = At(p, j)

(* The b first characters of p are also the b last of its k+1 first.       *)
IsBorder(p, k, b) ==
  /\ b <= k
  /\ \A j \in 0..b-1 : At(p, j) = At(p, k - b + 1 + j)

(* The number of the line that holds position k of s, counted from 1.      *)
LineOf(s, k) == 1 + Cardinality({j \in 0..k-1 : At(s, j) = NL})

(* No prefix of p that is shorter than p has a border.                     *)
BorderFree(p) ==
  \A k \in 0..Len(p)-2 : \A b \in 1..k : ~IsBorder(p, k, b)

(* The table knows every border of the prefixes of the pattern that are    *)
(* shorter than it: falling back once and then starting over loses nothing.*)
TableKnowsAllBorders ==
  \A k \in 0..Len(pat)-2 : \A b \in 1..k :
    IsBorder(pat, k, b) => b = At(kmp_table, k)

-----------------------------------------------------------------------------
(* Properties.                                                             *)

(* Every variable stays in its type; in particular no index leaves the     *)
(* pattern or the text and fi.size - startpos (thread.c:115) never wraps.  *)
TypeOK ==
  /\ pat \in Patterns /\ text \in Texts
  /\ kmp_table \in Seq(Nat) /\ Len(kmp_table) \in 1..Len(pat)
  /\ pc \in {"prepare", "match", "done"}
  /\ pc # "prepare" => Len(kmp_table) = Len(pat)
  /\ startpos \in Nat /\ text_pos \in Nat
  /\ startpos + text_pos <= Len(text)
  /\ pat_pos \in 0..Len(pat)-1
  /\ line_cnt \in Nat
  /\ hits \in Seq([pos : Nat, line : Nat])

(* Every entry of the table is the length of a proper prefix that is also  *)
(* a suffix ("proper prefix which is also the suffix", match.c:70).        *)
TableHoldsBorders ==
  \A k \in 0..Len(kmp_table)-1 : IsBorder(pat, k, At(kmp_table, k))

(* What the cursor of kmp_match stands for: the pat_pos characters before  *)
(* it, all behind the start of this call, are the beginning of the         *)
(* pattern, after every fallback too.                                      *)
WindowMatches ==
  /\ pat_pos <= text_pos
  /\ \A j \in 0..pat_pos-1 : At(text, startpos + text_pos - pat_pos + j) = At(pat, j)

(* Each reported position is an occurrence of the pattern in the file, and *)
(* the reports are in order and do not overlap, over all the calls of      *)
(* kmp_match and the startpos the worker computes between them.            *)
Sound ==
  \A i \in 1..Len(hits) :
    /\ OccursAt(pat, text, hits[i].pos)
    /\ hits[i].pos + Len(pat) <= IF i < Len(hits) THEN hits[i+1].pos ELSE startpos

(* An occurrence at k was reported, or starts inside one that was.         *)
Covered(k) == \E i \in 1..Len(hits) : k \in hits[i].pos..hits[i].pos + Len(pat) - 1

(* kmp_match misses nothing in a file, for patterns whose prefixes have at *)
(* most one border each, the one in the table.                             *)
CompleteIfTableIs ==
  pc = "done" /\ TableKnowsAllBorders =>
    \A k \in 0..Len(text)-1 : OccursAt(pat, text, k) => Covered(k)

(* kmp_match misses nothing in a file, for every pattern: what its comment *)
(* says, "use KMP algorithm to do string matching" (match.c:47).           *)
Complete ==
  pc = "done" => \A k \in 0..Len(text)-1 : OccursAt(pat, text, k) => Covered(k)

(* Line numbers are carried from call to call of kmp_match and never fall  *)
(* behind; they are exact for a pattern that never falls back into itself. *)
LineNumbers ==
  \A i \in 1..Len(hits) :
    LET l == LineOf(text, hits[i].pos + Len(pat)) IN
    /\ hits[i].line >= l
    /\ BorderFree(pat) => hits[i].line = l

(* A match at the same cursor is tried at most twice: every search ends,   *)
(* although a failed fallback leaves the cursor where it is (match.c:86).  *)
Terminates == []<>(pc = "done")

===============================================================================
