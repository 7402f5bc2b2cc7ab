------------------------------- MODULE KmpProofs -------------------------------
(***************************************************************************)
(* For every pattern and every file: kmp_match stays inside its arrays and *)
(* reports only occurrences, in order and without overlap.  The invariant  *)
(* is inductive as a whole: Sound needs to know what stands before the     *)
(* cursor (WindowMatches), which a fallback preserves because the table    *)
(* holds borders (TableHoldsBorders).  On top of it: what the reported     *)
(* line numbers are worth, and when no occurrence is missed.               *)
(***************************************************************************)
EXTENDS Kmp, TLAPS, FiniteSetTheorems

IInv == TypeOK /\ TableHoldsBorders /\ WindowMatches /\ Sound

(* The p characters before the cursor are the beginning of the pattern.    *)
PrefixBefore(p) ==
  /\ p \in 0..Len(pat)-1
  /\ p <= text_pos
  /\ \A j \in 0..p-1 : At(text, startpos + text_pos - p + j) = At(pat, j)

(* The pattern and the file are sequences of bytes.                        *)
LEMMA Inputs ==
  ASSUME TypeOK
  PROVE  /\ pat \in Seq(Char) /\ Len(pat) \in Nat \ {0}
         /\ text \in Seq(Char) /\ Len(text) \in Nat
BY KmpAssumption DEF TypeOK

(* kmp_prepare: a border grown by one character is a border.               *)
LEMMA NextEntryIsBorder ==
  ASSUME TypeOK, TableHoldsBorders, Len(kmp_table) < Len(pat)
  PROVE  /\ NextEntry \in Nat
         /\ IsBorder(pat, Len(kmp_table), NextEntry)
<1> DEFINE m == Len(kmp_table)
           k == At(kmp_table, m - 1)
<1>1. m \in Nat \ {0} /\ Len(pat) \in Nat
  BY Inputs DEF TypeOK
<1>2. k \in Nat /\ k <= m - 1 /\ \A j \in 0..k-1 : At(pat, j) = At(pat, (m - 1) - k + 1 + j)
  <2>1. k \in Nat
    BY <1>1 DEF TypeOK, At
  <2>2. IsBorder(pat, m - 1, k)
    BY <1>1 DEF TableHoldsBorders
  <2> QED
    BY <2>1, <2>2 DEF IsBorder
<1>3. CASE At(pat, k) = At(pat, m)
  <2>1. NextEntry = k + 1
    BY <1>3 DEF NextEntry
  <2>2. ASSUME NEW j \in 0..k
        PROVE  At(pat, j) = At(pat, m - (k + 1) + 1 + j)
    <3>1. CASE j = k
      <4>1. m - (k + 1) + 1 + j = m
        BY <1>1, <1>2, <3>1
      <4> QED
        BY <1>3, <3>1, <4>1
    <3>2. CASE j \in 0..k-1
      <4>1. m - (k + 1) + 1 + j = (m - 1) - k + 1 + j
        BY <1>1, <1>2
      <4> QED
        BY <1>2, <3>2, <4>1
    <3> QED
      BY <1>2, <3>1, <3>2
  <2> QED
    BY <1>1, <1>2, <2>1, <2>2 DEF IsBorder
<1>4. CASE At(pat, k) # At(pat, m)
  BY <1>1, <1>4 DEF NextEntry, IsBorder
<1> QED
  BY <1>3, <1>4

(* The fallback of kmp_match: shifting the pattern to a border keeps the   *)
(* characters before the cursor a beginning of the pattern.                *)
LEMMA FallbackKeepsPrefix ==
  ASSUME TypeOK, TableHoldsBorders, WindowMatches, pc = "match", pat_pos > 0
  PROVE  PrefixBefore(Fallback) /\ Fallback < pat_pos
<1> DEFINE f == Fallback
           c == startpos + text_pos
<1>1. /\ pat_pos \in Nat \ {0} /\ pat_pos < Len(pat) /\ Len(kmp_table) = Len(pat)
      /\ Len(pat) \in Nat /\ startpos \in Nat /\ text_pos \in Nat
  BY Inputs DEF TypeOK
<1>2. /\ f \in Nat /\ f <= pat_pos - 1
      /\ \A j \in 0..f-1 : At(pat, j) = At(pat, (pat_pos - 1) - f + 1 + j)
  <2>1. f \in Nat
    BY <1>1 DEF TypeOK, At, Fallback
  <2>2. IsBorder(pat, pat_pos - 1, f)
    BY <1>1 DEF TableHoldsBorders, Fallback
  <2> QED
    BY <2>1, <2>2 DEF IsBorder
<1>3. ASSUME NEW j \in 0..f-1
      PROVE  At(text, c - f + j) = At(pat, j)
  <2>1. /\ pat_pos - f + j \in 0..pat_pos-1
        /\ c - pat_pos + (pat_pos - f + j) = c - f + j
    BY <1>1, <1>2
  <2>2. At(text, c - pat_pos + (pat_pos - f + j)) = At(pat, pat_pos - f + j)
    <3>1. \A i \in 0..pat_pos-1 : At(text, c - pat_pos + i) = At(pat, i)
      BY <1>1 DEF WindowMatches
    <3> HIDE DEF f, c
    <3> QED
      BY <2>1, <3>1
  <2>3. At(pat, j) = At(pat, (pat_pos - 1) - f + 1 + j)
    BY <1>2
  <2>4. (pat_pos - 1) - f + 1 + j = pat_pos - f + j
    BY <1>1, <1>2
  <2> QED
    BY <2>1, <2>2, <2>3, <2>4
<1> QED
  BY <1>1, <1>2, <1>3 DEF PrefixBefore, WindowMatches

(* The cursor agrees with the pattern behind a matching prefix: the match  *)
(* that is reported, if any, is an occurrence.                             *)
LEMMA AgreeKeepsInvariant ==
  ASSUME IInv, pc = "match", InText, NEW p, PrefixBefore(p),
         Cursor = At(pat, p), Agree(p), line_cnt' = CountLine,
         UNCHANGED <<pat, text, kmp_table, pc>>
  PROVE  IInv'
<1> DEFINE c == startpos + text_pos
<1>0. /\ Len(pat) \in Nat \ {0} /\ Len(text) \in Nat
      /\ startpos \in Nat /\ text_pos \in Nat /\ c < Len(text)
      /\ p \in Nat /\ p <= Len(pat) - 1 /\ p <= text_pos
      /\ line_cnt \in Nat /\ CountLine \in Nat
  BY Inputs DEF IInv, TypeOK, PrefixBefore, InText, CountLine
<1>1. \A j \in 0..p : At(text, c - p + j) = At(pat, j)
  <2>1. At(text, c - p + p) = At(pat, p)
    <3>1. c - p + p = c
      BY <1>0
    <3> QED
      BY <3>1 DEF Cursor
  <2>2. \A j \in 0..p-1 : At(text, c - p + j) = At(pat, j)
    BY <1>0 DEF PrefixBefore
  <2> HIDE DEF c
  <2> QED
    BY <1>0, <2>1, <2>2
<1>2. TableHoldsBorders'
  BY DEF IInv, TableHoldsBorders, IsBorder, At
<1>3. CASE p = Len(pat) - 1
  <2> DEFINE h == [pos |-> c - p, line |-> CountLine]
  <2>1. /\ hits' = Append(hits, h)
        /\ startpos' = c + 1 /\ text_pos' = 0 /\ pat_pos' = 0
    BY <1>0, <1>3 DEF Agree, Found
  <2>2. h \in [pos : Nat, line : Nat]
    BY <1>0
  <2>3. TypeOK'
    BY <1>0, <2>1, <2>2 DEF IInv, TypeOK
  <2>4. WindowMatches'
    BY <2>1 DEF WindowMatches
  <2>5. OccursAt(pat, text, c - p) /\ (c - p) + Len(pat) = c + 1
    <3>1. (c - p) + Len(pat) = c + 1 /\ c + 1 <= Len(text)
      BY <1>0, <1>3
    <3>2. \A j \in 0..Len(pat)-1 : At(text, (c - p) + j) = At(pat, j)
      BY <1>1, <1>3
    <3> QED
      BY <3>1, <3>2 DEF OccursAt
  <2>6. Sound'
    <3>1. /\ Len(hits) \in Nat /\ Len(hits') = Len(hits) + 1
          /\ hits'[Len(hits) + 1] = h
          /\ \A i \in 1..Len(hits) : hits'[i] = hits[i]
      BY <2>1, <2>2 DEF IInv, TypeOK
    <3>2. \A i \in 1..Len(hits) : hits[i] \in [pos : Nat, line : Nat]
      <4> DEFINE Hit == [pos : Nat, line : Nat]
      <4>1. hits \in Seq(Hit)
        BY DEF IInv, TypeOK
      <4> HIDE DEF Hit
      <4>2. \A i \in 1..Len(hits) : hits[i] \in Hit
        BY <4>1
      <4> QED
        BY <4>2 DEF Hit
    <3>3. ASSUME NEW i \in 1..Len(hits)
          PROVE  hits[i].pos + Len(pat) <= hits'[i+1].pos
      <4>1. CASE i < Len(hits)
        BY <3>1, <4>1 DEF IInv, Sound
      <4>2. CASE i = Len(hits)
        <5>1. hits[i].pos + Len(pat) <= startpos
          BY <4>2 DEF IInv, Sound
        <5>2. hits'[i+1].pos = c - p
          BY <3>1, <4>2
        <5> QED
          BY <1>0, <3>2, <5>1, <5>2
      <4> QED
        BY <3>1, <4>1, <4>2
    <3>4. ASSUME NEW i \in 1..Len(hits)
          PROVE  OccursAt(pat, text, hits[i].pos)
      BY DEF IInv, Sound
    <3>5. SUFFICES ASSUME NEW i \in 1..Len(hits')
                   PROVE  /\ OccursAt(pat, text, hits'[i].pos)
                          /\ hits'[i].pos + Len(pat) <=
                               IF i < Len(hits') THEN hits'[i+1].pos ELSE startpos'
      BY DEF Sound, OccursAt, At
    <3>6. CASE i = Len(hits) + 1
      BY <2>1, <2>5, <3>1, <3>6
    <3>7. CASE i \in 1..Len(hits)
      BY <3>1, <3>3, <3>4, <3>7
    <3> QED
      BY <3>1, <3>6, <3>7
  <2> QED
    BY <1>2, <2>3, <2>4, <2>6 DEF IInv
<1>4. CASE p # Len(pat) - 1
  <2>1. /\ pat_pos' = p + 1 /\ text_pos' = text_pos + 1
        /\ startpos' = startpos /\ hits' = hits
    BY <1>4 DEF Agree
  <2>2. TypeOK'
    BY <1>0, <1>4, <2>1 DEF IInv, TypeOK
  <2>3. WindowMatches'
    <3>1. startpos' + text_pos' - pat_pos' = c - p
      BY <1>0, <2>1
    <3>2. \A j \in 0..pat_pos'-1 : At(text, c - p + j) = At(pat, j)
      BY <1>0, <1>1, <2>1
    <3>3. pat_pos' <= text_pos'
      BY <1>0, <2>1
    <3> QED
      BY <3>1, <3>2, <3>3 DEF WindowMatches, At
  <2>4. Sound'
    BY <2>1 DEF IInv, Sound, OccursAt, At
  <2> QED
    BY <1>2, <2>2, <2>3, <2>4 DEF IInv
<1> QED
  BY <1>3, <1>4

(* Starting over at the beginning of the pattern keeps the invariant.      *)
LEMMA GiveUpKeepsInvariant ==
  ASSUME IInv, pc = "match", InText, NEW p, GiveUp(p), line_cnt' = CountLine,
         UNCHANGED <<pat, text, kmp_table, pc>>
  PROVE  IInv'
<1>0. /\ Len(pat) \in Nat \ {0} /\ Len(text) \in Nat
      /\ startpos \in Nat /\ text_pos \in Nat
      /\ line_cnt \in Nat /\ CountLine \in Nat
  BY Inputs DEF IInv, TypeOK, CountLine
<1>1. /\ pat_pos' = 0 /\ text_pos' \in {text_pos, text_pos + 1}
      /\ startpos' = startpos /\ hits' = hits
  BY DEF GiveUp
<1>2. TypeOK'
  BY <1>0, <1>1 DEF IInv, TypeOK, InText
<1>3. TableHoldsBorders'
  BY DEF IInv, TableHoldsBorders, IsBorder, At
<1>4. WindowMatches'
  BY <1>0, <1>1 DEF WindowMatches
<1>5. Sound'
  BY <1>1 DEF IInv, Sound, OccursAt, At
<1> QED
  BY <1>2, <1>3, <1>4, <1>5 DEF IInv

(* The invariant holds before kmp_prepare fills the table.                 *)
LEMMA InitEstablishes == Init => IInv
<1> SUFFICES ASSUME Init PROVE IInv
  OBVIOUS
<1>1. Len(pat) \in Nat \ {0} /\ Len(text) \in Nat
  BY KmpAssumption DEF Init
<1>2. TypeOK
  BY <1>1 DEF Init, TypeOK
<1>3. TableHoldsBorders
  BY DEF Init, TableHoldsBorders, IsBorder, At
<1>4. WindowMatches /\ Sound
  BY DEF Init, WindowMatches, Sound
<1> QED
  BY <1>2, <1>3, <1>4 DEF IInv

(* Every iteration of the loops of match.c keeps the invariant.            *)
LEMMA NextPreserves == IInv /\ [Next]_vars => IInv'
<1> SUFFICES ASSUME IInv, [Next]_vars PROVE IInv'
  OBVIOUS
<1>1. CASE PrepareStep
  <2>1. Len(pat) \in Nat \ {0} /\ Len(kmp_table) \in Nat
    BY Inputs DEF IInv, TypeOK
  <2>2. NextEntry \in Nat /\ IsBorder(pat, Len(kmp_table), NextEntry)
    BY <1>1, NextEntryIsBorder DEF IInv, PrepareStep
  <2>3. TypeOK'
    BY <1>1, <2>1, <2>2 DEF IInv, TypeOK, PrepareStep
  <2>4. TableHoldsBorders'
    <3>1. ASSUME NEW k \in 0..Len(kmp_table)
          PROVE  IsBorder(pat, k, At(kmp_table', k))
      <4>1. CASE k = Len(kmp_table)
        BY <1>1, <2>1, <2>2, <4>1 DEF IInv, TypeOK, PrepareStep, At
      <4>2. CASE k \in 0..Len(kmp_table)-1
        <5>1. At(kmp_table', k) = At(kmp_table, k)
          BY <1>1, <2>1, <2>2, <4>2 DEF IInv, TypeOK, PrepareStep, At
        <5> QED
          BY <4>2, <5>1 DEF IInv, TableHoldsBorders
      <4> QED
        BY <2>1, <4>1, <4>2
    <3>2. Len(kmp_table') = Len(kmp_table) + 1 /\ pat' = pat
      BY <1>1, <2>2 DEF IInv, TypeOK, PrepareStep
    <3> QED
      BY <2>1, <3>1, <3>2 DEF TableHoldsBorders, IsBorder, At
  <2>5. WindowMatches' /\ Sound'
    BY <1>1 DEF PrepareStep, IInv, WindowMatches, Sound, OccursAt, At
  <2> QED
    BY <2>3, <2>4, <2>5 DEF IInv
<1>2. CASE PrepareDone
  BY <1>2 DEF PrepareDone, IInv, TypeOK, TableHoldsBorders, IsBorder,
              WindowMatches, Sound, OccursAt, At
<1>3. CASE MatchStep
  <2>0. /\ pc = "match" /\ InText /\ line_cnt' = CountLine
        /\ UNCHANGED <<pat, text, kmp_table, pc>>
    BY <1>3 DEF MatchStep
  <2>1. CASE Cursor = At(pat, pat_pos) /\ Agree(pat_pos)
    <3>1. PrefixBefore(pat_pos)
      BY DEF PrefixBefore, IInv, TypeOK, WindowMatches
    <3> QED
      BY <2>0, <2>1, <3>1, AgreeKeepsInvariant
  <2>2. CASE GiveUp(0)
    BY <2>0, <2>2, GiveUpKeepsInvariant
  <2>3. CASE pat_pos > 0 /\ Cursor = At(pat, Fallback) /\ Agree(Fallback)
    <3>1. PrefixBefore(Fallback)
      BY <2>0, <2>3, FallbackKeepsPrefix DEF IInv
    <3> QED
      BY <2>0, <2>3, <3>1, AgreeKeepsInvariant
  <2>4. CASE pat_pos > 0 /\ GiveUp(Fallback)
    BY <2>0, <2>4, GiveUpKeepsInvariant
  <2> QED
    BY <1>3, <2>1, <2>2, <2>3, <2>4 DEF MatchStep
<1>4. CASE Exhausted
  BY <1>4 DEF Exhausted, IInv, TypeOK, TableHoldsBorders, IsBorder,
              WindowMatches, Sound, OccursAt, At
<1>5. CASE UNCHANGED vars
  BY <1>5 DEF vars, IInv, TypeOK, TableHoldsBorders, IsBorder,
              WindowMatches, Sound, OccursAt, At
<1> QED
  BY <1>1, <1>2, <1>3, <1>4, <1>5 DEF Next, Terminated

(* No index of kmp_prepare or kmp_match leaves its array, and the size     *)
(* passed to kmp_match never wraps, for every pattern and every file.      *)
THEOREM TypeCorrect == Spec => []TypeOK
<1>1. IInv => TypeOK
  BY DEF IInv
<1> QED
  BY <1>1, InitEstablishes, NextPreserves, PTL DEF Spec

(* kmp_match reports only occurrences of the pattern, in order and without *)
(* overlap, for every pattern and every file.                              *)
THEOREM MatchesAreSound == Spec => []Sound
<1>1. IInv => Sound
  BY DEF IInv
<1> QED
  BY <1>1, InitEstablishes, NextPreserves, PTL DEF Spec

(* Every entry kmp_prepare writes is the length of a border, for every     *)
(* pattern.                                                                *)
THEOREM TableIsSound == Spec => []TableHoldsBorders
<1>1. IInv => TableHoldsBorders
  BY DEF IInv
<1> QED
  BY <1>1, InitEstablishes, NextPreserves, PTL DEF Spec

-----------------------------------------------------------------------------
(* Line numbers.                                                           *)

(* The line counter is at least the line of the cursor, and exactly that   *)
(* if the pattern has no border to fall back to.                           *)
CounterKeepsUp ==
  LET l == LineOf(text, startpos + text_pos) IN
  /\ line_cnt >= l
  /\ BorderFree(pat) => line_cnt = l

LInv == CounterKeepsUp /\ LineNumbers

(* The line number grows by one behind a newline.                          *)
LEMMA LineOfNext ==
  ASSUME NEW s, NEW k \in Nat
  PROVE  /\ LineOf(s, k) \in Nat
         /\ LineOf(s, k + 1) = LineOf(s, k) + IF At(s, k) = NL THEN 1 ELSE 0
<1> DEFINE S == {j \in 0..k-1 : At(s, j) = NL}
           T == {j \in 0..(k+1)-1 : At(s, j) = NL}
<1>1. IsFiniteSet(0..k-1)
  BY FS_Interval
<1>2. IsFiniteSet(S)
  BY <1>1, FS_Subset
<1>3. Cardinality(S) \in Nat
  BY <1>2, FS_CardinalityType
<1>4. k \notin S
  OBVIOUS
<1>5. T = IF At(s, k) = NL THEN S \cup {k} ELSE S
  OBVIOUS
<1> HIDE DEF S, T
<1>6. Cardinality(S \cup {k}) = Cardinality(S) + 1
  BY <1>2, <1>4, FS_AddElement
<1>7. Cardinality(T) = Cardinality(S) + IF At(s, k) = NL THEN 1 ELSE 0
  BY <1>3, <1>5, <1>6
<1> QED
  BY <1>3, <1>7 DEF LineOf, S, T

(* A pattern without borders is never shifted into itself.                 *)
LEMMA NoBorderNoFallback ==
  ASSUME IInv, pc = "match", pat_pos > 0, BorderFree(pat)
  PROVE  Fallback = 0
<1>1. /\ Len(pat) \in Nat \ {0} /\ pat_pos \in 0..Len(pat)-1
      /\ Len(kmp_table) = Len(pat)
  BY Inputs DEF IInv, TypeOK
<1>2. Fallback \in Nat
  BY <1>1 DEF IInv, TypeOK, At, Fallback
<1>3. IsBorder(pat, pat_pos - 1, Fallback)
  BY <1>1 DEF IInv, TableHoldsBorders, Fallback
<1>4. Fallback <= pat_pos - 1 /\ pat_pos - 1 \in 0..Len(pat)-2
  BY <1>1, <1>3 DEF IsBorder
<1>5. \A b \in 1..pat_pos-1 : ~IsBorder(pat, pat_pos - 1, b)
  BY <1>4 DEF BorderFree
<1> QED
  BY <1>1, <1>2, <1>3, <1>4, <1>5

(* What one iteration of kmp_match does to the cursor, and the line of the *)
(* match it may report.                                                    *)
LEMMA LineStep ==
  ASSUME IInv, MatchStep
  PROVE  LET c == startpos + text_pos IN
         /\ c \in Nat /\ line_cnt' = line_cnt + IF At(text, c) = NL THEN 1 ELSE 0
         /\ \/ startpos' + text_pos' = c + 1
            \/ startpos' + text_pos' = c /\ ~BorderFree(pat) /\ hits' = hits
         /\ \/ hits' = hits
            \/ /\ startpos' + text_pos' = c + 1
               /\ \E q \in Nat : /\ hits' = Append(hits, [pos |-> q, line |-> line_cnt'])
                                 /\ q + Len(pat) = c + 1
<1> DEFINE c == startpos + text_pos
<1>0. /\ startpos \in Nat /\ text_pos \in Nat /\ Len(pat) \in Nat \ {0} /\ c \in Nat
      /\ pat_pos \in 0..Len(pat)-1 /\ pat_pos <= text_pos
      /\ pc = "match" /\ line_cnt' = CountLine
      /\ line_cnt' = line_cnt + IF At(text, c) = NL THEN 1 ELSE 0
  BY Inputs DEF IInv, TypeOK, WindowMatches, MatchStep, CountLine, Cursor
<1>1. ASSUME NEW p \in 0..text_pos, p <= Len(pat) - 1, Agree(p)
      PROVE  /\ startpos' + text_pos' = c + 1
             /\ \/ hits' = hits
                \/ \E q \in Nat : /\ hits' = Append(hits, [pos |-> q, line |-> line_cnt'])
                                  /\ q + Len(pat) = c + 1
  <2>1. CASE p = Len(pat) - 1
    <3> DEFINE q == startpos + (text_pos - Len(pat) + 1)
    <3>1. q \in Nat /\ q + Len(pat) = c + 1
      BY <1>0, <1>1, <2>1
    <3>2. hits' = Append(hits, [pos |-> q, line |-> line_cnt'])
      BY <1>0, <1>1, <2>1 DEF Agree, Found
    <3>3. startpos' + text_pos' = c + 1
      BY <1>0, <1>1, <2>1 DEF Agree, Found
    <3> HIDE DEF q
    <3> QED
      BY <3>1, <3>2, <3>3
  <2>2. CASE p # Len(pat) - 1
    BY <1>0, <1>1, <2>2 DEF Agree
  <2> QED
    BY <2>1, <2>2
<1>2. ASSUME NEW p \in Nat, GiveUp(p), BorderFree(pat) => p = 0
      PROVE  /\ hits' = hits
             /\ \/ startpos' + text_pos' = c + 1
                \/ startpos' + text_pos' = c /\ ~BorderFree(pat)
  BY <1>0, <1>2 DEF GiveUp
<1>3. pat_pos > 0 => /\ Fallback \in 0..text_pos /\ Fallback <= Len(pat) - 1
                     /\ BorderFree(pat) => Fallback = 0
  BY <1>0, FallbackKeepsPrefix, NoBorderNoFallback DEF IInv, PrefixBefore
<1>4. \/ Agree(pat_pos) \/ GiveUp(0)
      \/ pat_pos > 0 /\ (Agree(Fallback) \/ GiveUp(Fallback))
  BY DEF MatchStep
<1>5. CASE Agree(pat_pos)
  BY <1>0, <1>1, <1>5
<1>6. CASE GiveUp(0)
  BY <1>0, <1>2, <1>6
<1>7. CASE pat_pos > 0 /\ Agree(Fallback)
  BY <1>0, <1>1, <1>3, <1>7
<1>8. CASE pat_pos > 0 /\ GiveUp(Fallback)
  BY <1>0, <1>2, <1>3, <1>8
<1> QED
  BY <1>4, <1>5, <1>6, <1>7, <1>8

(* Every step keeps the counter at or ahead of the cursor.                 *)
LEMMA LinesNext == IInv /\ LInv /\ [Next]_vars => LInv'
<1> SUFFICES ASSUME IInv, LInv, [Next]_vars PROVE LInv'
  OBVIOUS
<1>1. CASE MatchStep
  <2> DEFINE c == startpos + text_pos
             d == IF At(text, c) = NL THEN 1 ELSE 0
  <2>1. /\ c \in Nat /\ line_cnt \in Nat /\ line_cnt' = line_cnt + d
        /\ pat' = pat /\ text' = text /\ Len(hits) \in Nat
    BY <1>1, LineStep DEF MatchStep, IInv, TypeOK
  <2>2. /\ LineOf(text, c) \in Nat /\ LineOf(text, c + 1) = LineOf(text, c) + d
        /\ line_cnt >= LineOf(text, c)
        /\ BorderFree(pat) => line_cnt = LineOf(text, c)
    BY <2>1, LineOfNext DEF LInv, CounterKeepsUp
  <2>3. CounterKeepsUp'
    BY <1>1, <2>1, <2>2, LineStep DEF CounterKeepsUp
  <2>4. LineNumbers'
    <3>1. CASE hits' = hits
      BY <2>1, <3>1 DEF LInv, LineNumbers
    <3>2. ASSUME NEW q \in Nat, hits' = Append(hits, [pos |-> q, line |-> line_cnt']),
                 q + Len(pat) = c + 1
          PROVE  LineNumbers'
      <4>1. /\ Len(hits') = Len(hits) + 1
            /\ \A i \in 1..Len(hits) : hits'[i] = hits[i]
            /\ hits'[Len(hits) + 1].pos = q /\ hits'[Len(hits) + 1].line = line_cnt'
        BY <3>2 DEF IInv, TypeOK
      <4>2. /\ line_cnt' >= LineOf(text, q + Len(pat))
            /\ BorderFree(pat) => line_cnt' = LineOf(text, q + Len(pat))
        BY <2>1, <2>2, <3>2
      <4>3. ASSUME NEW i \in 1..Len(hits')
            PROVE  /\ hits'[i].line >= LineOf(text, hits'[i].pos + Len(pat))
                   /\ BorderFree(pat) => hits'[i].line = LineOf(text, hits'[i].pos + Len(pat))
        <5>1. CASE i \in 1..Len(hits)
          BY <4>1, <5>1 DEF LInv, LineNumbers
        <5>2. CASE i = Len(hits) + 1
          BY <4>1, <4>2, <5>2
        <5> QED
          BY <2>1, <4>1, <5>1, <5>2
      <4> QED
        BY <2>1, <4>3 DEF LineNumbers
    <3> QED
      BY <1>1, <3>1, <3>2, LineStep
  <2> QED
    BY <2>3, <2>4 DEF LInv
<1>2. CASE UNCHANGED <<pat, text, startpos, text_pos, line_cnt, hits>>
  BY <1>2 DEF LInv, CounterKeepsUp, LineNumbers
<1> QED
  BY <1>1, <1>2 DEF Next, PrepareStep, PrepareDone, Exhausted, Terminated, vars

(* The counter is right before the first call of kmp_match.                *)
LEMMA LinesBegin == Init => LInv
<1> SUFFICES ASSUME Init PROVE LInv
  OBVIOUS
<1>1. {j \in 0..0-1 : At(text, j) = NL} = {}
  OBVIOUS
<1>2. LineOf(text, 0) = 1
  BY <1>1, FS_EmptySet DEF LineOf
<1> QED
  BY <1>2 DEF Init, LInv, CounterKeepsUp, LineNumbers

(* A reported line number is never too small, and it is right for every    *)
(* pattern without borders, in every file.                                 *)
THEOREM LinesNeverFallBehind == Spec => []LineNumbers
<1>1. LInv => LineNumbers
  BY DEF LInv
<1> QED
  BY <1>1, LinesBegin, InitEstablishes, NextPreserves, LinesNext, PTL DEF Spec

-----------------------------------------------------------------------------
(* Occurrences that are not missed.                                        *)

(* Where the beginning of the pattern stands that the cursor is behind.    *)
Behind == startpos + text_pos - pat_pos

(* No occurrence before it was missed, if the table knows all borders.     *)
MInv ==
  /\ pc = "prepare" => startpos = 0 /\ text_pos = 0
  /\ pc # "prepare" /\ TableKnowsAllBorders =>
       \A k \in 0..Behind-1 : OccursAt(pat, text, k) => Covered(k)

(* An occurrence that starts inside the window and reaches behind the      *)
(* cursor starts where the fallback puts the pattern.                      *)
LEMMA OnlyTheFallback ==
  ASSUME IInv, pc = "match", pat_pos > 0, TableKnowsAllBorders, NEW k \in Nat,
         Behind < k, k < startpos + text_pos, OccursAt(pat, text, k)
  PROVE  k = startpos + text_pos - Fallback
<1> DEFINE c == startpos + text_pos
           b == c - k
<1>1. /\ startpos \in Nat /\ text_pos \in Nat /\ Len(pat) \in Nat \ {0}
      /\ pat_pos \in 0..Len(pat)-1 /\ c \in Nat
  BY Inputs DEF IInv, TypeOK
<1>2. b \in 1..pat_pos-1 /\ c - pat_pos < k
  BY <1>1 DEF Behind
<1>3. ASSUME NEW j \in 0..b-1
      PROVE  At(pat, j) = At(pat, (pat_pos - 1) - b + 1 + j)
  <2>1. At(text, k + j) = At(pat, j)
    BY <1>1, <1>2, <1>3 DEF OccursAt
  <2> DEFINE i == pat_pos - b + j
  <2>2. i \in 0..pat_pos-1 /\ startpos + text_pos - pat_pos + i = k + j
    BY <1>1, <1>2, <1>3
  <2>3. (pat_pos - 1) - b + 1 + j = i
    BY <1>1, <1>2, <1>3
  <2> HIDE DEF i
  <2>4. At(text, startpos + text_pos - pat_pos + i) = At(pat, i)
    BY <2>2 DEF IInv, WindowMatches
  <2> HIDE DEF b, c
  <2> QED
    BY <2>1, <2>2, <2>3, <2>4
<1> HIDE DEF b
<1>4. IsBorder(pat, pat_pos - 1, b)
  BY <1>1, <1>2, <1>3 DEF IsBorder
<1>5. b = Fallback
  BY <1>1, <1>2, <1>4 DEF TableKnowsAllBorders, Fallback
<1> QED
  BY <1>1, <1>5 DEF b

(* A hit stays a hit.                                                      *)
LEMMA CoveredStays ==
  ASSUME IInv, NEW k, Covered(k), pat' = pat, NEW h \in [pos : Nat, line : Nat],
         hits' = hits \/ hits' = Append(hits, h)
  PROVE  Covered(k)'
<1>1. PICK i \in 1..Len(hits) : k \in hits[i].pos..hits[i].pos + Len(pat) - 1
  BY DEF Covered
<1>2. i \in 1..Len(hits') /\ hits'[i] = hits[i]
  <2> DEFINE Hit == [pos : Nat, line : Nat]
  <2>1. hits \in Seq(Hit) /\ h \in Hit
    BY DEF IInv, TypeOK
  <2> HIDE DEF Hit
  <2> QED
    BY <1>1, <2>1, SMTT(30)
<1> QED
  BY <1>1, <1>2 DEF Covered

(* The cursor agrees: the window grows, or it is reported and the next     *)
(* window starts behind it.                                                *)
LEMMA AgreeMissesNothing ==
  ASSUME IInv, MatchStep, NEW p \in 0..text_pos, p <= Len(pat) - 1, Agree(p),
         \A k \in 0..(startpos+text_pos-p)-1 : OccursAt(pat, text, k) => Covered(k)
  PROVE  \A k \in 0..Behind'-1 : OccursAt(pat, text, k) => Covered(k)'
<1> DEFINE w == startpos + text_pos - p
<1>0. /\ startpos \in Nat /\ text_pos \in Nat /\ Len(pat) \in Nat \ {0} /\ w \in Nat
      /\ CountLine \in Nat /\ pat' = pat
  BY Inputs DEF IInv, TypeOK, CountLine, MatchStep
<1>1. CASE p = Len(pat) - 1
  <2> DEFINE h == [pos |-> w, line |-> CountLine]
  <2>1. /\ hits' = Append(hits, h) /\ h \in [pos : Nat, line : Nat]
        /\ startpos' = w + Len(pat) /\ text_pos' = 0 /\ pat_pos' = 0
    <3>1. w = startpos + (text_pos - Len(pat) + 1)
      BY <1>0, <1>1
    <3> QED
      BY <1>0, <1>1, <3>1 DEF Agree, Found
  <2>2. Behind' = w + Len(pat) /\ h.pos = w
    BY <1>0, <2>1 DEF Behind
  <2> HIDE DEF h
  <2>3. Len(hits) + 1 \in 1..Len(hits') /\ hits'[Len(hits) + 1].pos = w
    BY <2>1, <2>2, SMTT(30) DEF IInv, TypeOK
  <2> HIDE DEF w
  <2>4. ASSUME NEW k \in w..w+Len(pat)-1 PROVE Covered(k)'
    BY <1>0, <2>3, <2>4 DEF Covered
  <2>5. ASSUME NEW k \in 0..w-1, OccursAt(pat, text, k) PROVE Covered(k)'
    BY <1>0, <2>1, <2>5, CoveredStays DEF w
  <2> QED
    BY <1>0, <2>2, <2>4, <2>5
<1>2. CASE p # Len(pat) - 1
  <2>1. hits' = hits /\ Behind' = w
    BY <1>0, <1>2 DEF Agree, Behind
  <2> QED
    BY <1>0, <2>1 DEF Covered
<1> QED
  BY <1>1, <1>2

(* Every step keeps MInv.                                                  *)
LEMMA MissesNext == IInv /\ MInv /\ [Next]_vars => MInv'
<1> SUFFICES ASSUME IInv, MInv, [Next]_vars PROVE MInv'
  OBVIOUS
<1> DEFINE c == startpos + text_pos
<1>0. /\ startpos \in Nat /\ text_pos \in Nat /\ Len(pat) \in Nat \ {0}
      /\ pat_pos \in 0..Len(pat)-1 /\ pat_pos <= text_pos /\ Behind = c - pat_pos
  BY Inputs DEF IInv, TypeOK, WindowMatches, Behind
<1>1. CASE MatchStep
  <2>1. /\ pc = "match" /\ UNCHANGED <<pat, text, kmp_table, pc>>
        /\ TableKnowsAllBorders' <=> TableKnowsAllBorders
    BY <1>1 DEF MatchStep, TableKnowsAllBorders
  <2>2. SUFFICES ASSUME TableKnowsAllBorders
                 PROVE  \A k \in 0..Behind'-1 : OccursAt(pat, text, k) => Covered(k)'
    BY <2>1 DEF MInv
  <2>3. \A k \in 0..Behind-1 : OccursAt(pat, text, k) => Covered(k)
    BY <2>1, <2>2 DEF MInv
  <2>4. ASSUME NEW k \in Nat, OccursAt(pat, text, k), Cursor # At(pat, pat_pos)
        PROVE  k # Behind
    <3>1. SUFFICES ASSUME k = Behind PROVE FALSE
      OBVIOUS
    <3>2. At(text, k + pat_pos) = At(pat, pat_pos)
      BY <1>0, <2>4 DEF OccursAt
    <3>3. k + pat_pos = c
      BY <1>0, <3>1
    <3> QED
      BY <2>4, <3>2, <3>3 DEF Cursor
  <2>5. CASE Agree(pat_pos)
    BY <1>0, <1>1, <2>3, <2>5, AgreeMissesNothing DEF Behind
  <2>6. CASE Cursor # At(pat, pat_pos) /\ pat_pos = 0 /\ GiveUp(0)
    <3>1. hits' = hits /\ Behind' = Behind + 1 /\ Behind \in Nat
      BY <1>0, <2>6 DEF GiveUp, Behind
    <3>2. ASSUME NEW k \in 0..Behind'-1, OccursAt(pat, text, k) PROVE Covered(k)'
      <4>1. k \in 0..Behind-1
        BY <2>4, <2>6, <3>1, <3>2
      <4> QED
        BY <2>1, <2>3, <3>1, <3>2, <4>1 DEF Covered
    <3> QED
      BY <3>2
  <2>7. CASE Cursor # At(pat, pat_pos) /\ pat_pos > 0
    <3>1. Fallback \in 0..text_pos /\ Fallback <= Len(pat) - 1 /\ Fallback < pat_pos
      BY <1>0, <2>1, <2>7, FallbackKeepsPrefix DEF IInv, PrefixBefore
    <3>2. ASSUME NEW k \in 0..c-1, OccursAt(pat, text, k), k # c - Fallback
          PROVE  Covered(k)
      <4>1. k \in 0..Behind-1
        <5>1. SUFFICES ASSUME k >= Behind PROVE FALSE
          BY <1>0, <3>2
        <5>2. k \in Nat /\ k < startpos + text_pos
          BY <1>0, <3>2
        <5>3. Behind < k
          BY <1>0, <2>4, <2>7, <3>2, <5>1, <5>2
        <5>4. k = startpos + text_pos - Fallback
          <6>1. TableKnowsAllBorders /\ pc = "match" /\ pat_pos > 0
            BY <2>1, <2>2, <2>7
          <6> QED
            BY <3>2, <5>2, <5>3, <6>1, OnlyTheFallback
        <5> QED
          BY <1>0, <3>1, <3>2, <5>4
      <4> QED
        BY <2>3, <3>2, <4>1
    <3>3. CASE Agree(Fallback)
      BY <1>0, <1>1, <3>1, <3>2, <3>3, AgreeMissesNothing
    <3>4. CASE Cursor # At(pat, Fallback) /\ GiveUp(Fallback)
      <4>1. /\ hits' = hits
            /\ Behind' = IF Fallback = 0 THEN c + 1 ELSE c
        BY <1>0, <3>4 DEF GiveUp, Behind
      <4>2. ASSUME NEW k \in Nat, OccursAt(pat, text, k) PROVE k # c - Fallback
        <5>1. SUFFICES ASSUME k = c - Fallback PROVE FALSE
          OBVIOUS
        <5>2. At(text, k + Fallback) = At(pat, Fallback)
          BY <1>0, <3>1, <4>2 DEF OccursAt
        <5>3. k + Fallback = c
          BY <1>0, <3>1, <5>1
        <5> QED
          BY <3>4, <5>2, <5>3 DEF Cursor
      <4>3. ASSUME NEW k \in 0..Behind'-1, OccursAt(pat, text, k) PROVE Covered(k)'
        <5>1. k \in 0..c-1 /\ k # c - Fallback
          BY <1>0, <3>1, <4>1, <4>2, <4>3
        <5>2. Covered(k)
          BY <3>2, <4>3, <5>1
        <5> QED
          BY <2>1, <4>1, <5>2 DEF Covered
      <4> QED
        BY <4>3
    <3> QED
      BY <1>1, <2>7, <3>3, <3>4 DEF MatchStep
  <2> QED
    BY <1>1, <2>5, <2>6, <2>7 DEF MatchStep
<1>2. CASE PrepareStep \/ PrepareDone
  <2>1. startpos' = 0 /\ text_pos' = 0 /\ pat_pos' = 0
    BY <1>0, <1>2 DEF PrepareStep, PrepareDone, MInv
  <2> QED
    BY <2>1 DEF MInv, Behind
<1>3. CASE Exhausted \/ UNCHANGED vars
  BY <1>3 DEF Exhausted, vars, MInv, Behind, TableKnowsAllBorders, Covered
<1> QED
  BY <1>1, <1>2, <1>3 DEF Next, Terminated

(* Nothing is before the beginning of the file.                            *)
LEMMA MissesBegin == Init => MInv
BY DEF Init, MInv, Behind

(* The last call of kmp_match ends at the end of the file.                 *)
LEMMA StopsAtTheEnd ==
  (pc = "done" => ~InText) /\ [Next]_vars => (pc = "done" => ~InText)'
BY DEF Next, PrepareStep, PrepareDone, MatchStep, Exhausted, Terminated, vars, InText

(* At the end of the file the pattern stands behind every occurrence.      *)
LEMMA EndMissesNothing ==
  ASSUME IInv, MInv, pc = "done" => ~InText
  PROVE  CompleteIfTableIs
<1> SUFFICES ASSUME pc = "done", TableKnowsAllBorders, NEW k \in 0..Len(text)-1,
                    OccursAt(pat, text, k)
             PROVE  Covered(k)
  BY DEF CompleteIfTableIs
<1>1. /\ startpos \in Nat /\ text_pos \in Nat /\ Len(pat) \in Nat \ {0}
      /\ pat_pos \in 0..Len(pat)-1 /\ Len(text) \in Nat
      /\ startpos + text_pos = Len(text)
  BY Inputs DEF IInv, TypeOK, InText
<1>2. k + Len(pat) <= Len(text)
  BY DEF OccursAt
<1>3. k \in 0..Behind-1
  BY <1>1, <1>2 DEF Behind
<1> QED
  BY <1>3 DEF MInv

(* In every file no occurrence is missed of a pattern whose prefixes have  *)
(* at most one border each: falling back once is then enough.              *)
THEOREM NothingIsMissed == Spec => []CompleteIfTableIs
<1>1. Init => (pc = "done" => ~InText)
  BY DEF Init
<1>2. IInv /\ MInv /\ (pc = "done" => ~InText) => CompleteIfTableIs
  BY EndMissesNothing
<1> QED
  BY <1>1, <1>2, InitEstablishes, NextPreserves, MissesBegin, MissesNext,
     StopsAtTheEnd, PTL DEF Spec

===============================================================================
