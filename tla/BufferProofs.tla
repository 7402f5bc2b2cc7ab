----------------------------- MODULE BufferProofs -----------------------------
(***************************************************************************)
(* A worker with its files, for every pattern, sequence of files, buffer   *)
(* size and line limit.  Its matcher keeps what KmpProofs shows of it.  It *)
(* never writes behind the end of its result buffer, as long as the        *)
(* matches end within the limit; and the report it leaves there is the     *)
(* excerpts of the matches in their order, under the numbers the matcher   *)
(* counted, with room for a terminator unless a line is as long as the     *)
(* limit.                                                                  *)
(***************************************************************************)
EXTENDS ResultBuffer, KmpProofs, SequenceTheorems

Hit == [pos : Nat, line : Nat]

-----------------------------------------------------------------------------
(* The matcher of a worker.                                                *)

KInv == IInv /\ LInv /\ MInv /\ (pc = "done" => ~InText)

(* Between two files the matcher has nothing left of the last one; before  *)
(* the first one it has not begun; the buffer is empty.                    *)
Waiting ==
  /\ bpc \in {"wait", "done"} =>
       /\ pc = "done" /\ text = NoText
       /\ startpos = 0 /\ text_pos = 0 /\ pat_pos = 0 /\ line_cnt = 1
  /\ bpc \in {"none", "wait", "done"} =>
       hits = << >> /\ buf = << >> /\ todo = << >>
  /\ bpc = "wait" => cap = DEFAULT_SIZE

(* The matcher at the beginning of a file.                                 *)
LEMMA FileBegins ==
  ASSUME KInv, pc = "done", text' \in Texts, UNCHANGED <<pat, kmp_table>>,
         startpos' = 0, text_pos' = 0, pat_pos' = 0, line_cnt' = 1, hits' = << >>,
         pc' \in {"match", "done"}, pc' = "done" => Len(text') = 0
  PROVE  KInv'
<1>0. Len(pat) \in Nat \ {0} /\ Len(text') \in Nat
  BY Inputs, KmpAssumption DEF KInv, IInv
<1>1. TypeOK'
  BY <1>0 DEF KInv, IInv, TypeOK
<1>2. TableHoldsBorders'
  BY DEF KInv, IInv, TableHoldsBorders, IsBorder, At
<1>3. WindowMatches' /\ Sound'
  BY DEF WindowMatches, Sound
<1>4. LInv'
  <2>1. {j \in 0..0-1 : At(text', j) = NL} = {}
    OBVIOUS
  <2>2. LineOf(text', 0) = 1
    BY <2>1, FS_EmptySet DEF LineOf
  <2> QED
    BY <2>2 DEF LInv, CounterKeepsUp, LineNumbers
<1>5. MInv'
  BY DEF MInv, Behind
<1>6. (pc = "done" => ~InText)'
  BY DEF InText
<1> QED
  BY <1>1, <1>2, <1>3, <1>4, <1>5, <1>6 DEF KInv, IInv

(* A step of the matcher keeps its invariants.                             *)
LEMMA MatcherStep == KInv /\ [Next]_vars => KInv'
BY NextPreserves, LinesNext, MissesNext, StopsAtTheEnd DEF KInv

(* Every step of a worker is one of the matcher, leaves the matcher alone, *)
(* or takes it to another file.                                            *)
LEMMA MatcherNext == KInv /\ Waiting /\ [WorkerNext]_wvars => KInv'
<1> SUFFICES ASSUME KInv, Waiting, [WorkerNext]_wvars PROVE KInv'
  OBVIOUS
<1>1. CASE Prepare \/ Match \/ NoMoreMatches
  <2>1. Next
    BY <1>1 DEF Prepare, Match, NoMoreMatches, Next
  <2> QED
    BY <2>1, MatcherStep
<1>2. CASE UNCHANGED vars
  BY <1>2, MatcherStep
<1>3. CASE reset_buffer
  BY <1>3, FileBegins, BufferAssumption DEF reset_buffer, NoText
<1>4. ASSUME NEW t \in Texts, NextFile(t) PROVE KInv'
  <2>1. /\ pc = "done" /\ pc' = "match" /\ text' \in Texts
        /\ UNCHANGED <<pat, kmp_table>>
        /\ startpos' = 0 /\ text_pos' = 0 /\ pat_pos' = 0 /\ line_cnt' = 1 /\ hits' = << >>
        /\ pc' \in {"match", "done"} /\ (pc' = "done" => Len(text') = 0)
    BY <1>4 DEF NextFile, Waiting
  <2> QED
    BY <2>1, FileBegins
<1>5. init_buffer \/ Store \/ destroy_buffer \/ WorkerDone \/ UNCHANGED wvars => UNCHANGED vars
  BY DEF init_buffer, Store, Write, GrowBegin, GrowLoop, GrowEnd, destroy_buffer,
         WorkerDone, wvars
<1> QED
  BY <1>1, <1>2, <1>3, <1>4, <1>5 DEF WorkerNext

(* Every step leaves nothing behind between two files.                     *)
LEMMA WaitingNext == Waiting /\ [WorkerNext]_wvars => Waiting'
<1> SUFFICES ASSUME Waiting, [WorkerNext]_wvars PROVE Waiting'
  OBVIOUS
<1> USE DEF Waiting
<1>1. CASE Prepare \/ Match \/ NoMoreMatches
  BY <1>1 DEF Prepare, Match, NoMoreMatches, Idle, bvars
<1>2. CASE init_buffer
  BY <1>2 DEF init_buffer
<1>3. CASE Store
  BY <1>3 DEF Store, Write, GrowBegin, GrowLoop, GrowEnd, vars
<1>4. CASE reset_buffer
  BY <1>4 DEF reset_buffer, Idle, Emptied
<1>5. ASSUME NEW t \in Texts, NextFile(t) PROVE Waiting'
  BY <1>5 DEF NextFile
<1>6. CASE destroy_buffer
  BY <1>6 DEF destroy_buffer, vars
<1>7. CASE UNCHANGED wvars
  BY <1>7 DEF wvars, vars, bvars
<1> QED
  BY <1>1, <1>2, <1>3, <1>4, <1>5, <1>6, <1>7 DEF WorkerNext, WorkerDone

(* The invariants of the matcher hold in a worker.                         *)
LEMMA MatcherInvariance == WorkerSpec => [](KInv /\ Waiting)
<1>1. WorkerInit => KInv /\ Waiting
  BY InitEstablishes, LinesBegin, MissesBegin DEF WorkerInit, Init, KInv, Waiting
<1> QED
  BY <1>1, MatcherNext, WaitingNext, PTL DEF WorkerSpec

(* A worker that writes between its searches and goes from file to file    *)
(* keeps what kmp_match promises for one file, for every pattern and every *)
(* sequence of files.                                                      *)
THEOREM MatcherKeepsItsPromises ==
  WorkerSpec => [](TypeOK /\ TableHoldsBorders /\ Sound /\ LineNumbers /\ CompleteIfTableIs)
<1>1. KInv => TypeOK /\ TableHoldsBorders /\ Sound /\ LineNumbers /\ CompleteIfTableIs
  BY EndMissesNothing DEF KInv, IInv, LInv
<1> QED
  BY <1>1, MatcherInvariance, PTL

-----------------------------------------------------------------------------
(* The lines of a file.                                                    *)

(* The pattern is a sequence of bytes other than a newline.                *)
LEMMA PatternBytes ==
  ASSUME pat \in Patterns
  PROVE  /\ pat \in Seq(Nat) /\ pat \in Seq(Byte) /\ Len(pat) \in Nat
         /\ \A k \in 1..Len(pat) : pat[k] # NL
<1>1. pat \in Seq(Char \ {NL})
  BY BufferAssumption
<1>2. pat \in Seq(Nat) /\ pat \in Seq(Int)
  <2>0. Char \subseteq Nat
    BY BufferAssumption
  <2>1. Char \ {NL} \subseteq Nat
    BY <2>0
  <2>2. pat \in Seq(Nat)
    BY <1>1, <2>1, SeqMonotonic
  <2>3. Nat \subseteq Int
    OBVIOUS
  <2> QED
    BY <2>2, <2>3, SeqMonotonic
<1>3. Len(pat) \in Nat /\ \A k \in 1..Len(pat) : pat[k] \in Char \ {NL}
  BY <1>1
<1> QED
  BY <1>2, <1>3 DEF Byte

(* An occurrence is where the pattern is cut out of the text.              *)
LEMMA OccurrenceIsSlice ==
  ASSUME NEW p \in Seq(Nat), NEW s \in Seq(Nat), NEW k \in Nat, OccursAt(p, s, k)
  PROVE  SubSeq(s, k + 1, k + Len(p)) = p
<1>1. Len(p) \in Nat /\ Len(s) \in Nat /\ k + Len(p) <= Len(s)
  BY DEF OccursAt
<1> DEFINE c == SubSeq(s, k + 1, k + Len(p))
<1>2. c \in Seq(Nat) /\ Len(c) = Len(p) /\ \A j \in 1..Len(p) : c[j] = s[k + j]
  BY <1>1
<1>3. ASSUME NEW j \in 1..Len(p) PROVE c[j] = p[j]
  <2>1. At(s, k + (j - 1)) = At(p, j - 1)
    BY <1>1 DEF OccursAt
  <2>2. k + (j - 1) + 1 = k + j /\ (j - 1) + 1 = j
    BY <1>1
  <2> QED
    BY <1>2, <2>1, <2>2 DEF At
<1> HIDE DEF c
<1>4. c = p
  BY <1>2, <1>3, SeqEqual
<1> QED
  BY <1>4 DEF c

(* Every non-empty set of natural numbers has a least element.             *)
LEMMA LeastExists ==
  ASSUME NEW T, T \subseteq Nat, T # {}
  PROVE  \E x \in T : \A y \in T : x <= y
<1>1. PICK x \in T : \A y \in T : ~(<<y, x>> \in OpToRel(<, Nat))
  BY NatLessThanWellFounded, WFMin
<1>2. \A y \in T : ~(y < x)
  BY <1>1 DEF OpToRel
<1> QED
  BY <1>2

(* begin_of_line finds a position at or before the match that starts a     *)
(* line, with no newline between the two.                                  *)
LEMMA BeginOfLineType ==
  ASSUME NEW pos \in Nat
  PROVE  /\ begin_of_line(pos) \in 0..pos
         /\ \A j \in begin_of_line(pos)..pos-1 : At(text, j) # NL
<1> DEFINE T == {d \in 0..pos : d = pos \/ At(text, pos - d - 1) = NL}
<1>1. pos \in T /\ T \subseteq Nat
  OBVIOUS
<1>2. PICK d \in T : \A y \in T : d <= y
  BY <1>1, LeastExists
<1> DEFINE b == pos - d
<1>3. b \in 0..pos /\ (b = 0 \/ At(text, b - 1) = NL)
  BY <1>2
<1>4. ASSUME NEW j \in b..pos-1 PROVE At(text, j) # NL
  <2>1. /\ pos - 1 - j \in 0..pos /\ pos - 1 - j < d
        /\ pos - (pos - 1 - j) - 1 = j
    BY <1>2
  <2>2. pos - 1 - j \notin T
    BY <1>2, <2>1
  <2> QED
    BY <2>1, <2>2
<1> QED
  BY <1>3, <1>4 DEF begin_of_line

(* The search for the end of a line stays inside the file, and stops at    *)
(* the first newline.                                                      *)
LEMMA EndOfLineType ==
  ASSUME NEW k \in Nat, Len(text) \in Nat, k <= Len(text)
  PROVE  /\ EndOfLine(k) \in k..Len(text)
         /\ EndOfLine(k) = Len(text) \/ At(text, EndOfLine(k)) = NL
         /\ \A j \in k..EndOfLine(k)-1 : At(text, j) # NL
<1> DEFINE T == {e \in k..Len(text) : e = Len(text) \/ At(text, e) = NL}
<1>1. Len(text) \in T /\ T \subseteq Nat
  OBVIOUS
<1>2. PICK e \in T : \A y \in T : e <= y
  BY <1>1, LeastExists
<1>3. \A j \in k..e-1 : At(text, j) # NL
  BY <1>2
<1> QED
  BY <1>2, <1>3 DEF EndOfLine

(* Two positions with no newline between them have the same end of line.   *)
LEMMA SameEndOfLine ==
  ASSUME Len(text) \in Nat, NEW b \in Nat, NEW r \in Nat, b <= r, r <= Len(text),
         \A j \in b..r-1 : At(text, j) # NL
  PROVE  EndOfLine(b) = EndOfLine(r)
<1> DEFINE d == EndOfLine(b)
           e == EndOfLine(r)
<1>1. /\ d \in b..Len(text) /\ (d = Len(text) \/ At(text, d) = NL)
      /\ \A j \in b..d-1 : At(text, j) # NL
  BY EndOfLineType
<1>2. /\ e \in r..Len(text) /\ (e = Len(text) \/ At(text, e) = NL)
      /\ \A j \in r..e-1 : At(text, j) # NL
  BY EndOfLineType
<1> HIDE DEF d, e
<1>3. r <= d
  <2> SUFFICES ASSUME d < r PROVE FALSE
    BY <1>1
  <2> QED
    BY <1>1
<1>4. ~(d < e)
  BY <1>1, <1>2, <1>3
<1>5. ~(e < d)
  BY <1>1, <1>2
<1> QED
  BY <1>1, <1>2, <1>4, <1>5 DEF d, e

(* kmp_match reports pos: the pattern is there.                            *)
IsMatch(pos) ==
  /\ pos \in Nat /\ pos + Len(pat) <= Len(text)
  /\ Slice(pos, pos + Len(pat)) = pat

(* The pattern has no newline, so a match ends on the line it starts on.   *)
LEMMA MatchOnOneLine ==
  ASSUME text \in Seq(Nat), pat \in Patterns, NEW pos, IsMatch(pos)
  PROVE  EndOfLine(begin_of_line(pos)) = EndOfLine(pos + Len(pat))
<1> DEFINE b == begin_of_line(pos)
           m == Len(pat)
<1>1. pos \in Nat /\ pos + m <= Len(text) /\ Len(text) \in Nat /\ m \in Nat
  BY PatternBytes DEF IsMatch
<1>2. b \in 0..pos /\ \A j \in b..pos-1 : At(text, j) # NL
  BY <1>1, BeginOfLineType
<1>3. ASSUME NEW j \in pos..pos+m-1 PROVE At(text, j) # NL
  <2>1. j + 1 \in pos + 1..pos + m /\ j - pos + 1 \in 1..m
    BY <1>1
  <2>2. \A k \in 1..m : SubSeq(text, pos + 1, pos + m)[k] = text[pos + k]
    <3>1. \A i \in pos + 1 .. pos + m : text[i] \in Nat
      BY <1>1
    <3>2. pos + 1 \in Int /\ pos + m \in Int /\ (pos + m) - (pos + 1) + 1 = m
      BY <1>1
    <3>3. \A k \in 1..m : SubSeq(text, pos + 1, pos + m)[k] = text[(pos + 1) + k - 1]
      BY <3>1, <3>2, SubSeqProperties
    <3> QED
      BY <1>1, <3>3
  <2>3. pat[j - pos + 1] = text[j + 1]
    BY <1>1, <2>1, <2>2 DEF IsMatch, Slice
  <2>4. pat[j - pos + 1] # NL
    BY <2>1, PatternBytes
  <2> QED
    BY <2>3, <2>4 DEF At
<1> HIDE DEF b
<1>4. \A j \in b..(pos+m)-1 : At(text, j) # NL
  BY <1>1, <1>2, <1>3
<1>5. EndOfLine(b) = EndOfLine(pos + m)
  BY <1>1, <1>2, <1>4, SameEndOfLine
<1> QED
  BY <1>5 DEF b

(* A part of the file.                                                     *)
LEMMA SliceType ==
  ASSUME text \in Seq(Nat), NEW a \in Nat, NEW b \in Nat, a <= b, b <= Len(text)
  PROVE  Slice(a, b) \in Seq(Byte) /\ Len(Slice(a, b)) = b - a
<1>1. \A i \in a + 1 .. b : text[i] \in Byte
  BY DEF Byte
<1> QED
  BY <1>1, SubSeqProperties DEF Slice

(* The escape sequences.                                                   *)
LEMMA RepeatedType ==
  ASSUME NEW x \in Int, NEW k \in Nat
  PROVE  Repeated(x, k) \in Seq(Byte) /\ Len(Repeated(x, k)) = k
BY DEF Repeated, Byte

(* Putting two pieces of a line together.                                  *)
LEMMA ConcatBytes ==
  ASSUME NEW s \in Seq(Byte), NEW t \in Seq(Byte)
  PROVE  s \o t \in Seq(Byte) /\ Len(s \o t) = Len(s) + Len(t)
BY ConcatProperties

(* The line limit cuts the rest of a line only where it is reached.        *)
LEMMA RestOfLine ==
  ASSUME text \in Seq(Nat), pat \in Patterns, NEW pos \in Nat, pos + Len(pat) <= Len(text)
  PROVE  LET b == begin_of_line(pos)
             r == pos + Len(pat)
             q == RestLen(b, pos)
         IN  /\ b \in Nat /\ b <= pos
             /\ q \in Nat /\ r + q <= EndOfLine(r)
             /\ EndOfLine(r) \in Nat /\ EndOfLine(r) <= Len(text)
             /\ NearStart(pos) =>
                  r + q = IF EndOfLine(r) - b <= MaxLine THEN EndOfLine(r)
                                                         ELSE b + MaxLine
<1> DEFINE b == begin_of_line(pos)
           m == Len(pat)
           r == pos + m
           q == RestLen(b, pos)
           e == EndOfLine(r)
<1>0. m \in Nat /\ MaxLine \in Nat /\ Len(text) \in Nat
  BY BufferAssumption, PatternBytes
<1>1. b \in Nat /\ b <= pos
  BY BeginOfLineType
<1>2. e \in Nat /\ r <= e /\ e <= Len(text)
  BY <1>0, EndOfLineType
<1>3. q = IF MaxLine - (pos - b) - m >= 0 /\ MaxLine - (pos - b) - m < e - r
          THEN MaxLine - (pos - b) - m ELSE e - r
  BY DEF RestLen
<1>4. NearStart(pos) <=> (pos - b) + m <= MaxLine
  BY DEF NearStart
<1> HIDE DEF b, m, e, q
<1>5. /\ q \in Nat /\ r + q <= e
      /\ NearStart(pos) => r + q = IF e - b <= MaxLine THEN e ELSE b + MaxLine
  BY <1>0, <1>1, <1>2, <1>3, <1>4
<1> QED
  BY <1>1, <1>2, <1>5 DEF b, m, e, q

(* The pieces a coloured line is put together from.                        *)
LEMMA LinePieces ==
  ASSUME text \in Seq(Nat), pat \in Patterns, NEW pos \in Nat, pos + Len(pat) <= Len(text)
  PROVE  LET b == begin_of_line(pos)
             r == pos + Len(pat)
             q == RestLen(b, pos)
         IN  /\ Slice(b, pos) \in Seq(Byte) /\ Len(Slice(b, pos)) = pos - b
             /\ Slice(pos, r) \in Seq(Byte) /\ Len(Slice(pos, r)) = Len(pat)
             /\ Slice(r, r + q) \in Seq(Byte) /\ Len(Slice(r, r + q)) = q
             /\ HILI_COLOR \in Seq(Byte) /\ Len(HILI_COLOR) = HiliLen
             /\ RESET_COLOR \in Seq(Byte) /\ Len(RESET_COLOR) = ResetLen
<1> DEFINE b == begin_of_line(pos)
           m == Len(pat)
           r == pos + m
           q == RestLen(b, pos)
<1>0. m \in Nat /\ HiliLen \in Nat /\ ResetLen \in Nat /\ Len(text) \in Nat
  BY BufferAssumption, PatternBytes
<1>1. b \in Nat /\ b <= pos /\ q \in Nat /\ r + q <= Len(text)
  BY <1>0, RestOfLine
<1> HIDE DEF b, m, q
<1>2. /\ r \in Nat /\ pos <= r /\ r <= Len(text) /\ r - pos = m /\ pos <= Len(text)
      /\ r + q \in Nat /\ r <= r + q /\ (r + q) - r = q
  BY <1>0, <1>1 DEF m
<1> HIDE DEF r
<1>3. Slice(b, pos) \in Seq(Byte) /\ Len(Slice(b, pos)) = pos - b
  BY <1>1, <1>2, SliceType
<1>4. Slice(pos, r) \in Seq(Byte) /\ Len(Slice(pos, r)) = m
  <2>1. Slice(pos, r) \in Seq(Byte) /\ Len(Slice(pos, r)) = r - pos
    BY <1>2, SliceType
  <2> QED
    BY <1>2, <2>1
<1>5. Slice(r, r + q) \in Seq(Byte) /\ Len(Slice(r, r + q)) = q
  <2>1. Slice(r, r + q) \in Seq(Byte) /\ Len(Slice(r, r + q)) = (r + q) - r
    BY <1>1, <1>2, SliceType
  <2> QED
    BY <1>2, <2>1
<1>6. /\ HILI_COLOR \in Seq(Byte) /\ Len(HILI_COLOR) = HiliLen
      /\ RESET_COLOR \in Seq(Byte) /\ Len(RESET_COLOR) = ResetLen
  BY <1>0, RepeatedType DEF HILI_COLOR, RESET_COLOR
<1> QED
  BY <1>3, <1>4, <1>5, <1>6 DEF b, m, r, q

(* The line that holds pos has MaxLine bytes or more.                      *)
LongLine(pos) == EndOfLine(begin_of_line(pos)) - begin_of_line(pos) >= MaxLine

(* What is written for a match fits in what is asked for, if the match     *)
(* ends within the limit, and uses all of it only for a long line.         *)
LEMMA ColoredFits ==
  ASSUME text \in Seq(Nat), pat \in Patterns, NEW pos \in Nat, pos + Len(pat) <= Len(text)
  PROVE  /\ Colored(pos) \in Seq(Byte)
         /\ NearStart(pos) => Len(Colored(pos)) <= MaxLine + HiliLen + ResetLen
         /\ NearStart(pos) /\ IsMatch(pos) /\ ~LongLine(pos) =>
              Len(Colored(pos)) < MaxLine + HiliLen + ResetLen
<1> DEFINE b == begin_of_line(pos)
           m == Len(pat)
           r == pos + m
           q == RestLen(b, pos)
           e == EndOfLine(r)
           s1 == Slice(b, pos)
           s2 == Slice(pos, r)
           s3 == Slice(r, r + q)
<1>0. m \in Nat /\ MaxLine \in Nat /\ HiliLen \in Nat /\ ResetLen \in Nat
  BY BufferAssumption, PatternBytes
<1>1. /\ b \in Nat /\ b <= pos /\ q \in Nat /\ e \in Nat /\ r + q <= e
      /\ NearStart(pos) => r + q = IF e - b <= MaxLine THEN e ELSE b + MaxLine
  BY RestOfLine
<1>2. /\ s1 \in Seq(Byte) /\ Len(s1) = pos - b
      /\ s2 \in Seq(Byte) /\ Len(s2) = m
      /\ s3 \in Seq(Byte) /\ Len(s3) = q
      /\ HILI_COLOR \in Seq(Byte) /\ Len(HILI_COLOR) = HiliLen
      /\ RESET_COLOR \in Seq(Byte) /\ Len(RESET_COLOR) = ResetLen
  BY LinePieces
<1>3. Colored(pos) = s1 \o HILI_COLOR \o s2 \o RESET_COLOR \o s3
  BY DEF Colored
<1>4. IsMatch(pos) => (LongLine(pos) <=> e - b >= MaxLine)
  BY MatchOnOneLine DEF LongLine
<1> HIDE DEF s1, s2, s3, q, b, m, e
<1>5. /\ Colored(pos) \in Seq(Byte)
      /\ Len(Colored(pos)) = (pos - b) + HiliLen + m + ResetLen + q
  <2> DEFINE t1 == s1 \o HILI_COLOR
             t2 == t1 \o s2
             t3 == t2 \o RESET_COLOR
             t4 == t3 \o s3
  <2>1. t1 \in Seq(Byte) /\ Len(t1) = Len(s1) + Len(HILI_COLOR)
    BY <1>2, ConcatBytes
  <2> HIDE DEF t1
  <2>2. t2 \in Seq(Byte) /\ Len(t2) = Len(t1) + Len(s2)
    BY <1>2, <2>1, ConcatBytes
  <2> HIDE DEF t2
  <2>3. t3 \in Seq(Byte) /\ Len(t3) = Len(t2) + Len(RESET_COLOR)
    BY <1>2, <2>2, ConcatBytes
  <2> HIDE DEF t3
  <2>4. t4 \in Seq(Byte) /\ Len(t4) = Len(t3) + Len(s3)
    BY <1>2, <2>3, ConcatBytes
  <2> HIDE DEF t4
  <2>5. Colored(pos) = t4
    BY <1>3 DEF t1, t2, t3, t4
  <2> QED
    BY <1>2, <2>1, <2>2, <2>3, <2>4, <2>5
<1>6. Len(Colored(pos)) = (r + q) - b + HiliLen + ResetLen
  BY <1>0, <1>1, <1>5
<1>7. NearStart(pos) => Len(Colored(pos)) <= MaxLine + HiliLen + ResetLen
  BY <1>0, <1>1, <1>6
<1>8. NearStart(pos) /\ IsMatch(pos) /\ ~LongLine(pos) =>
        Len(Colored(pos)) < MaxLine + HiliLen + ResetLen
  BY <1>0, <1>1, <1>4, <1>6
<1> QED
  BY <1>5, <1>7, <1>8

(* The line number and the coloured line are the excerpt of a match that   *)
(* ends within the limit.                                                  *)
LEMMA ColoredIsExcerpt ==
  ASSUME text \in Seq(Nat), pat \in Patterns, NEW h \in Hit, IsMatch(h.pos),
         NearStart(h.pos)
  PROVE  Excerpt(h) = LinumText(h.line) \o Colored(h.pos)
<1> DEFINE pos == h.pos
           b == begin_of_line(pos)
           r == pos + Len(pat)
           q == RestLen(b, pos)
           full == EndOfLine(b)
           eol == IF full - b <= MaxLine THEN full ELSE b + MaxLine
           num == LinumText(h.line)
<1>1. pos \in Nat /\ r <= Len(text) /\ Slice(pos, r) = pat
  BY DEF IsMatch
<1>2. r + q = eol
  BY <1>1, RestOfLine, MatchOnOneLine
<1>3. /\ Slice(b, pos) \in Seq(Byte)
      /\ pat \in Seq(Byte)
      /\ Slice(r, r + q) \in Seq(Byte)
      /\ HILI_COLOR \in Seq(Byte)
      /\ RESET_COLOR \in Seq(Byte)
  BY <1>1, LinePieces
<1>4. num \in Seq(Byte)
  <2>1. -2 - h.line \in Int
    BY DEF Hit
  <2> QED
    BY <2>1, RepeatedType, BufferAssumption DEF LinumText
<1>5. Colored(pos) = Slice(b, pos) \o HILI_COLOR \o pat \o RESET_COLOR \o Slice(r, r + q)
  BY <1>1 DEF Colored
<1>6. Excerpt(h) = num \o Slice(b, pos) \o HILI_COLOR \o pat \o RESET_COLOR \o Slice(r, eol)
  BY DEF Excerpt
<1> HIDE DEF b, r, q, full, eol, num
<1>7. Excerpt(h) = num \o Slice(b, pos) \o HILI_COLOR \o pat \o RESET_COLOR \o Slice(r, r + q)
  BY <1>2, <1>6
<1>8. num \o (Slice(b, pos) \o HILI_COLOR \o pat \o RESET_COLOR \o Slice(r, r + q)) =
        num \o Slice(b, pos) \o HILI_COLOR \o pat \o RESET_COLOR \o Slice(r, r + q)
  BY <1>3, <1>4, SMTT(30)
<1>9. num \o Colored(pos) = Excerpt(h)
  BY <1>5, <1>7, <1>8
<1> QED
  BY <1>9 DEF num

-----------------------------------------------------------------------------
(* The invariant of the buffer.                                            *)

(* The writes under way ask for at least the room they need.               *)
RoomSuffices == \A i \in 1..Len(todo) : Len(todo[i].bytes) <= todo[i].ask

BInv == BufferTypeOK /\ (AllNear => Len(buf) <= cap /\ RoomSuffices)

(* The two writes of a match.                                              *)
NumberWrite(h) == [bytes |-> LinumText(h.line), ask |-> LinumLen]
LineWrite(h) == [bytes |-> Colored(h.pos), ask |-> MaxLine + HiliLen + ResetLen]

(* The file and the pattern are bytes, the matches are occurrences.        *)
LEMMA MatcherTypes ==
  ASSUME KInv
  PROVE  /\ text \in Seq(Nat) /\ pat \in Patterns /\ hits \in Seq(Hit)
         /\ Len(hits) \in Nat
         /\ \A i \in 1..Len(hits) : hits[i] \in Hit /\ IsMatch(hits[i].pos)
<1>1. pat \in Patterns /\ text \in Seq(Char) /\ hits \in Seq(Hit)
  BY KmpAssumption DEF KInv, IInv, TypeOK, Hit
<1>2. text \in Seq(Nat)
  BY <1>1, BufferAssumption, SeqMonotonic
<1>3. ASSUME NEW i \in 1..Len(hits) PROVE hits[i] \in Hit /\ IsMatch(hits[i].pos)
  <2>1. hits[i] \in Hit
    BY <1>1
  <2>2. hits[i].pos \in Nat
    BY <2>1 DEF Hit
  <2>3. OccursAt(pat, text, hits[i].pos)
    BY DEF KInv, IInv, Sound
  <2>4. SubSeq(text, hits[i].pos + 1, hits[i].pos + Len(pat)) = pat
    BY <1>1, <1>2, <2>2, <2>3, PatternBytes, OccurrenceIsSlice
  <2> QED
    BY <2>1, <2>2, <2>3, <2>4 DEF IsMatch, Slice, OccursAt
<1> QED
  BY <1>1, <1>2, <1>3

(* There is no buffer at the start.                                        *)
LEMMA BufferBegins == WorkerInit => BInv
BY DEF WorkerInit, BInv, BufferTypeOK, RoomSuffices

(* The premise is about the file, the pattern and the matches only.        *)
LEMMA NearUnchanged ==
  ASSUME UNCHANGED <<text, pat, hits>>
  PROVE  AllNear' <=> AllNear
BY DEF AllNear, NearStart, begin_of_line, At

(* An iteration of kmp_match adds a match or none.                         *)
LEMMA MatchCases ==
  ASSUME KInv, KInv', Match
  PROVE  /\ UNCHANGED <<text, pat, bpc, buf, cap, newcap>> /\ bpc = "ready" /\ todo = << >>
         /\ \/ UNCHANGED <<hits, todo>>
            \/ \E h \in Hit :
                 /\ hits' = Append(hits, h) /\ IsMatch(h.pos)
                 /\ Len(hits') = Len(hits) + 1 /\ hits'[Len(hits')] = h
                 /\ \A i \in 1..Len(hits) : hits'[i] = hits[i]
                 /\ todo' = <<NumberWrite(h), LineWrite(h)>>
<1>1. /\ UNCHANGED <<text, pat, bpc, buf, cap, newcap>> /\ bpc = "ready" /\ todo = << >>
      /\ hits' = hits \/ \E h : hits' = Append(hits, h)
  BY DEF Match, MatchStep, Idle, Agree, Found, GiveUp
<1>2. /\ hits \in Seq(Hit) /\ hits' \in Seq(Hit) /\ Len(hits) \in Nat
      /\ text \in Seq(Nat) /\ pat \in Patterns
  BY MatcherTypes DEF KInv, IInv, TypeOK, Hit
<1>3. CASE hits' = hits
  BY <1>1, <1>3 DEF Match
<1>4. CASE hits' # hits
  <2>1. PICK h : hits' = Append(hits, h)
    BY <1>1, <1>4
  <2>2. /\ Len(hits') = Len(hits) + 1 /\ hits'[Len(hits')] = h
        /\ \A i \in 1..Len(hits) : hits'[i] = hits[i]
    BY <1>2, <2>1
  <2>3. h \in Hit
    BY <1>2, <2>2
  <2>4. OccursAt(pat, text, h.pos)
    BY <1>1, <1>2, <2>2 DEF KInv, IInv, Sound
  <2>5. IsMatch(h.pos)
    <3>1. h.pos \in Nat
      BY <2>3 DEF Hit
    <3>2. SubSeq(text, h.pos + 1, h.pos + Len(pat)) = pat
      BY <1>2, <2>4, <3>1, PatternBytes, OccurrenceIsSlice
    <3> QED
      BY <2>4, <3>1, <3>2 DEF IsMatch, Slice, OccursAt
  <2>6. todo' = <<NumberWrite(h), LineWrite(h)>>
    BY <1>4, <2>2 DEF Match, worker_writebuffer, NumberWrite, LineWrite
  <2> QED
    BY <1>1, <2>1, <2>2, <2>3, <2>5, <2>6
<1> QED
  BY <1>3, <1>4

(* What the model says of a match depends on the file and the pattern.     *)
LEMMA TextUnchanged ==
  ASSUME UNCHANGED <<text, pat>>
  PROVE  /\ \A p : LongLine(p)' <=> LongLine(p)
         /\ \A p : NearStart(p)' <=> NearStart(p)
         /\ \A h : Excerpt(h)' = Excerpt(h)
         /\ \A h : NumberWrite(h)' = NumberWrite(h)
         /\ \A h : LineWrite(h)' = LineWrite(h)
<1> USE DEF begin_of_line, EndOfLine, At, Slice
<1>1. \A p : LongLine(p)' <=> LongLine(p)
  BY DEF LongLine
<1>2. \A p : NearStart(p)' <=> NearStart(p)
  BY DEF NearStart
<1>3. \A h : Excerpt(h)' = Excerpt(h)
  BY DEF Excerpt
<1>4. \A h : NumberWrite(h)' = NumberWrite(h)
  BY DEF NumberWrite
<1>5. \A h : LineWrite(h)' = LineWrite(h)
  BY DEF LineWrite, Colored, RestLen
<1> QED
  BY <1>1, <1>2, <1>3, <1>4, <1>5

(* The two writes of a match carry bytes, together its excerpt.            *)
LEMMA WritesOfMatch ==
  ASSUME text \in Seq(Nat), pat \in Patterns, NEW h \in Hit, IsMatch(h.pos)
  PROVE  /\ NumberWrite(h) \in WriteReq /\ LineWrite(h) \in WriteReq
         /\ NumberWrite(h).bytes \in Seq(Byte) /\ LineWrite(h).bytes \in Seq(Byte)
         /\ LineWrite(h).ask = MaxLine + HiliLen + ResetLen
         /\ Len(NumberWrite(h).bytes) <= NumberWrite(h).ask
         /\ NearStart(h.pos) => Len(LineWrite(h).bytes) <= LineWrite(h).ask
         /\ NearStart(h.pos) =>
              Excerpt(h) = NumberWrite(h).bytes \o LineWrite(h).bytes
         /\ NearStart(h.pos) /\ ~LongLine(h.pos) =>
              Len(LineWrite(h).bytes) < LineWrite(h).ask
<1>1. h.pos \in Nat /\ h.pos + Len(pat) <= Len(text)
  BY DEF IsMatch
<1>2. LinumText(h.line) \in Seq(Byte) /\ Len(LinumText(h.line)) = LinumLen
  <2>1. -2 - h.line \in Int
    BY DEF Hit
  <2> QED
    BY <2>1, RepeatedType, BufferAssumption DEF LinumText
<1>3. /\ Colored(h.pos) \in Seq(Byte)
      /\ NearStart(h.pos) => Len(Colored(h.pos)) <= MaxLine + HiliLen + ResetLen
      /\ NearStart(h.pos) /\ ~LongLine(h.pos) =>
           Len(Colored(h.pos)) < MaxLine + HiliLen + ResetLen
  BY <1>1, ColoredFits
<1>4. NearStart(h.pos) => Excerpt(h) = LinumText(h.line) \o Colored(h.pos)
  BY ColoredIsExcerpt
<1>5. LinumLen \in Nat /\ MaxLine + HiliLen + ResetLen \in Nat
  BY BufferAssumption
<1> QED
  BY <1>2, <1>3, <1>4, <1>5 DEF NumberWrite, LineWrite, WriteReq

(* The room a write needs.                                                 *)
LEMMA NeedType ==
  ASSUME todo # << >>, todo \in Seq(WriteReq), buf \in Seq(Byte)
  PROVE  Need \in Int
<1>1. Head(todo) \in WriteReq
  OBVIOUS
<1> QED
  BY <1>1 DEF Need, WriteReq

(* Copying the first write of the queue into a buffer that has the room.   *)
LEMMA CopyKeepsInvariant ==
  ASSUME BInv, todo # << >>, Copy, NEW c \in Nat, Need <= c, cap' = c,
         bpc' = "ready", newcap' = newcap,
         UNCHANGED <<text, pat, hits>>
  PROVE  BInv'
<1> DEFINE w == Head(todo)
<1>1. todo \in Seq(WriteReq) /\ buf \in Seq(Byte)
  BY DEF BInv, BufferTypeOK
<1>2. /\ w \in WriteReq /\ Tail(todo) \in Seq(WriteReq) /\ w = todo[1]
      /\ Len(todo) \in Nat \ {0} /\ Len(Tail(todo)) = Len(todo) - 1
      /\ \A i \in 1..Len(Tail(todo)) : Tail(todo)[i] = todo[i + 1]
  BY <1>1
<1>3. w.bytes \in Seq(Byte) /\ w.ask \in Nat
  BY <1>2 DEF WriteReq
<1>4. /\ buf' \in Seq(Byte) /\ Len(buf') = Len(buf) + Len(w.bytes)
      /\ Len(buf) \in Nat /\ Len(w.bytes) \in Nat
  BY <1>1, <1>3, ConcatProperties DEF Copy
<1>5. BufferTypeOK'
  BY <1>2, <1>4 DEF BInv, BufferTypeOK, Copy
<1>6. AllNear' => AllNear
  BY NearUnchanged
<1>7. ASSUME AllNear PROVE Len(buf') <= cap' /\ RoomSuffices'
  <2>1. Len(w.bytes) <= w.ask
    BY <1>2, <1>7 DEF BInv, RoomSuffices
  <2>2. Len(buf') <= cap'
    BY <1>3, <1>4, <2>1 DEF Need
  <2>3. RoomSuffices'
    BY <1>2, <1>7 DEF BInv, RoomSuffices, Copy
  <2> QED
    BY <2>2, <2>3
<1> QED
  BY <1>5, <1>6, <1>7 DEF BInv

(* Every step keeps the invariant.                                         *)
LEMMA BufferNext == KInv /\ KInv' /\ Waiting /\ BInv /\ [WorkerNext]_wvars => BInv'
<1> SUFFICES ASSUME KInv, KInv', Waiting, BInv, [WorkerNext]_wvars PROVE BInv'
  OBVIOUS
<1>1. CASE init_buffer
  <2>1. BufferTypeOK'
    BY <1>1, BufferAssumption DEF init_buffer, Emptied, BInv, BufferTypeOK
  <2>2. AllNear' => AllNear
    BY <1>1, NearUnchanged DEF init_buffer, vars
  <2>3. Len(buf') <= cap'
    BY <1>1, BufferAssumption DEF init_buffer, Emptied
  <2>4. RoomSuffices => RoomSuffices'
    BY <1>1 DEF init_buffer, RoomSuffices
  <2> QED
    BY <2>1, <2>2, <2>3, <2>4 DEF BInv
<1>2. CASE Match
  <2>0. /\ UNCHANGED <<text, pat, bpc, buf, cap, newcap>> /\ bpc = "ready" /\ todo = << >>
        /\ text \in Seq(Nat) /\ pat \in Patterns /\ Len(hits) \in Nat
    BY <1>2, MatchCases, MatcherTypes
  <2>1. CASE UNCHANGED <<hits, todo>>
    <3>1. BufferTypeOK'
      BY <2>0, <2>1 DEF BInv, BufferTypeOK
    <3>2. AllNear' => AllNear
      BY <2>0, <2>1, NearUnchanged
    <3> QED
      BY <2>0, <2>1, <3>1, <3>2 DEF BInv, RoomSuffices
  <2>2. CASE ~UNCHANGED <<hits, todo>>
    <3>1. PICK h \in Hit :
            /\ IsMatch(h.pos) /\ Len(hits') = Len(hits) + 1 /\ hits'[Len(hits')] = h
            /\ \A i \in 1..Len(hits) : hits'[i] = hits[i]
            /\ todo' = <<NumberWrite(h), LineWrite(h)>>
      BY <1>2, <2>2, MatchCases
    <3> DEFINE w1 == NumberWrite(h)
               w2 == LineWrite(h)
    <3>2. /\ w1 \in WriteReq /\ w2 \in WriteReq /\ Len(w1.bytes) <= w1.ask
          /\ NearStart(h.pos) => Len(w2.bytes) <= w2.ask
      BY <2>0, <3>1, WritesOfMatch
    <3>3. todo' = <<w1, w2>>
      BY <3>1
    <3> HIDE DEF w1, w2
    <3>4. BufferTypeOK'
      BY <2>0, <3>2, <3>3 DEF BInv, BufferTypeOK
    <3>5. AllNear' => AllNear /\ NearStart(h.pos)
      <4>1. \A p : NearStart(p)' <=> NearStart(p)
        BY <2>0, TextUnchanged
      <4> QED
        BY <2>0, <3>1, <4>1 DEF AllNear
    <3>6. AllNear' => Len(buf') <= cap' /\ RoomSuffices'
      BY <2>0, <3>2, <3>3, <3>5 DEF BInv, RoomSuffices
    <3> QED
      BY <3>4, <3>6 DEF BInv
  <2> QED
    BY <2>1, <2>2
<1>3. CASE Write
  BY <1>3, CopyKeepsInvariant DEF Write, BInv, BufferTypeOK, vars
<1>4. CASE GrowBegin \/ GrowLoop
  <2>1. BufferTypeOK'
    BY <1>4 DEF GrowBegin, GrowLoop, BInv, BufferTypeOK
  <2>2. UNCHANGED <<text, pat, hits, buf, cap, todo>>
    BY <1>4 DEF GrowBegin, GrowLoop, vars
  <2>3. AllNear' => AllNear
    BY <2>2, NearUnchanged
  <2> QED
    BY <2>1, <2>2, <2>3 DEF BInv, RoomSuffices
<1>5. CASE GrowEnd
  <2>1. Need \in Int
    BY <1>5, NeedType DEF GrowEnd, BInv, BufferTypeOK
  <2> QED
    BY <1>5, <2>1, CopyKeepsInvariant DEF GrowEnd, BInv, BufferTypeOK, vars
<1>6. CASE reset_buffer
  <2>1. BufferTypeOK' /\ Len(buf') <= cap'
    BY <1>6, BufferAssumption DEF reset_buffer, Idle, Emptied, BInv, BufferTypeOK
  <2>2. RoomSuffices'
    BY <1>6 DEF reset_buffer, Idle, RoomSuffices
  <2> QED
    BY <2>1, <2>2 DEF BInv
<1>7. ASSUME NEW t \in Texts, NextFile(t) PROVE BInv'
  <2>1. BufferTypeOK'
    BY <1>7 DEF NextFile, BInv, BufferTypeOK
  <2>2. Len(buf') <= cap' /\ RoomSuffices'
    BY <1>7 DEF NextFile, Waiting, RoomSuffices, BInv, BufferTypeOK
  <2> QED
    BY <2>1, <2>2 DEF BInv
<1>8. CASE destroy_buffer
  <2>1. BufferTypeOK' /\ Len(buf') <= cap'
    BY <1>8 DEF destroy_buffer, BInv, BufferTypeOK
  <2>2. AllNear' => AllNear
    BY <1>8, NearUnchanged DEF destroy_buffer, vars
  <2>3. RoomSuffices => RoomSuffices'
    BY <1>8 DEF destroy_buffer, RoomSuffices
  <2> QED
    BY <2>1, <2>2, <2>3 DEF BInv
<1>9. CASE Prepare \/ NoMoreMatches \/ UNCHANGED wvars
  <2>1. UNCHANGED <<text, pat, hits, bpc, buf, cap, newcap, todo>>
    BY <1>9 DEF Prepare, PrepareStep, PrepareDone, NoMoreMatches, Exhausted, wvars, vars, bvars
  <2>2. BufferTypeOK'
    BY <2>1 DEF BInv, BufferTypeOK
  <2>3. AllNear' => AllNear
    BY <2>1, NearUnchanged
  <2> QED
    BY <2>1, <2>2, <2>3 DEF BInv, RoomSuffices
<1> QED
  BY <1>1, <1>2, <1>3, <1>4, <1>5, <1>6, <1>7, <1>8, <1>9 DEF WorkerNext, Store, WorkerDone

(* The invariants hold throughout.                                         *)
LEMMA BufferInvariance == WorkerSpec => [](KInv /\ Waiting /\ BInv)
<1>1. KInv /\ Waiting /\ BInv /\ [WorkerNext]_wvars => (KInv /\ Waiting /\ BInv)'
  BY MatcherNext, WaitingNext, BufferNext
<1> QED
  BY <1>1, MatcherInvariance, BufferBegins, PTL DEF WorkerSpec

(* The result buffer is never overrun by matches that end within the line  *)
(* limit, for every file and every choice of the sizes.                    *)
THEOREM BufferIsNeverOverrun == WorkerSpec => []WithinCapacity
<1>1. BInv => WithinCapacity
  BY DEF BInv, WithinCapacity
<1> QED
  BY <1>1, BufferInvariance, PTL

(* Every variable of the result buffer stays in its type: buffer_grow is   *)
(* only entered for a write.                                               *)
THEOREM BufferTypeCorrect == WorkerSpec => []BufferTypeOK
<1>1. BInv => BufferTypeOK
  BY DEF BInv
<1> QED
  BY <1>1, BufferInvariance, PTL

-----------------------------------------------------------------------------
(* The report.  What is printed is fixed when a match is queued: what the  *)
(* buffer holds and what is still to be copied into it are together the    *)
(* excerpts of the matches, whichever of them the buffer was grown for.    *)

Last == hits[Len(hits)]

(* The writes under way are those of the last match.                       *)
Queue ==
  todo # << >> => /\ bpc \in {"ready", "grow"} /\ hits # << >>
                  /\ \/ todo = <<NumberWrite(Last), LineWrite(Last)>>
                     \/ todo = <<LineWrite(Last)>>

(* The bytes of the writes in a queue.                                     *)
BytesOf(queue) ==
  IF Len(queue) = 0 THEN << >>
  ELSE IF Len(queue) = 1 THEN queue[1].bytes
  ELSE queue[1].bytes \o queue[2].bytes

(* whole falls into the excerpts of the matches, at the offsets off.       *)
FallsInto(whole, off) ==
  /\ off \in [0..Len(hits) -> Nat]
  /\ off[0] = 0 /\ off[Len(hits)] = Len(whole)
  /\ \A k \in 0..Len(hits) : off[k] <= Len(whole)
  /\ \A k \in 1..Len(hits) :
       /\ off[k] = off[k - 1] + Len(Excerpt(hits[k]))
       /\ SubSeq(whole, off[k - 1] + 1, off[k]) = Excerpt(hits[k])

Report == AllNear => \E off : FallsInto(buf \o BytesOf(todo), off)

SInv == KInv /\ Waiting /\ BInv /\ Queue /\ TerminatorFits /\ Report

(* The last match.                                                         *)
LEMMA LastMatch ==
  ASSUME KInv, hits # << >>
  PROVE  Len(hits) \in Nat \ {0} /\ Last \in Hit /\ IsMatch(Last.pos)
<1>1. Len(hits) \in Nat \ {0}
  BY MatcherTypes
<1> QED
  BY <1>1, MatcherTypes DEF Last

(* A copy takes the line number, or the line behind it.                    *)
LEMMA CopyCases ==
  ASSUME KInv, Queue, todo # << >>, Copy
  PROVE  /\ hits # << >> /\ Len(hits) \in Nat \ {0} /\ Last \in Hit /\ IsMatch(Last.pos)
         /\ \/ /\ todo = <<NumberWrite(Last), LineWrite(Last)>>
               /\ todo' = <<LineWrite(Last)>>
               /\ buf' = buf \o NumberWrite(Last).bytes
               /\ Need = Len(buf) + LinumLen
            \/ /\ todo = <<LineWrite(Last)>>
               /\ todo' = << >>
               /\ buf' = buf \o LineWrite(Last).bytes
               /\ Need = Len(buf) + LineWrite(Last).ask
<1>1. hits # << >>
  BY DEF Queue
<1>2. Len(hits) \in Nat \ {0} /\ Last \in Hit /\ IsMatch(Last.pos)
  BY <1>1, LastMatch
<1>3. \/ todo = <<NumberWrite(Last), LineWrite(Last)>>
      \/ todo = <<LineWrite(Last)>>
  BY DEF Queue
<1> DEFINE n == NumberWrite(Last)
           l == LineWrite(Last)
<1>4. n.ask = LinumLen
  BY DEF NumberWrite
<1> HIDE DEF n, l
<1>5. ASSUME todo = <<n, l>>
      PROVE  todo' = <<l>> /\ buf' = buf \o n.bytes /\ Need = Len(buf) + LinumLen
  BY <1>4, <1>5 DEF Copy, Need
<1>6. ASSUME todo = <<l>>
      PROVE  todo' = << >> /\ buf' = buf \o l.bytes /\ Need = Len(buf) + l.ask
  BY <1>6 DEF Copy, Need
<1> QED
  BY <1>1, <1>2, <1>3, <1>5, <1>6 DEF n, l

(* Nothing is said of an empty queue, and a step that leaves the file, the *)
(* matches and the writes alone leaves what is said of them alone.         *)
LEMMA QueueUnchanged ==
  ASSUME Queue, UNCHANGED <<text, pat, hits, todo>>, bpc' \in {"ready", "grow"} \/ bpc' = bpc
  PROVE  Queue'
<1>1. /\ \A h : NumberWrite(h)' = NumberWrite(h)
      /\ \A h : LineWrite(h)' = LineWrite(h)
  BY TextUnchanged
<1>2. Last' = Last
  BY DEF Last
<1> QED
  BY <1>1, <1>2 DEF Queue

(* A copy leaves the line of the last match in the queue, or nothing.      *)
LEMMA CopyKeepsQueue ==
  ASSUME KInv, Queue, todo # << >>, Copy, bpc' = "ready", UNCHANGED <<text, pat, hits>>
  PROVE  Queue'
<1>1. \A h : LineWrite(h)' = LineWrite(h)
  BY TextUnchanged
<1>2. Last' = Last
  BY DEF Last
<1>3. hits # << >> /\ (todo' = <<LineWrite(Last)>> \/ todo' = << >>)
  BY CopyCases
<1> QED
  BY <1>1, <1>2, <1>3 DEF Queue

(* Every step keeps the writes under way those of the last match.          *)
LEMMA QueueNext ==
  KInv /\ KInv' /\ Waiting /\ BInv /\ Queue /\ [WorkerNext]_wvars => Queue'
<1> SUFFICES ASSUME KInv, KInv', Waiting, BInv, Queue, [WorkerNext]_wvars PROVE Queue'
  OBVIOUS
<1>1. CASE todo' = << >>
  BY <1>1 DEF Queue
<1>2. CASE Match
  <2>1. UNCHANGED <<text, pat, bpc>> /\ bpc = "ready" /\ Len(hits) \in Nat
    BY <1>2, MatchCases, MatcherTypes
  <2>2. CASE UNCHANGED <<hits, todo>>
    BY <2>1, <2>2, QueueUnchanged
  <2>3. CASE ~UNCHANGED <<hits, todo>>
    <3>1. PICK h \in Hit :
            /\ Len(hits') = Len(hits) + 1 /\ hits'[Len(hits')] = h
            /\ todo' = <<NumberWrite(h), LineWrite(h)>>
      BY <1>2, <2>3, MatchCases
    <3>2. hits' # << >> /\ Last' = h
      BY <2>1, <3>1 DEF Last
    <3>3. NumberWrite(h)' = NumberWrite(h) /\ LineWrite(h)' = LineWrite(h)
      BY <2>1, TextUnchanged
    <3> QED
      BY <2>1, <3>1, <3>2, <3>3 DEF Queue
  <2> QED
    BY <2>2, <2>3
<1>3. CASE Write
  BY <1>3, CopyKeepsQueue DEF Write, vars
<1>4. CASE GrowBegin \/ GrowLoop
  BY <1>4, QueueUnchanged DEF GrowBegin, GrowLoop, vars
<1>5. CASE GrowEnd
  BY <1>5, CopyKeepsQueue DEF GrowEnd, BInv, BufferTypeOK, vars
<1>6. CASE reset_buffer
  BY <1>1, <1>6 DEF reset_buffer, Idle
<1>7. ASSUME NEW t \in Texts, NextFile(t) PROVE Queue'
  BY <1>1, <1>7 DEF NextFile, Waiting
<1>8. CASE init_buffer \/ destroy_buffer
  BY <1>1, <1>8 DEF init_buffer, destroy_buffer, Waiting
<1>9. CASE Prepare \/ NoMoreMatches \/ UNCHANGED wvars
  <2>1. UNCHANGED <<text, pat, hits, bpc, todo>>
    BY <1>9 DEF Prepare, PrepareStep, PrepareDone, NoMoreMatches, Exhausted, wvars, vars, bvars
  <2> QED
    BY <2>1, QueueUnchanged
<1> QED
  BY <1>2, <1>3, <1>4, <1>5, <1>6, <1>7, <1>8, <1>9 DEF WorkerNext, Store, WorkerDone

(* A copy that fills the buffer has copied a long line.                    *)
LEMMA CopyLeavesRoom ==
  ASSUME KInv, BInv, Queue, todo # << >>, Copy, NEW c \in Nat, Need <= c, cap' = c,
         UNCHANGED <<text, pat, hits>>
  PROVE  TerminatorFits'
<1>0. text \in Seq(Nat) /\ pat \in Patterns /\ buf \in Seq(Byte)
  BY MatcherTypes DEF BInv, BufferTypeOK
<1>1. SUFFICES ASSUME todo' = << >>, AllNear, Len(buf') = c, ~LongLine(Last.pos)
               PROVE  FALSE
  <2>1. Last' = Last /\ (LongLine(Last.pos)' <=> LongLine(Last.pos))
    BY TextUnchanged DEF Last
  <2>2. (hits # << >>)' /\ LongLine(Last.pos)' => TerminatorFits'
    BY DEF TerminatorFits, LongLine, Last
  <2> QED
    BY <2>1, <2>2, NearUnchanged, CopyCases DEF TerminatorFits, Idle
<1>2. /\ Len(hits) \in Nat \ {0} /\ Last \in Hit /\ IsMatch(Last.pos)
      /\ buf' = buf \o LineWrite(Last).bytes
      /\ Need = Len(buf) + LineWrite(Last).ask
  BY <1>1, CopyCases
<1>3. NearStart(Last.pos)
  BY <1>1, <1>2 DEF AllNear, Last
<1> DEFINE b == LineWrite(Last).bytes
           a == LineWrite(Last).ask
<1>4. b \in Seq(Byte) /\ Len(b) < a /\ a = MaxLine + HiliLen + ResetLen
  BY <1>0, <1>1, <1>2, <1>3, WritesOfMatch
<1> HIDE DEF b, a
<1>5. Len(buf \o b) = Len(buf) + Len(b) /\ Len(buf) \in Nat /\ Len(b) \in Nat
  BY <1>0, <1>4, ConcatBytes
<1> QED
  BY <1>1, <1>2, <1>4, <1>5, BufferAssumption DEF a, b

(* A step that leaves the report alone leaves its end alone.               *)
LEMMA TerminatorUnchanged ==
  ASSUME TerminatorFits, UNCHANGED <<text, pat, hits, bpc, buf, cap, todo>>
  PROVE  TerminatorFits'
BY DEF TerminatorFits, Idle, AllNear, NearStart, begin_of_line, EndOfLine, At

(* Every step that ends with nothing to copy leaves room for the zero byte *)
(* behind the report, or has copied a long line.                           *)
LEMMA TerminatorNext ==
  KInv /\ KInv' /\ Waiting /\ BInv /\ Queue /\ TerminatorFits /\ [WorkerNext]_wvars
    => TerminatorFits'
<1> SUFFICES ASSUME KInv, KInv', Waiting, BInv, Queue, TerminatorFits, [WorkerNext]_wvars
             PROVE  TerminatorFits'
  OBVIOUS
<1>1. CASE init_buffer
  BY <1>1, BufferAssumption DEF init_buffer, Emptied, TerminatorFits
<1>2. CASE Match
  <2>1. CASE UNCHANGED <<hits, todo>>
    BY <1>2, <2>1, MatchCases, TerminatorUnchanged
  <2>2. CASE ~UNCHANGED <<hits, todo>>
    <3>1. PICK h \in Hit : todo' = <<NumberWrite(h), LineWrite(h)>>
      BY <1>2, <2>2, MatchCases
    <3> QED
      BY <3>1 DEF TerminatorFits, Idle
  <2> QED
    BY <2>1, <2>2
<1>3. CASE Write
  BY <1>3, CopyLeavesRoom DEF Write, BInv, BufferTypeOK, vars
<1>4. CASE GrowBegin \/ GrowLoop
  BY <1>4 DEF GrowBegin, GrowLoop, TerminatorFits, Idle
<1>5. CASE GrowEnd
  <2>1. Need \in Int
    BY <1>5, NeedType DEF GrowEnd, BInv, BufferTypeOK
  <2> QED
    BY <1>5, <2>1, CopyLeavesRoom DEF GrowEnd, BInv, BufferTypeOK, vars
<1>6. CASE reset_buffer \/ destroy_buffer
  BY <1>6 DEF reset_buffer, destroy_buffer, TerminatorFits, Idle
<1>7. ASSUME NEW t \in Texts, NextFile(t) PROVE TerminatorFits'
  <2>1. Len(buf') = 0 /\ cap' \in Nat \ {0}
    BY <1>7, BufferAssumption DEF NextFile, Waiting
  <2> QED
    BY <2>1 DEF TerminatorFits
<1>8. CASE Prepare \/ NoMoreMatches \/ UNCHANGED wvars
  <2>1. UNCHANGED <<text, pat, hits, bpc, buf, cap, todo>>
    BY <1>8 DEF Prepare, PrepareStep, PrepareDone, NoMoreMatches, Exhausted, wvars, vars, bvars
  <2> QED
    BY <2>1, TerminatorUnchanged
<1> QED
  BY <1>1, <1>2, <1>3, <1>4, <1>5, <1>6, <1>7, <1>8 DEF WorkerNext, Store, WorkerDone

(* A part of a sequence is a part of every longer one.                     *)
LEMMA PartKept ==
  ASSUME NEW s \in Seq(Byte), NEW x \in Seq(Byte),
         NEW a \in Nat, NEW c \in Nat, c <= Len(s)
  PROVE  SubSeq(s \o x, a + 1, c) = SubSeq(s, a + 1, c)
OBVIOUS

(* What is put behind a sequence is its last part.                         *)
LEMMA PartAdded ==
  ASSUME NEW s \in Seq(Byte), NEW x \in Seq(Byte)
  PROVE  SubSeq(s \o x, Len(s) + 1, Len(s) + Len(x)) = x
OBVIOUS

(* The bytes of the queues that occur.                                     *)
LEMMA BytesOfQueues ==
  ASSUME NEW v, NEW w
  PROVE  /\ BytesOf(<< >>) = << >>
         /\ BytesOf(<<v>>) = v.bytes
         /\ BytesOf(<<v, w>>) = v.bytes \o w.bytes
<1>1. ASSUME NEW q, Len(q) = 0 PROVE BytesOf(q) = << >>
  BY <1>1 DEF BytesOf
<1>2. ASSUME NEW q, Len(q) = 1, q[1] = v PROVE BytesOf(q) = v.bytes
  BY <1>2 DEF BytesOf
<1>3. ASSUME NEW q, Len(q) = 2, q[1] = v, q[2] = w PROVE BytesOf(q) = v.bytes \o w.bytes
  BY <1>3 DEF BytesOf
<1>4. Len(<< >>) = 0 /\ Len(<<v>>) = 1 /\ Len(<<v, w>>) = 2
  OBVIOUS
<1>5. <<v>>[1] = v /\ <<v, w>>[1] = v /\ <<v, w>>[2] = w
  OBVIOUS
<1> QED
  BY <1>1, <1>2, <1>3, <1>4, <1>5

(* What was true of the report stays true when the bytes are only moved.   *)
LEMMA ReportUnchanged ==
  ASSUME Report, UNCHANGED <<text, pat, hits>>,
         (buf \o BytesOf(todo))' = buf \o BytesOf(todo)
  PROVE  Report'
<1>1. \A h : Excerpt(h)' = Excerpt(h)
  BY TextUnchanged
<1>2. AllNear' <=> AllNear
  BY NearUnchanged
<1> DEFINE whole == buf \o BytesOf(todo)
<1>3. ASSUME NEW off, FallsInto(whole, off) PROVE FallsInto(whole, off)'
  <2>1. whole' = whole
    OBVIOUS
  <2> HIDE DEF whole
  <2> QED
    BY <1>1, <1>3, <2>1 DEF FallsInto
<1> QED
  BY <1>2, <1>3 DEF Report

(* A copy moves bytes from the queue to the buffer.                        *)
LEMMA CopyKeepsReport ==
  ASSUME KInv, BInv, Queue, Report, todo # << >>, Copy, UNCHANGED <<text, pat, hits>>
  PROVE  Report'
<1>0. text \in Seq(Nat) /\ pat \in Patterns /\ buf \in Seq(Byte)
  BY MatcherTypes DEF BInv, BufferTypeOK
<1> DEFINE n == NumberWrite(Last).bytes
           l == LineWrite(Last).bytes
<1>1. /\ Last \in Hit /\ IsMatch(Last.pos)
      /\ \/ /\ todo = <<NumberWrite(Last), LineWrite(Last)>>
            /\ todo' = <<LineWrite(Last)>>
            /\ buf' = buf \o n
         \/ /\ todo = <<LineWrite(Last)>>
            /\ todo' = << >>
            /\ buf' = buf \o l
  BY CopyCases
<1>2. n \in Seq(Byte) /\ l \in Seq(Byte)
  BY <1>0, <1>1, WritesOfMatch
<1>3. \/ buf' = buf \o n /\ BytesOf(todo) = n \o l /\ BytesOf(todo') = l
      \/ buf' = buf \o l /\ BytesOf(todo) = l /\ BytesOf(todo') = << >>
  BY <1>1, BytesOfQueues
<1> HIDE DEF n, l
<1>4. buf \o (n \o l) = (buf \o n) \o l
  BY <1>0, <1>2
<1>5. (buf \o l) \o << >> = buf \o l
  BY <1>0, <1>2
<1>6. buf' \o BytesOf(todo') = buf \o BytesOf(todo)
  BY <1>3, <1>4, <1>5
<1> QED
  BY <1>0, <1>6, ReportUnchanged

(* Queueing the writes of a match adds its excerpt to the report.          *)
LEMMA MatchExtendsReport ==
  ASSUME BInv, Report, text \in Seq(Nat), pat \in Patterns, hits \in Seq(Hit),
         UNCHANGED <<text, pat, buf>>, todo = << >>,
         NEW h \in Hit, IsMatch(h.pos), hits' = Append(hits, h),
         todo' = <<NumberWrite(h), LineWrite(h)>>
  PROVE  Report'
<1>1. buf \in Seq(Byte)
  BY DEF BInv, BufferTypeOK
<1> DEFINE n == Len(hits)
           x == Excerpt(h)
<1>2. /\ n \in Nat /\ Len(hits') = n + 1 /\ hits'[n + 1] = h
      /\ \A k \in 1..n : hits'[k] = hits[k]
  BY <1>1
<1>3. /\ \A p : NearStart(p)' <=> NearStart(p)
      /\ \A g : Excerpt(g)' = Excerpt(g)
  BY <1>1, TextUnchanged
<1>4. SUFFICES ASSUME AllNear' PROVE \E off : FallsInto(buf \o BytesOf(todo), off)'
  BY DEF Report
<1>5. AllNear /\ NearStart(h.pos)
  <2> HIDE DEF n, x
  <2>1. \A i \in 1..n + 1 : NearStart(hits'[i].pos)
    BY <1>2, <1>3, <1>4 DEF AllNear
  <2>2. NearStart(h.pos)
    BY <1>2, <2>1
  <2>3. \A i \in 1..n : NearStart(hits[i].pos)
    BY <1>2, <2>1
  <2> QED
    BY <2>2, <2>3 DEF AllNear, n
<1>6. buf \o BytesOf(todo) = buf /\ buf' \o BytesOf(todo') = buf \o x
  <2>1. BytesOf(<< >>) = << >> /\ BytesOf(todo') = NumberWrite(h).bytes \o LineWrite(h).bytes
    BY <1>1, BytesOfQueues
  <2>2. x = NumberWrite(h).bytes \o LineWrite(h).bytes
    BY <1>1, <1>5, WritesOfMatch
  <2>3. buf \o << >> = buf
    BY <1>1
  <2> QED
    BY <1>1, <2>1, <2>2, <2>3
<1>7. x \in Seq(Byte) /\ Len(x) \in Nat /\ Len(buf) \in Nat
  <2>1. NumberWrite(h).bytes \in Seq(Byte) /\ LineWrite(h).bytes \in Seq(Byte)
    BY <1>1, WritesOfMatch
  <2>2. x = NumberWrite(h).bytes \o LineWrite(h).bytes
    BY <1>1, <1>5, WritesOfMatch
  <2>3. x \in Seq(Byte)
    BY <2>1, <2>2, ConcatBytes
  <2> QED
    BY <1>1, <2>3
<1>8. PICK off : FallsInto(buf, off)
  BY <1>1, <1>5, <1>6 DEF Report
<1> DEFINE m == Len(buf) + Len(x)
<1> HIDE DEF x
<1>9. /\ off \in [0..n -> Nat] /\ off[0] = 0 /\ off[n] = Len(buf)
      /\ \A k \in 0..n : off[k] <= Len(buf)
      /\ \A k \in 1..n : off[k] = off[k - 1] + Len(Excerpt(hits[k]))
      /\ \A k \in 1..n : SubSeq(buf, off[k - 1] + 1, off[k]) = Excerpt(hits[k])
  BY <1>8 DEF FallsInto
<1>10. m \in Nat /\ m = Len(buf) + Len(x) /\ Len(buf \o x) = m
  BY <1>1, <1>7, ConcatBytes
<1> HIDE DEF n, m
<1>11. PICK new : new = [k \in 0..n + 1 |-> IF k <= n THEN off[k] ELSE m]
  OBVIOUS
<1>12. /\ new \in [0..n + 1 -> Nat] /\ new[0] = 0 /\ new[n + 1] = m
       /\ \A k \in 0..n : new[k] = off[k]
  BY <1>2, <1>9, <1>10, <1>11 DEF n
<1>13. ASSUME NEW k \in 0..n + 1 PROVE new[k] <= m
  <2>1. n \in Nat /\ (k = n + 1 \/ k \in 0..n)
    BY <1>2 DEF n
  <2>2. k \in 0..n => new[k] = off[k] /\ off[k] \in Nat /\ off[k] <= Len(buf)
    BY <1>9, <1>12
  <2>3. m \in Nat /\ Len(buf) <= m
    BY <1>7, <1>10
  <2> QED
    BY <1>7, <1>12, <2>1, <2>2, <2>3
<1>14. ASSUME NEW k \in 1..n + 1
       PROVE  /\ new[k] = new[k - 1] + Len(Excerpt(hits'[k]))
              /\ SubSeq(buf \o x, new[k - 1] + 1, new[k]) = Excerpt(hits'[k])
  <2>0. n \in Nat
    BY <1>2 DEF n
  <2>1. CASE k = n + 1
    <3>1. new[k - 1] = Len(buf) /\ new[k] = m /\ Excerpt(hits'[k]) = x
      BY <2>0, <2>1, <1>2, <1>9, <1>12 DEF n, x
    <3>2. SubSeq(buf \o x, Len(buf) + 1, Len(buf) + Len(x)) = x
      BY <1>1, <1>7, PartAdded
    <3> QED
      BY <3>1, <3>2, <1>10
  <2>2. CASE k # n + 1
    <3>1. k \in 1..n /\ k - 1 \in 0..n /\ k \in 0..n
      BY <2>0, <2>2
    <3>2. new[k] = off[k] /\ new[k - 1] = off[k - 1] /\ hits'[k] = hits[k]
      BY <3>1, <1>2, <1>12 DEF n
    <3>3. off[k - 1] \in Nat /\ off[k] \in Nat /\ off[k] <= Len(buf)
      BY <3>1, <1>9
    <3>4. SubSeq(buf \o x, off[k - 1] + 1, off[k]) = SubSeq(buf, off[k - 1] + 1, off[k])
      BY <3>3, <1>1, <1>7, PartKept
    <3>5. /\ off[k] = off[k - 1] + Len(Excerpt(hits[k]))
          /\ SubSeq(buf, off[k - 1] + 1, off[k]) = Excerpt(hits[k])
      BY <3>1, <1>9
    <3> QED
      BY <3>2, <3>4, <3>5
  <2> QED
    BY <2>1, <2>2
<1>15. Len(hits') = n + 1 /\ (buf \o BytesOf(todo))' = buf \o x
  BY <1>2, <1>6 DEF n
<1>16. FallsInto(buf \o BytesOf(todo), new)'
  BY <1>3, <1>10, <1>12, <1>13, <1>14, <1>15 DEF FallsInto
<1> QED
  BY <1>16

(* Without matches and writes the report is empty.                         *)
LEMMA EmptyReport ==
  hits = << >> /\ buf = << >> /\ todo = << >> => Report
<1> SUFFICES ASSUME hits = << >>, buf = << >>, todo = << >> PROVE Report
  OBVIOUS
<1>1. BytesOf(<< >>) = << >>
  BY BytesOfQueues
<1>2. buf \o BytesOf(todo) = << >>
  BY <1>1
<1> DEFINE off == [k \in 0..0 |-> 0]
<1>3. Len(hits) = 0 /\ Len(buf \o BytesOf(todo)) = 0
  BY <1>2
<1>4. off \in [0..0 -> Nat] /\ off[0] = 0
  OBVIOUS
<1> HIDE DEF off
<1>5. FallsInto(buf \o BytesOf(todo), off)
  BY <1>3, <1>4 DEF FallsInto
<1> QED
  BY <1>5 DEF Report

(* Every step keeps the report.                                            *)
LEMMA ReportNext ==
  KInv /\ KInv' /\ Waiting /\ BInv /\ Queue /\ Report /\ [WorkerNext]_wvars => Report'
<1> SUFFICES ASSUME KInv, KInv', Waiting, BInv, Queue, Report, [WorkerNext]_wvars
             PROVE  Report'
  OBVIOUS
<1>1. CASE Match
  <2>1. CASE UNCHANGED <<hits, todo>>
    BY <1>1, <2>1, MatchCases, ReportUnchanged
  <2>2. CASE ~UNCHANGED <<hits, todo>>
    <3>1. PICK h \in Hit :
            /\ hits' = Append(hits, h) /\ IsMatch(h.pos)
            /\ todo' = <<NumberWrite(h), LineWrite(h)>>
      BY <1>1, <2>2, MatchCases
    <3>2. /\ UNCHANGED <<text, pat, buf>> /\ todo = << >>
          /\ text \in Seq(Nat) /\ pat \in Patterns /\ hits \in Seq(Hit)
      BY <1>1, MatchCases, MatcherTypes
    <3> QED
      BY <3>1, <3>2, MatchExtendsReport
  <2> QED
    BY <2>1, <2>2
<1>2. CASE Write
  BY <1>2, CopyKeepsReport DEF Write, vars
<1>3. CASE GrowBegin \/ GrowLoop
  BY <1>3, ReportUnchanged DEF GrowBegin, GrowLoop, vars
<1>4. CASE GrowEnd
  BY <1>4, CopyKeepsReport DEF GrowEnd, BInv, BufferTypeOK, vars
<1>5. CASE init_buffer \/ destroy_buffer \/ reset_buffer \/ \E t \in Texts : NextFile(t)
  <2>1. hits' = << >> /\ buf' = << >> /\ todo' = << >>
    BY <1>5 DEF init_buffer, destroy_buffer, reset_buffer, NextFile, Emptied, Idle, Waiting, vars
  <2>2. (hits = << >> /\ buf = << >> /\ todo = << >> => Report)'
    BY EmptyReport, PTL
  <2> QED
    BY <2>1, <2>2
<1>6. CASE Prepare \/ NoMoreMatches \/ UNCHANGED wvars
  <2>1. UNCHANGED <<text, pat, hits, buf, todo>>
    BY <1>6 DEF Prepare, PrepareStep, PrepareDone, NoMoreMatches, Exhausted, wvars, vars, bvars
  <2> QED
    BY <2>1, ReportUnchanged
<1> QED
  BY <1>1, <1>2, <1>3, <1>4, <1>5, <1>6 DEF WorkerNext, Store, WorkerDone

(* The invariant of the report holds throughout.                           *)
LEMMA ReportInvariance == WorkerSpec => []SInv
<1>1. WorkerInit => Queue /\ TerminatorFits /\ Report
  BY EmptyReport DEF WorkerInit, Init, Queue, TerminatorFits, Idle
<1>2. SInv /\ KInv' /\ [WorkerNext]_wvars => (Queue /\ TerminatorFits /\ Report)'
  BY QueueNext, TerminatorNext, ReportNext DEF SInv
<1>3. KInv /\ Waiting /\ BInv /\ Queue /\ TerminatorFits /\ Report <=> SInv
  BY DEF SInv
<1> QED
  BY <1>1, <1>2, <1>3, BufferInvariance, PTL DEF WorkerSpec

(* TerminatorFits: a report that ends at the last byte of the buffer, with *)
(* no zero byte behind it for the %s it is printed with, ends with a line  *)
(* of MaxLine bytes or more.                                               *)
THEOREM ReportIsTerminated == WorkerSpec => []TerminatorFits
<1>1. SInv => TerminatorFits
  BY DEF SInv
<1> QED
  BY <1>1, ReportInvariance, PTL

(* The offsets of the excerpts are determined by their lengths.            *)
LEMMA OffsetsAreUnique ==
  ASSUME hits \in Seq(Hit), NEW whole, NEW off, FallsInto(whole, off)
  PROVE  \A k \in 0..Len(hits) : Offset[k] = off[k]
<1> DEFINE n == Len(hits)
<1>1. /\ n \in Nat /\ off \in [0..n -> Nat] /\ off[0] = 0
      /\ \A k \in 1..n : off[k] = off[k - 1] + Len(Excerpt(hits[k]))
  BY DEF FallsInto
<1>2. off = [k \in 0..n |-> IF k = 0 THEN 0 ELSE off[k - 1] + Len(Excerpt(hits[k]))]
  BY <1>1
<1>3. Offset = [k \in 0..n |-> IF k = 0 THEN 0 ELSE Offset[k - 1] + Len(Excerpt(hits[k]))]
  BY <1>2 DEF Offset
<1> DEFINE T == {k \in 0..n : Offset[k] # off[k]}
<1>4. SUFFICES ASSUME T # {} PROVE FALSE
  OBVIOUS
<1>5. PICK k \in T : \A j \in T : k <= j
  <2>1. T \subseteq Nat
    BY <1>1
  <2> HIDE DEF T
  <2> QED
    BY <1>4, <2>1, LeastExists
<1>6. k \in 0..n /\ Offset[k] # off[k]
  BY <1>5
<1>7. CASE k = 0
  BY <1>1, <1>3, <1>6, <1>7
<1>8. CASE k # 0
  <2>1. k - 1 \in 0..n /\ k \in 1..n /\ k - 1 < k
    BY <1>1, <1>6, <1>8
  <2>2. Offset[k - 1] = off[k - 1]
    BY <1>5, <2>1
  <2>3. Offset[k] = Offset[k - 1] + Len(Excerpt(hits[k]))
    BY <1>3, <1>6, <1>8
  <2> QED
    BY <1>1, <1>6, <2>1, <2>2, <2>3
<1> QED
  BY <1>7, <1>8

(* ReportIsExcerpts: the report worker_writebuffer puts together is the    *)
(* excerpts of the matches kmp_match reported, in their order and under    *)
(* the line numbers it counted, whatever the buffer was grown for between  *)
(* and within them.                                                        *)
THEOREM ReportIsTheExcerpts == WorkerSpec => []ReportIsExcerpts
<1>1. SInv => ReportIsExcerpts
  <2> SUFFICES ASSUME SInv, bpc = "ready", todo = << >>, AllNear
               PROVE  /\ Len(buf) = Offset[Len(hits)]
                      /\ \A k \in 1..Len(hits) :
                           SubSeq(buf, Offset[k - 1] + 1, Offset[k]) = Excerpt(hits[k])
    BY DEF ReportIsExcerpts, Idle
  <2>1. buf \in Seq(Byte) /\ hits \in Seq(Hit) /\ Len(hits) \in Nat
    BY MatcherTypes DEF SInv, BInv, BufferTypeOK
  <2>2. buf \o BytesOf(todo) = buf
    <3>1. BytesOf(<< >>) = << >>
      BY BytesOfQueues
    <3> QED
      BY <2>1, <3>1
  <2>3. PICK off : FallsInto(buf, off)
    BY <2>2 DEF SInv, Report
  <2>4. \A k \in 0..Len(hits) : Offset[k] = off[k]
    BY <2>1, <2>3, OffsetsAreUnique
  <2>5. \A k \in 1..Len(hits) : Offset[k - 1] = off[k - 1] /\ Offset[k] = off[k]
    BY <2>1, <2>4
  <2>6. /\ off[Len(hits)] = Len(buf)
        /\ \A k \in 1..Len(hits) :
             SubSeq(buf, off[k - 1] + 1, off[k]) = Excerpt(hits[k])
    BY <2>3 DEF FallsInto
  <2>7. Len(hits) \in 0..Len(hits)
    BY <2>1
  <2>8. Len(buf) = Offset[Len(hits)]
    BY <2>4, <2>6, <2>7
  <2>9. ASSUME NEW k \in 1..Len(hits)
        PROVE  SubSeq(buf, Offset[k - 1] + 1, Offset[k]) = Excerpt(hits[k])
    <3>1. SubSeq(buf, off[k - 1] + 1, off[k]) = Excerpt(hits[k])
      BY <2>6
    <3>2. Offset[k - 1] = off[k - 1] /\ Offset[k] = off[k]
      BY <2>5
    <3> QED
      BY <3>1, <3>2
  <2> QED
    BY <2>8, <2>9
<1> QED
  BY <1>1, ReportInvariance, PTL

===============================================================================
