----------------------------- MODULE ResultBuffer -----------------------------
(***************************************************************************)
(* A worker with its files: the matcher (Kmp) and the result buffer that   *)
(* the worker fills with an excerpt for each match (init_buffer,           *)
(* buffer_grow, write_buffer, writef_buffer, writeline_color_buffer,       *)
(* reset_buffer, destroy_buffer of src/buffer.c, begin_of_line and         *)
(* worker_writebuffer of src/thread.c).  The matcher waits while a match   *)
(* is written; the line number that is written is the one it counted.      *)
(*                                                                         *)
(* The buffer is __thread, so one worker is modelled.  buf is the part     *)
(* that was written: off is Len(buf), and the rest of the cap bytes is     *)
(* zero, as init_buffer and buffer_grow leave it.  Bytes of a file are     *)
(* natural numbers, the bytes of escape sequences negative ones.  The      *)
(* files are text: a zero byte, which also ends a line in the code, is     *)
(* met only behind their end.                                              *)
(***************************************************************************)
EXTENDS Kmp

CONSTANTS
  DEFAULT_SIZE,  \* initial capacity
  MaxLine,       \* the limit 1024 in worker_writebuffer
  HiliLen,       \* bytes of HILI_COLOR
  ResetLen,      \* bytes of "\e[0m"
  LinumLen       \* bytes of a formatted line number, with its colour codes

NoText == << >>  \* no file is mapped

ASSUME BufferAssumption ==
  /\ NoText \in Texts
  /\ Char \subseteq Nat
  /\ Patterns \subseteq Seq(Char \ {NL})
  /\ DEFAULT_SIZE \in Nat \ {0}
  /\ MaxLine \in Nat
  /\ HiliLen \in Nat /\ ResetLen \in Nat /\ LinumLen \in Nat

VARIABLES
  bpc,       \* "none" (no buffer), "ready", "grow" (in buffer_grow), "wait"
             \* (for another file), "done"
  buf, cap,  \* the buffer
  newcap,    \* buffer_grow's local
  todo       \* writes of worker_writebuffer still to be made: bytes, and the
             \* room that is asked for before they are copied

bvars == <<bpc, buf, cap, newcap, todo>>
wvars == <<vars, bvars>>

-----------------------------------------------------------------------------
(* What is written for a match at position pos (0-based, as in C).         *)

Slice(a, b) == SubSeq(text, a + 1, b)
begin_of_line(pos) ==
  CHOOSE b \in 0..pos : /\ b = 0 \/ At(text, b - 1) = NL
                        /\ \A j \in b..pos-1 : At(text, j) # NL

(* The first newline from k on, or the end: the page behind the last byte  *)
(* of a file is filled with zeros.                                         *)
EndOfLine(k) ==
  CHOOSE e \in k..Len(text) : /\ e = Len(text) \/ At(text, e) = NL
                              /\ \A j \in k..e-1 : At(text, j) # NL

Repeated(x, k) == [j \in 1..k |-> x]
HILI_COLOR   == Repeated(-1, HiliLen)
RESET_COLOR  == Repeated(-2, ResetLen)
LinumText(l) == Repeated(-2 - l, LinumLen)

(* Mutant: the last byte of the line is taken for its terminator.          *)
RestLenShort(bol, pos) ==
  LET r    == pos + Len(pat)
      line == EndOfLine(r) - r
      room == MaxLine - (pos - bol) - Len(pat)
      kept == IF room >= 0 /\ room < line THEN room ELSE line
  IN  IF kept = 0 THEN 0 ELSE kept - 1

(* len - off1 - colorlen is computed in size_t: it is a limit only if the  *)
(* match ends within len bytes, and wraps to no limit otherwise.           *)
RestLen(bol, pos) ==
  LET r    == pos + Len(pat)
      line == EndOfLine(r) - r
      room == MaxLine - (pos - bol) - Len(pat)
  IN  IF room >= 0 /\ room < line THEN room ELSE line

(* writeline_color_buffer: the line up to the match, the match between     *)
(* colour codes, the rest of the line.                                     *)
Colored(pos) ==
  LET bol == begin_of_line(pos)
      r   == pos + Len(pat)
  IN  Slice(bol, pos) \o HILI_COLOR \o Slice(pos, r) \o RESET_COLOR
        \o Slice(r, r + RestLen(bol, pos))

-----------------------------------------------------------------------------

(* The first file is known from the start; no text at all stands for a     *)
(* worker that reads no record.                                            *)
WorkerInit ==
  /\ Init
  /\ bpc = "none" /\ buf = << >> /\ cap = 0 /\ newcap = 0 /\ todo = << >>

(* Mutant: the capacity is not set.                                        *)
EmptiedWithoutCapacity == buf' = << >> /\ cap' = 0

Emptied == buf' = << >> /\ cap' = DEFAULT_SIZE

init_buffer ==
  /\ bpc = "none" /\ bpc' = "ready"
  /\ Emptied
  /\ UNCHANGED <<vars, newcap, todo>>

(* The worker is not in the middle of a write.                             *)
Idle == bpc = "ready" /\ todo = << >>

Prepare ==
  /\ Idle
  /\ PrepareStep \/ PrepareDone
  /\ UNCHANGED bvars

(* worker_thread's lastlinum.  It is passed by value: worker_writebuffer   *)
(* sets its own copy, and this one stays 0.                                *)
lastlinum == 0

(* The match h is on another line than lastlinum says: its line number and *)
(* its line are written.  The branch that amends the last line instead     *)
(* takes linum = lastlinum, which no line number is.                       *)
worker_writebuffer(h) ==
  /\ h.line # lastlinum
  /\ todo' = << [bytes |-> LinumText(h.line), ask |-> LinumLen],
                [bytes |-> Colored(h.pos), ask |-> MaxLine + HiliLen + ResetLen] >>

(* One iteration of kmp_match; a match it reports is written.              *)
Match ==
  /\ Idle
  /\ MatchStep
  /\ \/ hits' = hits /\ UNCHANGED todo
     \/ hits' # hits /\ worker_writebuffer(hits'[Len(hits')])
  /\ UNCHANGED <<bpc, buf, cap, newcap>>

NoMoreMatches ==
  /\ Idle
  /\ Exhausted
  /\ UNCHANGED bvars

(* Mutant: what was written before is not counted.                         *)
NeedFromStart == Head(todo).ask

(* Mutant: the code that resets the colour is not counted.                 *)
NeedWithoutReset == Len(buf) + Head(todo).ask - ResetLen

Need == Len(buf) + Head(todo).ask

Copy ==
  /\ buf' = buf \o Head(todo).bytes
  /\ todo' = Tail(todo)

(* A write for which the capacity suffices (write_buffer for the line      *)
(* number, writeline_color_buffer for the line).                           *)
Write ==
  /\ bpc = "ready" /\ todo # << >>
  /\ Need <= cap
  /\ Copy
  /\ UNCHANGED <<vars, bpc, cap, newcap>>

(* buffer_grow doubles the capacity until it suffices, then reallocates;   *)
(* the write goes on.                                                      *)
GrowBegin ==
  /\ bpc = "ready" /\ todo # << >>
  /\ Need > cap
  /\ bpc' = "grow" /\ newcap' = cap
  /\ UNCHANGED <<vars, buf, cap, todo>>

GrowLoop ==
  /\ bpc = "grow" /\ newcap < Need
  /\ newcap' = newcap + newcap
  /\ UNCHANGED <<vars, bpc, buf, cap, todo>>

GrowEnd ==
  /\ bpc = "grow" /\ newcap >= Need
  /\ bpc' = "ready" /\ cap' = newcap
  /\ Copy
  /\ UNCHANGED <<vars, newcap>>

(* The file is done: the report is printed, reset_buffer shrinks the       *)
(* buffer back, and the file is unmapped; linum and startpos are dead.     *)
reset_buffer ==
  /\ Idle /\ pc = "done"
  /\ bpc' = "wait"
  /\ Emptied
  /\ text' = NoText /\ hits' = << >>
  /\ startpos' = 0 /\ text_pos' = 0 /\ pat_pos' = 0 /\ line_cnt' = 1
  /\ UNCHANGED <<pat, kmp_table, pc, newcap, todo>>

(* The worker reads another record from the pipe and maps the file, which  *)
(* is not empty: map_file fails for an empty one, and it is skipped.       *)
NextFile(t) ==
  /\ bpc = "wait" /\ bpc' = "ready"
  /\ pc' = "match" /\ text' = t
  /\ UNCHANGED <<pat, kmp_table, startpos, text_pos, pat_pos, line_cnt, hits>>
  /\ UNCHANGED <<buf, cap, newcap, todo>>

(* There is none.                                                          *)
destroy_buffer ==
  /\ bpc = "wait" /\ bpc' = "done"
  /\ buf' = << >> /\ cap' = 0
  /\ UNCHANGED <<vars, newcap, todo>>

WorkerDone == bpc = "done" /\ UNCHANGED wvars

Store == Write \/ GrowBegin \/ GrowLoop \/ GrowEnd

WorkerNext ==
  \/ init_buffer
  \/ Prepare \/ Match \/ NoMoreMatches
  \/ Store
  \/ reset_buffer
  \/ \E t \in Texts \ {NoText} : NextFile(t)
  \/ destroy_buffer
  \/ WorkerDone

(* The code is sequential: it keeps running.                               *)
WorkerSpec == WorkerInit /\ [][WorkerNext]_wvars /\ WF_wvars(WorkerNext)

-----------------------------------------------------------------------------
(* Properties.                                                             *)

Byte == Int
WriteReq == [bytes : Seq(Byte), ask : Nat]

(* Every variable of the buffer stays in its type.                         *)
BufferTypeOK ==
  /\ bpc \in {"none", "ready", "grow", "wait", "done"}
  /\ buf \in Seq(Byte) /\ cap \in Nat /\ newcap \in Nat
  /\ todo \in Seq(WriteReq)
  /\ bpc = "grow" => todo # << >>

(* The match ends within the first MaxLine bytes of its line.              *)
NearStart(pos) == pos - begin_of_line(pos) + Len(pat) <= MaxLine
AllNear == \A i \in 1..Len(hits) : NearStart(hits[i].pos)

(* Nothing is ever written behind the end of the buffer, as long as the    *)
(* matches are near the start of their lines: the room that is asked for   *)
(* before each copy covers the colour codes, and growing covers the room.  *)
WithinCapacity == AllNear => Len(buf) <= cap

(* The report is printed with %s: a zero byte follows it inside the        *)
(* buffer, unless its last line has MaxLine bytes or more.  Then the room  *)
(* asked for may be used up to its last byte, and nothing ends the string. *)
TerminatorFits ==
  Idle /\ AllNear /\ Len(buf) = cap =>
    /\ hits # << >>
    /\ LET bol == begin_of_line(hits[Len(hits)].pos)
       IN  EndOfLine(bol) - bol >= MaxLine

(* The number kmp_match counted, and the line that holds the match, cut to *)
(* MaxLine bytes, with the match coloured.                                 *)
Excerpt(h) ==
  LET bol  == begin_of_line(h.pos)
      full == EndOfLine(bol)
      eol  == IF full - bol <= MaxLine THEN full ELSE bol + MaxLine
  IN  LinumText(h.line) \o Slice(bol, h.pos) \o HILI_COLOR \o pat
        \o RESET_COLOR \o Slice(h.pos + Len(pat), eol)

(* The sum of the lengths of the excerpts of the k first matches.          *)
Offset[k \in 0..Len(hits)] ==
  IF k = 0 THEN 0 ELSE Offset[k - 1] + Len(Excerpt(hits[k]))

(* The report of a file is one excerpt for each match that kmp_match       *)
(* reported in it and nothing else, one after the other, under the numbers *)
(* it counted, whatever growing and moving the buffer went through.        *)
ReportIsExcerpts ==
  Idle /\ AllNear =>
    /\ Len(buf) = Offset[Len(hits)]
    /\ \A k \in 1..Len(hits) :
         SubSeq(buf, Offset[k - 1] + 1, Offset[k]) = Excerpt(hits[k])

(* buffer_grow comes to an end: the capacity it doubles is never zero.     *)
GrowTerminates == bpc = "grow" ~> bpc = "ready"

(* "total length within `len'" (buffer.c:258): what is written for a match *)
(* is never longer than the limit and the colour codes.  The line before   *)
(* the match and the match itself are copied whatever the limit is         *)
(* (buffer.c:289, 293); only what follows them is cut.                     *)
LineWithinLimit ==
  \A i \in 1..Len(todo) : Len(todo[i].bytes) <= todo[i].ask

(* "'lastlinum': line number of last match, used to mark matches in the    *)
(* same line" (thread.c:107): a second match in a line is marked in the    *)
(* line that is already there, so no line number is in the report twice.   *)
LineWrittenOnce ==
  \A k \in 1..Len(hits) :
    LET mark == LinumText(hits[k].line)[1]
    IN  Cardinality({i \in 1..Len(buf) : buf[i] = mark}) <= LinumLen

===============================================================================
