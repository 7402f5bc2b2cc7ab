--------------------------------- MODULE Lcrq ---------------------------------
(***************************************************************************)
(* The lock-free queue of snippets/lcrq.c: a linked list of rings, each an *)
(* array of cells that enqueuers and dequeuers claim by fetch-and-add on   *)
(* tail and head.  One step is one access to shared memory; what a thread  *)
(* computes from it goes with the step.  Bit 63 of tail (closed) and of    *)
(* idx (unsafe) are fields of their own, and unsigned differences wrap.    *)
(***************************************************************************)
EXTENDS Integers, Sequences, FiniteSets, SequencesExt

CONSTANTS
  Thread,     \* the threads
  Ring,       \* the rings getMemory can return, in order: 1..n
  RING_SIZE,
  Tries,      \* close_crq: tries before the bit is set by force (10)
  Spins,      \* dequeue: turns spent waiting for an enqueuer (200000)
  Recheck,    \* dequeue: the tail is read again every so many turns (1024)
  MaxOps,     \* bound: operations per thread
  MaxIndex,   \* bound: index handed out by a ring
  Null,       \* NULL
  Empty       \* -1, the value of an empty cell

ASSUME LcrqAssumption ==
  /\ IsFiniteSet(Ring) /\ Ring = 1..Cardinality(Ring) /\ Ring # {}
  /\ RING_SIZE \in Nat \ {0} /\ \E k \in 0..RING_SIZE : RING_SIZE = 2^k
  /\ Recheck \in Nat \ {0} /\ Tries \in Nat /\ Spins \in Nat /\ MaxOps \in Nat
  /\ MaxIndex \in Nat \ {0} /\ RING_SIZE \div 2 <= MaxIndex
  /\ Null \notin Thread \cup Ring

VARIABLES
  ring,        \* the rings: head, tail, closed, next and the cells
  used,        \* how many rings are allocated
  head, tail,  \* the global pointers
  th,          \* the threads: program counter and local variables
  ops,         \* operations begun by each thread
  done,        \* history: values whose enqueue has returned
  taken,       \* history: values dequeued, in order
  prec         \* history: <<a, b>>: a was enqueued before b's enqueue began

vars == <<ring, used, head, tail, th, ops, done, taken, prec>>
hist == <<ops, done, taken, prec>>

Cells == 0..RING_SIZE - 1
FreshCells == [c \in Cells |-> [val |-> Empty, idx |-> c, unsafe |-> FALSE]]

(* init_ring *)
FreshRing == [head |-> 0, tail |-> 0, closed |-> FALSE, next |-> Null,
              array |-> FreshCells]

Idle == [pc |-> "idle", arg |-> Null, rq |-> Null, nrq |-> Null, n |-> 0,
         idx |-> 0, unsafe |-> FALSE, val |-> Empty, next |-> Null,
         r |-> 0, tt |-> 0, ttc |-> FALSE, tries |-> 0, fixt |-> 0, fixc |-> FALSE,
         older |-> {}, seen |-> {}]

(* The values a full start puts into the first half of the ring.           *)
Filled(i) == <<Null, i>>

Values == (Thread \X (1..MaxOps)) \cup {Filled(i) : i \in Cells}

(* Nobody enqueues -1: the values are thread numbers (line 401) or, at a   *)
(* full start, 0 (line 183).                                               *)
ASSUME ValueAssumption == Empty \notin Values

(* SHARED_OBJECT_INIT, with FULL set or not.                               *)
Init ==
  /\ \E m \in {0, RING_SIZE \div 2} :
       /\ ring = [q \in Ring |->
            IF q # 1 THEN FreshRing
            ELSE [FreshRing EXCEPT !.tail = m,
                    !.array = [c \in Cells |->
                      IF c < m THEN [FreshCells[c] EXCEPT !.val = Filled(c)]
                               ELSE FreshCells[c]]]]
       /\ done = {Filled(i) : i \in 0..m-1}
       /\ prec = {<<Filled(ij[1]), Filled(ij[2])>> :
                    ij \in {p \in (0..m-1) \X (0..m-1) : p[1] < p[2]}}
  /\ used = 1 /\ head = 1 /\ tail = 1
  /\ th = [p \in Thread |-> Idle]
  /\ ops = [p \in Thread |-> 0]
  /\ taken = << >>

-----------------------------------------------------------------------------
(* How the steps are written: Go(p, l, f) moves p to l with the locals f   *)
(* after the step; Cell(p) is the cell its ticket n falls on.              *)

Go(p, l, f) == th' = [th EXCEPT ![p] = [f EXCEPT !.pc = l]]
Slot(p) == th[p].n % RING_SIZE
Cell(p) == ring[th[p].rq].array[Slot(p)]
SetCell(p, c) == ring' = [ring EXCEPT ![th[p].rq].array[Slot(p)] = c]

(* CAS2 on the cell: it still holds what was read.                         *)
Unmoved(p) == Cell(p) = [val |-> th[p].val, idx |-> th[p].idx, unsafe |-> th[p].unsafe]

(* The outer loops: only the argument, the spare ring and the number of    *)
(* tries survive a turn; a return keeps the spare ring alone.              *)
Again(p, l) ==
  Go(p, l, [Idle EXCEPT !.arg = th[p].arg, !.nrq = th[p].nrq, !.tries = th[p].tries,
                        !.older = th[p].older, !.seen = th[p].seen])
Return(p) == th' = [th EXCEPT ![p] = [Idle EXCEPT !.nrq = th[p].nrq]]

(* a - b >= c in uint64_t.                                                 *)
WrapGeq(a, b, c) == a < b \/ a - b >= c

(* a - 1 <= b in uint64_t.                                                 *)
PredLeq(a, b) == a # 0 /\ a - 1 <= b

-----------------------------------------------------------------------------
(* enqueue                                                                 *)

BeginEnqueue(p) ==
  LET v == <<p, ops[p] + 1>> IN
  /\ th[p].pc = "idle" /\ ops[p] < MaxOps
  /\ ops' = [ops EXCEPT ![p] = @ + 1]
  /\ prec' = prec \cup {<<a, v>> : a \in done}
  /\ Go(p, "tail", [th[p] EXCEPT !.arg = v])
  /\ UNCHANGED <<ring, used, head, tail, done, taken>>

ReadTailPtr(p) ==
  /\ th[p].pc = "tail"
  /\ Go(p, "enext", [th[p] EXCEPT !.rq = tail])
  /\ UNCHANGED <<ring, used, head, tail, hist>>

ReadNext(p) ==
  LET nx == ring[th[p].rq].next IN
  /\ th[p].pc = "enext"
  /\ Go(p, IF nx = Null THEN "efaa" ELSE "eswing", [th[p] EXCEPT !.next = nx])
  /\ UNCHANGED <<ring, used, head, tail, hist>>

(* CASPTR(&tail, rq, next) *)
SwingTail(p) ==
  /\ th[p].pc = "eswing"
  /\ tail' = IF tail = th[p].rq THEN th[p].next ELSE tail
  /\ Again(p, "tail")
  /\ UNCHANGED <<ring, used, head, hist>>

TakeTicket(p) ==
  LET q == ring[th[p].rq] IN
  /\ th[p].pc = "efaa" /\ q.tail < MaxIndex
  /\ ring' = [ring EXCEPT ![th[p].rq].tail = @ + 1]
  /\ Go(p, IF q.closed THEN "link" ELSE "eidx", [th[p] EXCEPT !.n = q.tail])
  /\ UNCHANGED <<used, head, tail, hist>>

ReadIdx(p) ==
  /\ th[p].pc \in {"eidx", "didx"}
  /\ Go(p, IF th[p].pc = "eidx" THEN "eval" ELSE "dval",
        [th[p] EXCEPT !.idx = Cell(p).idx, !.unsafe = Cell(p).unsafe])
  /\ UNCHANGED <<ring, used, head, tail, hist>>

(* Mutant: the unsafe bit is not looked at.                                *)
JudgeTrusting(p) ==
  LET v == Cell(p).val IN
  /\ th[p].pc = "eval"
  /\ Go(p, IF v # Empty \/ th[p].idx > th[p].n THEN "full" ELSE "put", [th[p] EXCEPT !.val = v])
  /\ UNCHANGED <<ring, used, head, tail, hist>>

(* The cell is read; an unsafe one may be used only if no dequeuer is      *)
(* past it.                                                                *)
Judge(p) ==
  LET v == Cell(p).val IN
  /\ th[p].pc = "eval"
  /\ Go(p, IF v # Empty \/ th[p].idx > th[p].n THEN "full"
           ELSE IF th[p].unsafe THEN "safe" ELSE "put",
        [th[p] EXCEPT !.val = v])
  /\ UNCHANGED <<ring, used, head, tail, hist>>

CheckHead(p) ==
  /\ th[p].pc = "safe"
  /\ Go(p, IF ring[th[p].rq].head < th[p].n THEN "put" ELSE "full", th[p])
  /\ UNCHANGED <<ring, used, head, tail, hist>>

(* CAS2(cell, -1, idx, arg, t) *)
Put(p) ==
  /\ th[p].pc = "put"
  /\ \/ /\ Unmoved(p)
        /\ SetCell(p, [val |-> th[p].arg, idx |-> th[p].n, unsafe |-> FALSE])
        /\ done' = done \cup {th[p].arg}
        /\ Return(p)
     \/ /\ ~Unmoved(p)
        /\ Go(p, "full", th[p])
        /\ UNCHANGED <<ring, done>>
  /\ UNCHANGED <<used, head, tail, ops, taken, prec>>

(* The ring may be full: try to close it.                                  *)
CheckFull(p) ==
  LET full == WrapGeq(th[p].n, ring[th[p].rq].head, RING_SIZE) IN
  /\ th[p].pc = "full"
  /\ IF full THEN Go(p, "close", [th[p] EXCEPT !.tries = @ + 1])
             ELSE Again(p, "tail")
  /\ UNCHANGED <<ring, used, head, tail, hist>>

(* close_crq: a compare-and-swap on the tail, or the bit set by force.     *)
Close(p) ==
  LET q  == ring[th[p].rq]
      ok == ~q.closed /\ (th[p].tries < Tries => q.tail = th[p].n + 1)
  IN
  /\ th[p].pc = "close"
  /\ ring' = IF ok THEN [ring EXCEPT ![th[p].rq].closed = TRUE] ELSE ring
  /\ IF ok THEN Go(p, "link", th[p]) ELSE Again(p, "tail")
  /\ UNCHANGED <<used, head, tail, hist>>

(* alloc: a new ring with the argument in its first cell is linked behind  *)
(* a closed one, unless somebody else did; then it is kept for later.      *)
Link(p) ==
  LET m  == IF th[p].nrq = Null THEN used + 1 ELSE th[p].nrq
      ok == ring[th[p].rq].next = Null
      solo == [FreshRing EXCEPT !.tail = 1,
                 !.array[0] = [val |-> th[p].arg, idx |-> 0, unsafe |-> FALSE]]
  IN
  /\ th[p].pc = "link" /\ m \in Ring
  /\ used' = IF th[p].nrq = Null THEN m ELSE used
  /\ ring' = [q \in Ring |-> IF q = m THEN solo
                             ELSE IF q = th[p].rq /\ ok THEN [ring[q] EXCEPT !.next = m]
                             ELSE ring[q]]
  /\ th' = [th EXCEPT ![p] =
       IF ok THEN [@ EXCEPT !.pc = "publish", !.nrq = m]
             ELSE [Idle EXCEPT !.pc = "tail", !.arg = th[p].arg, !.nrq = m,
                               !.tries = th[p].tries]]
  /\ UNCHANGED <<head, tail, hist>>

(* CASPTR(&tail, rq, nrq) *)
Publish(p) ==
  /\ th[p].pc = "publish"
  /\ tail' = IF tail = th[p].rq THEN th[p].nrq ELSE tail
  /\ done' = done \cup {th[p].arg}
  /\ th' = [th EXCEPT ![p] = Idle]
  /\ UNCHANGED <<ring, used, head, ops, taken, prec>>

Enqueue(p) ==
  \/ BeginEnqueue(p) \/ ReadTailPtr(p) \/ ReadNext(p) \/ SwingTail(p)
  \/ TakeTicket(p) \/ ReadIdx(p) \/ Judge(p) \/ CheckHead(p) \/ Put(p)
  \/ CheckFull(p) \/ Close(p) \/ Link(p) \/ Publish(p)

-----------------------------------------------------------------------------
(* dequeue                                                                 *)

BeginDequeue(p) ==
  /\ th[p].pc = "idle" /\ ops[p] < MaxOps
  /\ ops' = [ops EXCEPT ![p] = @ + 1]
  /\ Go(p, "head", [th[p] EXCEPT !.older = ToSet(taken), !.seen = done])
  /\ UNCHANGED <<ring, used, head, tail, done, taken, prec>>

ReadHeadPtr(p) ==
  /\ th[p].pc = "head"
  /\ Go(p, "dfaa", [th[p] EXCEPT !.rq = head])
  /\ UNCHANGED <<ring, used, head, tail, hist>>

DrawTicket(p) ==
  LET q == ring[th[p].rq] IN
  /\ th[p].pc = "dfaa" /\ q.head < MaxIndex
  /\ ring' = [ring EXCEPT ![th[p].rq].head = @ + 1]
  /\ Go(p, "didx", [th[p] EXCEPT !.n = q.head, !.r = 0])
  /\ UNCHANGED <<used, head, tail, hist>>

(* Mutant: an item of an earlier round is taken as well.                   *)
ExamineGreedy(p) ==
  LET v == Cell(p).val IN
  /\ th[p].pc = "dval"
  /\ Go(p, IF th[p].idx > th[p].n THEN "check" ELSE IF v # Empty THEN "take" ELSE "wait",
        [th[p] EXCEPT !.val = v])
  /\ UNCHANGED <<ring, used, head, tail, hist>>

(* The cell is read: it belongs to a later round, holds an item of this    *)
(* round or of an earlier one, or is empty.                                *)
Examine(p) ==
  LET v == Cell(p).val IN
  /\ th[p].pc = "dval"
  /\ Go(p, CASE th[p].idx > th[p].n -> "check"
             [] th[p].idx <= th[p].n /\ v # Empty /\ th[p].idx = th[p].n -> "take"
             [] th[p].idx <= th[p].n /\ v # Empty /\ th[p].idx # th[p].n -> "mark"
             [] th[p].idx <= th[p].n /\ v = Empty -> "wait",
        [th[p] EXCEPT !.val = v])
  /\ UNCHANGED <<ring, used, head, tail, hist>>

(* Mutant: the index moves on, the value stays.                            *)
TakeLeaves(p) ==
  /\ th[p].pc = "take"
  /\ \/ /\ Unmoved(p)
        /\ SetCell(p, [Cell(p) EXCEPT !.idx = th[p].n + RING_SIZE])
        /\ taken' = Append(taken, th[p].val)
        /\ Return(p)
     \/ /\ ~Unmoved(p)
        /\ Go(p, "didx", th[p])
        /\ UNCHANGED <<ring, taken>>
  /\ UNCHANGED <<used, head, tail, ops, done, prec>>

(* CAS2(cell, val, cell_idx, -1, unsafe | h + RING_SIZE) *)
Take(p) ==
  /\ th[p].pc = "take"
  /\ \/ /\ Unmoved(p)
        /\ SetCell(p, [val |-> Empty, idx |-> th[p].n + RING_SIZE, unsafe |-> th[p].unsafe])
        /\ taken' = Append(taken, th[p].val)
        /\ Return(p)
     \/ /\ ~Unmoved(p)
        /\ Go(p, "didx", th[p])
        /\ UNCHANGED <<ring, taken>>
  /\ UNCHANGED <<used, head, tail, ops, done, prec>>

(* CAS2(cell, val, cell_idx, val, set_unsafe(idx)) *)
MarkUnsafe(p) ==
  /\ th[p].pc = "mark"
  /\ IF Unmoved(p) THEN SetCell(p, [Cell(p) EXCEPT !.unsafe = TRUE]) ELSE UNCHANGED ring
  /\ Go(p, IF Unmoved(p) THEN "check" ELSE "didx", th[p])
  /\ UNCHANGED <<used, head, tail, hist>>

(* An empty cell: the tail says whether an enqueuer may still come; it is  *)
(* looked at in the first turn and then every Recheck turns.               *)
Wait(p) ==
  LET q   == ring[th[p].rq]
      now == th[p].r % Recheck = 0
      tt  == IF now THEN q.tail ELSE th[p].tt
      ttc == IF now THEN q.closed ELSE th[p].ttc
      me  == [th[p] EXCEPT !.tt = tt, !.ttc = ttc]
  IN
  /\ th[p].pc = "wait"
  /\ IF th[p].unsafe \/ PredLeq(tt, th[p].n) \/ th[p].r > Spins \/ ttc
     THEN Go(p, "advance", me)
     ELSE Go(p, "didx", [me EXCEPT !.r = @ + 1])
  /\ UNCHANGED <<ring, used, head, tail, hist>>

(* Mutant: the index moves on by one place too few.                        *)
AdvanceShort(p) ==
  /\ th[p].pc = "advance"
  /\ IF Unmoved(p) THEN SetCell(p, [Cell(p) EXCEPT !.idx = th[p].n + RING_SIZE - 1])
                   ELSE UNCHANGED ring
  /\ Go(p, IF Unmoved(p) THEN "check" ELSE "didx", th[p])
  /\ UNCHANGED <<used, head, tail, hist>>

(* CAS2(cell, val, cell_idx, val, unsafe | h + RING_SIZE) *)
Advance(p) ==
  /\ th[p].pc = "advance"
  /\ IF Unmoved(p) THEN SetCell(p, [Cell(p) EXCEPT !.idx = th[p].n + RING_SIZE])
                   ELSE UNCHANGED ring
  /\ Go(p, IF Unmoved(p) THEN "check" ELSE "didx", th[p])
  /\ UNCHANGED <<used, head, tail, hist>>

(* Mutant: the ring counts as empty one item early.                        *)
CheckEmptyEarly(p) ==
  /\ th[p].pc = "check"
  /\ IF PredLeq(ring[th[p].rq].tail, th[p].n + 1) THEN Go(p, "fix", th[p])
                                                   ELSE Again(p, "head")
  /\ UNCHANGED <<ring, used, head, tail, hist>>

(* The ticket was spent in vain: is the ring empty?                        *)
CheckEmpty(p) ==
  /\ th[p].pc = "check"
  /\ IF PredLeq(ring[th[p].rq].tail, th[p].n) THEN Go(p, "fix", th[p])
                                               ELSE Again(p, "head")
  /\ UNCHANGED <<ring, used, head, tail, hist>>

(* fixState: t, then h, then t again; a closed tail is larger than any h.  *)
FixRead(p) ==
  /\ th[p].pc = "fix"
  /\ Go(p, "fixh", [th[p] EXCEPT !.fixt = ring[th[p].rq].tail, !.fixc = ring[th[p].rq].closed])
  /\ UNCHANGED <<ring, used, head, tail, hist>>

FixHead(p) ==
  /\ th[p].pc = "fixh"
  /\ Go(p, "fixt", [th[p] EXCEPT !.tt = ring[th[p].rq].head])
  /\ UNCHANGED <<ring, used, head, tail, hist>>

TailIs(p) == ring[th[p].rq].tail = th[p].fixt /\ ring[th[p].rq].closed = th[p].fixc

FixCheck(p) ==
  /\ th[p].pc = "fixt"
  /\ Go(p, IF ~TailIs(p) THEN "fix"
           ELSE IF ~th[p].fixc /\ th[p].tt > th[p].fixt THEN "fixcas" ELSE "dnext", th[p])
  /\ UNCHANGED <<ring, used, head, tail, hist>>

FixTail(p) ==
  /\ th[p].pc = "fixcas"
  /\ ring' = IF TailIs(p) THEN [ring EXCEPT ![th[p].rq].tail = th[p].tt] ELSE ring
  /\ Go(p, IF TailIs(p) THEN "dnext" ELSE "fix", th[p])
  /\ UNCHANGED <<used, head, tail, hist>>

(* No ring behind this one: EMPTY.                                         *)
ReturnEmpty(p) ==
  /\ th[p].pc = "dnext" /\ ring[th[p].rq].next = Null
  /\ Return(p)
  /\ UNCHANGED <<ring, used, head, tail, hist>>

ReadNextRing(p) ==
  /\ th[p].pc = "dnext" /\ ring[th[p].rq].next # Null
  /\ Go(p, "dswing", [th[p] EXCEPT !.next = ring[th[p].rq].next])
  /\ UNCHANGED <<ring, used, head, tail, hist>>

(* CASPTR(&head, rq, next) *)
SwingHead(p) ==
  /\ th[p].pc = "dswing"
  /\ head' = IF head = th[p].rq THEN th[p].next ELSE head
  /\ Again(p, "head")
  /\ UNCHANGED <<ring, used, tail, hist>>

Dequeue(p) ==
  \/ BeginDequeue(p) \/ ReadHeadPtr(p) \/ DrawTicket(p) \/ Examine(p)
  \/ Take(p) \/ MarkUnsafe(p) \/ Wait(p) \/ Advance(p) \/ CheckEmpty(p)
  \/ FixRead(p) \/ FixHead(p) \/ FixCheck(p) \/ FixTail(p)
  \/ ReturnEmpty(p) \/ ReadNextRing(p) \/ SwingHead(p)

-----------------------------------------------------------------------------

(* A thread that ran all its operations, or into a bound of the model.     *)
Stopped(p) ==
  \/ th[p].pc = "idle" /\ ops[p] = MaxOps
  \/ th[p].pc = "efaa" /\ ring[th[p].rq].tail >= MaxIndex
  \/ th[p].pc = "dfaa" /\ ring[th[p].rq].head >= MaxIndex
  \/ th[p].pc = "link" /\ th[p].nrq = Null /\ used + 1 \notin Ring

Terminated == (\A p \in Thread : Stopped(p)) /\ UNCHANGED vars

Next == (\E p \in Thread : Enqueue(p) \/ Dequeue(p)) \/ Terminated

Spec == Init /\ [][Next]_vars

-----------------------------------------------------------------------------
(* Properties                                                              *)

Locals ==
  [pc : {"idle", "tail", "enext", "eswing", "efaa", "eidx", "eval", "safe", "put", "full",
         "close", "link", "publish", "head", "dfaa", "didx", "dval", "take", "mark", "wait",
         "advance", "check", "fix", "fixh", "fixt", "fixcas", "dnext", "dswing"},
   arg : {Null} \cup (Thread \X (1..MaxOps)),
   rq : {Null} \cup Ring, nrq : {Null} \cup Ring, next : {Null} \cup Ring,
   n : 0..MaxIndex - 1, idx : Nat, unsafe : BOOLEAN, val : {Empty} \cup Values,
   r : 0..Spins + 1, tt : 0..MaxIndex, ttc : BOOLEAN, tries : Nat,
   fixt : 0..MaxIndex, fixc : BOOLEAN, older : SUBSET Values, seen : SUBSET Values]

(* The shapes; the index of a cell is congruent to its place in the array  *)
(* (lines 133, 272, 290, 337, 357).                                        *)
TypeOK ==
  /\ used \in Ring /\ head \in 1..used /\ tail \in 1..used
  /\ \A p \in Thread : th[p] \in Locals
  /\ ops \in [Thread -> 0..MaxOps]
  /\ done \subseteq Values /\ ToSet(taken) \subseteq Values /\ prec \subseteq Values \X Values
  /\ \A q \in Ring :
       /\ ring[q].head \in 0..MaxIndex /\ ring[q].tail \in 0..MaxIndex
       /\ ring[q].closed \in BOOLEAN /\ ring[q].next \in {Null} \cup 1..used
       /\ \A c \in Cells : LET x == ring[q].array[c] IN
            /\ x.val \in {Empty} \cup Values /\ x.unsafe \in BOOLEAN
            /\ x.idx % RING_SIZE = c

(* The rings that the next pointers lead to from q, q included: the least  *)
(* set that holds q and is closed under them.                              *)
Closed(S) == \A r \in S : ring[r].next # Null => ring[r].next \in S
Onward(q) == {r \in Ring : \A S \in SUBSET Ring : q \in S /\ Closed(S) => r \in S}

(* The rings a dequeuer that starts now can come to.                       *)
Reachable == Onward(head)

(* p holds the ticket i of ring q and has not given it up.                 *)
Hunts(p, q, i) ==
  /\ th[p].pc \in {"didx", "dval", "take", "mark", "wait", "advance"}
  /\ th[p].rq = q /\ th[p].n = i

(* Somebody holds v's ticket, or somebody will draw it.                    *)
Awaited(v) ==
  \E q \in Ring, c \in Cells : LET x == ring[q].array[c] IN
    /\ x.val = v
    /\ \/ \E p \in Thread : Hunts(p, q, x.idx)
       \/ q \in Reachable /\ x.idx >= ring[q].head

(* The global head went past v's ring, which has a successor.  A dequeuer  *)
(* that found the ring used up reads next (line 368) and moves the head    *)
(* (line 371) without a second look at the tail: what was enqueued in      *)
(* between stays behind.                                                   *)
LeftBehind(v) ==
  \E q \in Ring \ Reachable, c \in Cells :
    ring[q].next # Null /\ ring[q].array[c].val = v

(* An item whose enqueue has returned and that no dequeue has taken is     *)
(* awaited, unless the head left its whole ring behind: no enqueuer may    *)
(* put an item under a ticket that the dequeuers are done with, which is   *)
(* what the indices and the unsafe bit are for (lines 288-290, 340, 357).  *)
NothingIsLost == \A v \in done \ ToSet(taken) : Awaited(v) \/ LeftBehind(v)

(* No value is dequeued twice, and each comes from an enqueue that began:  *)
(* two dequeuers, or the two places of a value whose ring could not be     *)
(* linked (lines 272-279), never yield it again.                           *)
TakenOnce ==
  /\ Cardinality(ToSet(taken)) = Len(taken)
  /\ \A v \in ToSet(taken) : v \in done \/ \E p \in Thread : th[p].arg = v

(* First in, first out across threads and rings: the value a dequeue       *)
(* returns (line 338) was not enqueued before a value that was dequeued    *)
(* before this dequeue began.                                              *)
Fifo ==
  [][\A p \in Thread :
       th[p].pc = "take" /\ th'[p].pc = "idle"
         => \A b \in th[p].older : <<th[p].val, b>> \notin prec]_vars

(* EMPTY (line 370) is returned only when every item that was in the queue *)
(* when the call began is dequeued, is another dequeuer's by its ticket,   *)
(* or was left behind with its ring.                                       *)
EmptyIsHonest ==
  [][\A p \in Thread :
       th[p].pc = "dnext" /\ th'[p].pc = "idle"
         => \A v \in th[p].seen \ ToSet(taken) :
              \/ LeftBehind(v)
              \/ \E q \in Ring, c \in Cells, o \in Thread \ {p} :
                   ring[q].array[c].val = v /\ Hunts(o, q, ring[q].array[c].idx)]_vars

===============================================================================
