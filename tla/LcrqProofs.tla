------------------------------ MODULE LcrqProofs ------------------------------
(***************************************************************************)
(* The lock-free queue of snippets/lcrq.c never hands out a value twice,   *)
(* loses none but with a ring that the head left behind, says EMPTY only   *)
(* when it is, and is first in, first out, for any number of threads,      *)
(* rings, cells and operations.                                            *)
(***************************************************************************)
EXTENDS Lcrq, TLAPS, FiniteSetTheorems, SequenceTheorems

-----------------------------------------------------------------------------
(* The invariant.                                                          *)

Pcs == {"idle", "tail", "enext", "eswing", "efaa", "eidx", "eval", "safe", "put", "full",
        "close", "link", "publish", "head", "dfaa", "didx", "dval", "take", "mark", "wait",
        "advance", "check", "fix", "fixh", "fixt", "fixcas", "dnext", "dswing"}
Enq == {"tail", "enext", "eswing", "efaa", "eidx", "eval", "safe", "put", "full",
        "close", "link", "publish"}
NoRing == {"idle", "tail", "head"}

CellRec == [val : {Empty} \cup Values, idx : Nat, unsafe : BOOLEAN]
RingRec == [head : 0..MaxIndex, tail : 0..MaxIndex, closed : BOOLEAN,
            next : {Null} \cup Ring, array : [Cells -> CellRec]]

Shapes ==
  /\ used \in Ring
  /\ ring \in [Ring -> RingRec] /\ th \in [Thread -> Locals]
  /\ ops \in [Thread -> 0..MaxOps]
  /\ done \subseteq Values /\ taken \in Seq(Values) /\ prec \subseteq Values \X Values

(* The index of a cell is congruent to its place.                          *)
Congruent == \A q \in Ring, c \in Cells : ring[q].array[c].idx % RING_SIZE = c

(* The rings that are linked.  Before that a ring is the spare one of the  *)
(* thread that allocated it.                                               *)
Live == {q \in 1..used : \A p \in Thread : th[p].nrq = q => th[p].pc = "publish"}

Spares ==
  \A p \in Thread : th[p].nrq # Null =>
    /\ th[p].nrq \in 1..used
    /\ \A o \in Thread : th[o].nrq = th[p].nrq => o = p

(* No pointer leads to a spare ring.                                       *)
Pointers ==
  /\ head \in Live /\ tail \in Live
  /\ \A q \in Ring : ring[q].next # Null => ring[q].next \in Live
  /\ \A p \in Thread :
       /\ th[p].pc \notin NoRing => th[p].rq \in Live
       /\ th[p].pc \in {"eswing", "dswing"} => th[p].next \in Live
       /\ th[p].pc = "publish" => th[p].nrq \in Live

(* What a thread enqueues is its own and not enqueued yet.                 *)
Arguments ==
  /\ \A p \in Thread : th[p].pc \in Enq => th[p].arg = <<p, ops[p]>> /\ ops[p] >= 1
  /\ \A p \in Thread, k \in 1..MaxOps : <<p, k>> \in done =>
       k <= ops[p] /\ (th[p].pc \in Enq => k < ops[p])

(* The values that were enqueued or are in a ring that is linked but not   *)
(* published.                                                              *)
Enqueued == done \cup {th[p].arg : p \in {o \in Thread : th[o].pc = "publish"}}

(* A value is in one cell of the live rings, or was taken once.            *)
OneCell ==
  \A q, r \in Live, c, d \in Cells :
    /\ ring[q].array[c].val # Empty
    /\ ring[q].array[c].val = ring[r].array[d].val
    => q = r /\ c = d

CellsHold ==
  \A q \in Live, c \in Cells : ring[q].array[c].val # Empty =>
    /\ ring[q].array[c].val \notin ToSet(taken)
    /\ ring[q].array[c].val \in Enqueued

TakenDiffer == \A i, j \in 1..Len(taken) : taken[i] = taken[j] => i = j

TakenEnqueued == ToSet(taken) \subseteq Enqueued

Found == \A p \in Thread : th[p].pc = "take" => th[p].val # Empty

IInv == /\ Shapes /\ Congruent /\ Spares /\ Pointers /\ Arguments
        /\ OneCell /\ CellsHold /\ TakenDiffer /\ TakenEnqueued /\ Found

-----------------------------------------------------------------------------
(* Arithmetic of the tickets.                                              *)

(* Division with remainder, as the slot of a ticket is computed.           *)
LEMMA Division ==
  ASSUME NEW R \in Nat \ {0}, NEW n \in Nat
  PROVE  n = R * (n \div R) + (n % R) /\ n \div R \in Nat /\ n % R \in 0..R-1
OBVIOUS

(* The only multiple of R strictly between -R and R is 0.                  *)
LEMMA SmallMultiple ==
  ASSUME NEW R \in Nat \ {0}, NEW d \in Int, NEW e \in Int, -R < e, e < R, R * d = e
  PROVE  e = 0
<1>1. CASE d >= 1
  <2>1. R * d >= R
    BY <1>1
  <2> QED BY <2>1
<1>2. CASE d <= -1
  <2>1. R * d <= -R
    BY <1>2
  <2> QED BY <2>1
<1>3. CASE d = 0
  BY <1>3
<1> QED BY <1>1, <1>2, <1>3

(* A ticket and the one a round later fall on the same cell.               *)
LEMMA NextRound ==
  ASSUME NEW R \in Nat \ {0}, NEW n \in Nat
  PROVE  (n + R) % R = n % R
<1> DEFINE q == n \div R
           r == n % R
           s == (n + R) \div R
           t == (n + R) % R
<1>1. n = R * q + r /\ q \in Nat /\ r \in 0..R-1
  BY Division
<1>2. n + R = R * s + t /\ s \in Nat /\ t \in 0..R-1
  <2>1. n + R \in Nat
    OBVIOUS
  <2> QED BY <2>1, Division
<1> HIDE DEF q, r, s, t
<1>3. R * (s - q - 1) = r - t
  BY <1>1, <1>2
<1>4. r - t \in Int /\ -R < r - t /\ r - t < R /\ s - q - 1 \in Int
  BY <1>1, <1>2
<1>5. r - t = 0
  BY <1>3, <1>4, SmallMultiple
<1>6. r = t
  BY <1>1, <1>2, <1>5
<1> QED BY <1>6 DEF r, t

-----------------------------------------------------------------------------
(* The locals of a thread.                                                 *)

(* Rings are natural numbers.                                              *)
LEMMA RingsAreNumbers ==
  /\ Cardinality(Ring) \in Nat /\ Ring = 1..Cardinality(Ring) /\ Ring \subseteq Nat \ {0}
  /\ 1 \in Ring /\ Null \notin Ring /\ Null \notin Thread
  /\ RING_SIZE \in Nat \ {0} /\ MaxIndex \in Nat \ {0} /\ MaxOps \in Nat
  /\ Spins \in Nat /\ Recheck \in Nat \ {0} /\ Tries \in Nat
  /\ RING_SIZE \div 2 <= MaxIndex
<1>1. Cardinality(Ring) \in Nat
  BY LcrqAssumption, FS_CardinalityType
<1>2. Ring = 1..Cardinality(Ring) /\ Ring # {}
  BY LcrqAssumption
<1>3. 1 \in Ring /\ Ring \subseteq Nat \ {0}
  BY <1>1, <1>2
<1> QED BY <1>1, <1>2, <1>3, LcrqAssumption

(* Every place of a thread, and the locals of an idle one.                 *)
LEMMA IdleTyped == Idle \in Locals
BY RingsAreNumbers DEF Idle, Locals

(* A thread that moves keeps the shapes, and nobody else's locals change.  *)
LEMMA GoTyped ==
  ASSUME th \in [Thread -> Locals], NEW p \in Thread, NEW l \in Pcs, NEW f \in Locals, Go(p, l, f)
  PROVE  /\ th' \in [Thread -> Locals] /\ \A o \in Thread \ {p} : th'[o] = th[o]
         /\ th'[p].pc = l /\ th'[p].arg = f.arg /\ th'[p].rq = f.rq /\ th'[p].nrq = f.nrq
         /\ th'[p].next = f.next /\ th'[p].val = f.val
<1>1. th' = [th EXCEPT ![p] = [f EXCEPT !.pc = l]]
  BY DEF Go
<1>2. [f EXCEPT !.pc = l] \in Locals
  BY DEF Locals, Pcs
<1>3. th'[p] = [f EXCEPT !.pc = l]
  BY <1>1
<1>4. f = [x \in DOMAIN f |-> f[x]] /\ {"pc", "arg", "rq", "nrq", "next", "val"} \subseteq DOMAIN f
  BY DEF Locals
<1> QED BY <1>1, <1>2, <1>3, <1>4

(* One local taken over from other locals.                                 *)
LEMMA TakenOver ==
  ASSUME NEW h \in Locals, NEW g \in Locals
  PROVE  /\ /\ [h EXCEPT !.arg = g.arg] \in Locals /\ [h EXCEPT !.arg = g.arg].pc = h.pc
            /\ [h EXCEPT !.arg = g.arg].arg = g.arg
         /\ /\ [h EXCEPT !.tries = g.tries] \in Locals /\ [h EXCEPT !.tries = g.tries].pc = h.pc
            /\ [h EXCEPT !.tries = g.tries].arg = h.arg
            /\ [h EXCEPT !.tries = g.tries].nrq = h.nrq
         /\ /\ [h EXCEPT !.older = g.older] \in Locals
            /\ [h EXCEPT !.older = g.older].arg = h.arg
            /\ [h EXCEPT !.older = g.older].nrq = h.nrq
         /\ /\ [h EXCEPT !.seen = g.seen] \in Locals
            /\ [h EXCEPT !.seen = g.seen].arg = h.arg
            /\ [h EXCEPT !.seen = g.seen].nrq = h.nrq
<1>1. /\ [h EXCEPT !.arg = g.arg] \in Locals /\ [h EXCEPT !.arg = g.arg].pc = h.pc
      /\ [h EXCEPT !.arg = g.arg].arg = g.arg
  BY DEF Locals
<1>2. /\ [h EXCEPT !.tries = g.tries] \in Locals /\ [h EXCEPT !.tries = g.tries].pc = h.pc
      /\ [h EXCEPT !.tries = g.tries].arg = h.arg
      /\ [h EXCEPT !.tries = g.tries].nrq = h.nrq
  BY DEF Locals
<1>3. /\ [h EXCEPT !.older = g.older] \in Locals
      /\ [h EXCEPT !.older = g.older].arg = h.arg
      /\ [h EXCEPT !.older = g.older].nrq = h.nrq
  BY DEF Locals
<1>4. /\ [h EXCEPT !.seen = g.seen] \in Locals
      /\ [h EXCEPT !.seen = g.seen].arg = h.arg
      /\ [h EXCEPT !.seen = g.seen].nrq = h.nrq
  BY DEF Locals
<1> QED BY <1>1, <1>2, <1>3, <1>4

(* The spare ring.                                                         *)
LEMMA SpareSet ==
  ASSUME NEW h \in Locals, NEW m \in {Null} \cup Ring
  PROVE  /\ [h EXCEPT !.nrq = m] \in Locals /\ [h EXCEPT !.nrq = m].pc = h.pc
         /\ [h EXCEPT !.nrq = m].arg = h.arg /\ [h EXCEPT !.nrq = m].nrq = m
BY DEF Locals

(* The next turn of an outer loop.                                         *)
LEMMA AgainTyped ==
  ASSUME th \in [Thread -> Locals], NEW p \in Thread, NEW l \in Pcs, Again(p, l)
  PROVE  /\ th' \in [Thread -> Locals] /\ \A o \in Thread \ {p} : th'[o] = th[o]
         /\ th'[p].pc = l /\ th'[p].arg = th[p].arg /\ th'[p].nrq = th[p].nrq
<1>1. PICK g \in Locals : g = th[p]
  OBVIOUS
<1>2. g.nrq \in {Null} \cup Ring
  BY DEF Locals
<1>3. PICK f1 : f1 = [Idle EXCEPT !.arg = g.arg]
  OBVIOUS
<1>4. PICK f2 : f2 = [f1 EXCEPT !.nrq = g.nrq]
  OBVIOUS
<1>5. PICK f3 : f3 = [f2 EXCEPT !.tries = g.tries]
  OBVIOUS
<1>6. PICK f4 : f4 = [f3 EXCEPT !.older = g.older]
  OBVIOUS
<1>7. PICK f5 : f5 = [f4 EXCEPT !.seen = g.seen]
  OBVIOUS
<1>8. f1 \in Locals /\ f1.arg = g.arg
  BY <1>3, IdleTyped, TakenOver
<1>9. f2 \in Locals /\ f2.arg = g.arg /\ f2.nrq = g.nrq
  BY <1>2, <1>4, <1>8, SpareSet
<1>10. f3 \in Locals /\ f3.arg = g.arg /\ f3.nrq = g.nrq
  BY <1>5, <1>9, TakenOver
<1>11. f4 \in Locals /\ f4.arg = g.arg /\ f4.nrq = g.nrq
  BY <1>6, <1>10, TakenOver
<1>12. f5 \in Locals /\ f5.arg = g.arg /\ f5.nrq = g.nrq
  BY <1>7, <1>11, TakenOver
<1>13. f5 = [Idle EXCEPT !.arg = th[p].arg, !.nrq = th[p].nrq, !.tries = th[p].tries,
                         !.older = th[p].older, !.seen = th[p].seen]
  BY <1>1, <1>3, <1>4, <1>5, <1>6, <1>7
<1>14. Go(p, l, f5)
  BY <1>13 DEF Again
<1> QED BY <1>1, <1>12, <1>14, GoTyped

(* A return.                                                               *)
LEMMA ReturnTyped ==
  ASSUME th \in [Thread -> Locals], NEW p \in Thread, Return(p)
  PROVE  /\ th' \in [Thread -> Locals] /\ \A o \in Thread \ {p} : th'[o] = th[o]
         /\ th'[p].pc = "idle" /\ th'[p].nrq = th[p].nrq
<1> DEFINE f == [Idle EXCEPT !.nrq = th[p].nrq]
<1>1. f \in Locals /\ f.pc = "idle" /\ f.nrq = th[p].nrq
  <2>1. th[p].nrq \in {Null} \cup Ring
    BY DEF Locals
  <2>2. Idle.pc = "idle"
    BY DEF Idle
  <2> QED BY <2>1, <2>2, IdleTyped, SpareSet
<1>2. th' = [th EXCEPT ![p] = f]
  BY DEF Return
<1> HIDE DEF f
<1> QED BY <1>1, <1>2

-----------------------------------------------------------------------------
(* Steps that move no value.                                               *)

(* The step of p, as far as the threads are concerned.                     *)
Moves(p) ==
  /\ th' \in [Thread -> Locals] /\ \A o \in Thread \ {p} : th'[o] = th[o]
  /\ th'[p].nrq = th[p].nrq /\ th[p].pc # "publish" /\ th'[p].pc # "publish"

(* Where p's step leads, it has a ring.                                    *)
Aims(p) ==
  /\ th'[p].pc \notin NoRing => th'[p].rq \in Live
  /\ th'[p].pc \in {"eswing", "dswing"} => th'[p].next \in Live
  /\ th'[p].pc = "take" => th'[p].val # Empty

(* The rings: no value and no link changes.                                *)
Tidy ==
  /\ ring' \in [Ring -> RingRec]
  /\ \A q \in Ring :
       /\ ring'[q].next = ring[q].next
       /\ \A c \in Cells : /\ ring'[q].array[c].val = ring[q].array[c].val
                           /\ ring'[q].array[c].idx % RING_SIZE = c

(* An enqueue goes on with the same argument.                              *)
SameCall(p) ==
  /\ ops' = ops
  /\ th'[p].pc \in Enq => th[p].pc \in Enq /\ th'[p].arg = th[p].arg

(* A spare ring stays spare as long as its thread keeps it.                *)
LEMMA LiveKept ==
  ASSUME NEW p \in Thread, Moves(p), used' = used
  PROVE  Live' = Live /\ (Spares => Spares')
<1>1. \A o \in Thread : th'[o].nrq = th[o].nrq /\ (th'[o].pc = "publish" <=> th[o].pc = "publish")
  BY DEF Moves
<1> QED BY <1>1 DEF Live, Spares

(* The pointers after a step.                                              *)
LEMMA PointersKept ==
  ASSUME NEW p \in Thread, Pointers, Moves(p), Aims(p), Live' = Live,
         \A q \in Ring : ring'[q].next = ring[q].next, head' \in Live, tail' \in Live
  PROVE  Pointers'
<1>1. \A q \in Ring : ring'[q].next # Null => ring'[q].next \in Live'
  BY DEF Pointers
<1>2. ASSUME NEW o \in Thread
      PROVE  /\ th'[o].pc \notin NoRing => th'[o].rq \in Live'
             /\ th'[o].pc \in {"eswing", "dswing"} => th'[o].next \in Live'
             /\ th'[o].pc = "publish" => th'[o].nrq \in Live'
  <2>1. CASE o = p
    BY <2>1 DEF Aims, Moves
  <2>2. CASE o # p
    <3>1. th'[o] = th[o]
      BY <2>2 DEF Moves
    <3> QED BY <3>1 DEF Pointers
  <2> QED BY <2>1, <2>2
<1> QED BY <1>1, <1>2 DEF Pointers

(* Nobody publishes or stops publishing: the same values are enqueued.     *)
LEMMA EnqueuedKept ==
  ASSUME NEW p \in Thread, Moves(p), done' = done
  PROVE  Enqueued' = Enqueued
<1>1. \A o \in Thread : th'[o].pc = "publish" => th[o].pc = "publish" /\ th'[o] = th[o]
  BY DEF Moves
<1>2. \A o \in Thread : th[o].pc = "publish" => th'[o].pc = "publish" /\ th'[o] = th[o]
  BY DEF Moves
<1> QED BY <1>1, <1>2 DEF Enqueued

(* The arguments after a step of the same call.                            *)
LEMMA ArgumentsKept ==
  ASSUME NEW p \in Thread, Arguments, Moves(p), SameCall(p), done' = done
  PROVE  Arguments'
<1>1. \A o \in Thread : th'[o].pc \in Enq => th[o].pc \in Enq /\ th'[o].arg = th[o].arg
  BY DEF Moves, SameCall
<1> QED BY <1>1 DEF Arguments, SameCall

(* Nothing moved in the live rings: every value stays where it was.        *)
LEMMA PlacesKept ==
  ASSUME IInv, Live' = Live, Enqueued' = Enqueued, taken' = taken,
         \A q \in Live, c \in Cells : ring'[q].array[c].val = ring[q].array[c].val
  PROVE  OneCell' /\ CellsHold' /\ TakenDiffer' /\ TakenEnqueued'
<1>1. OneCell'
  <2>1. ASSUME NEW q \in Live, NEW r \in Live, NEW c \in Cells, NEW d \in Cells,
               ring'[q].array[c].val # Empty, ring'[q].array[c].val = ring'[r].array[d].val
        PROVE  q = r /\ c = d
    <3>1. ring[q].array[c].val # Empty /\ ring[q].array[c].val = ring[r].array[d].val
      BY <2>1
    <3>2. OneCell
      BY DEF IInv
    <3> QED BY <3>1, <3>2 DEF OneCell
  <2> QED BY <2>1 DEF OneCell
<1>2. CellsHold'
  <2>1. ToSet(taken)' = ToSet(taken)
    BY DEF ToSet
  <2> QED BY <2>1 DEF CellsHold, IInv
<1>3. TakenDiffer' /\ TakenEnqueued'
  BY DEF IInv, TakenDiffer, TakenEnqueued, ToSet
<1> QED BY <1>1, <1>2, <1>3

(* A step that moves no value keeps all the rest.                          *)
LEMMA QuietKept ==
  ASSUME IInv, NEW p \in Thread, Moves(p), Aims(p), Tidy, head' \in Live, tail' \in Live,
         UNCHANGED <<used, done, taken>>, ops' \in [Thread -> 0..MaxOps],
         prec' \subseteq Values \X Values, Arguments'
  PROVE  IInv'
<1>1. Live' = Live /\ Spares'
  BY LiveKept DEF IInv
<1>2. Pointers'
  BY <1>1, PointersKept DEF IInv, Tidy
<1>3. Enqueued' = Enqueued
  BY EnqueuedKept
<1>4. Shapes'
  BY DEF IInv, Shapes, Moves, Tidy
<1>5. Congruent'
  BY DEF Congruent, Tidy
<1>6. OneCell' /\ CellsHold' /\ TakenDiffer' /\ TakenEnqueued'
  <2>1. Live \subseteq Ring
    BY RingsAreNumbers DEF Live, IInv, Shapes
  <2> QED BY <1>1, <1>3, <2>1, PlacesKept DEF Tidy
<1>7. Found'
  BY DEF IInv, Found, Moves, Aims
<1> QED BY <1>1, <1>2, <1>4, <1>5, <1>6, <1>7 DEF IInv

(* The same, for a step within a call.                                     *)
LEMMA QuietStep ==
  ASSUME IInv, NEW p \in Thread, Moves(p), Aims(p), Tidy, SameCall(p),
         head' \in Live, tail' \in Live, UNCHANGED <<used, done, taken, prec>>
  PROVE  IInv'
<1>1. Arguments'
  BY ArgumentsKept DEF IInv
<1>2. ops' \in [Thread -> 0..MaxOps] /\ prec' \subseteq Values \X Values
  BY DEF IInv, Shapes, SameCall
<1> QED BY <1>1, <1>2, QuietKept

(* A step that leaves the rings alone leaves them tidy.                    *)
LEMMA SameRings ==
  ASSUME IInv, UNCHANGED ring
  PROVE  Tidy
BY DEF IInv, Shapes, Congruent, Tidy

-----------------------------------------------------------------------------
(* The steps that move no value, one by one.                               *)

(* A step that only moves p's program counter and locals, and perhaps an   *)
(* index of its ring.                                                      *)
LEMMA GoStep ==
  ASSUME IInv, NEW p \in Thread, NEW l \in Pcs \ {"publish"}, NEW f \in Locals, Go(p, l, f),
         th[p].pc # "publish", f.nrq = th[p].nrq,
         l \notin NoRing => f.rq \in Live,
         l \in {"eswing", "dswing"} => f.next \in Live,
         l = "take" => f.val # Empty,
         l \in Enq => th[p].pc \in Enq /\ f.arg = th[p].arg,
         Tidy, UNCHANGED <<used, head, tail, hist>>
  PROVE  IInv'
<1>1. /\ th' \in [Thread -> Locals] /\ \A o \in Thread \ {p} : th'[o] = th[o]
      /\ th'[p].pc = l /\ th'[p].arg = f.arg /\ th'[p].rq = f.rq /\ th'[p].nrq = f.nrq
      /\ th'[p].next = f.next /\ th'[p].val = f.val
  BY GoTyped DEF IInv, Shapes
<1>2. Moves(p) /\ Aims(p) /\ SameCall(p)
  BY <1>1 DEF Moves, Aims, SameCall, hist
<1>3. head' \in Live /\ tail' \in Live
  BY DEF IInv, Pointers
<1> QED BY <1>2, <1>3, QuietStep DEF hist

(* The next turn of an outer loop, with the global pointers moved or not.  *)
LEMMA AgainStep ==
  ASSUME IInv, NEW p \in Thread, NEW l \in {"tail", "head"}, Again(p, l),
         th[p].pc # "publish", l = "tail" => th[p].pc \in Enq,
         head' \in Live, tail' \in Live, Tidy, UNCHANGED <<used, hist>>
  PROVE  IInv'
<1>1. /\ th' \in [Thread -> Locals] /\ \A o \in Thread \ {p} : th'[o] = th[o]
      /\ th'[p].pc = l /\ th'[p].arg = th[p].arg /\ th'[p].nrq = th[p].nrq
  BY AgainTyped DEF IInv, Shapes, Pcs
<1>2. Moves(p) /\ Aims(p) /\ SameCall(p)
  BY <1>1 DEF Moves, Aims, SameCall, hist, NoRing, Enq
<1> QED BY <1>2, QuietStep DEF hist

(* A call of enqueue: its argument is a value nobody enqueued yet.         *)
LEMMA BeginEnqueueStep ==
  ASSUME IInv, NEW p \in Thread, BeginEnqueue(p)
  PROVE  IInv'
<1> DEFINE v == <<p, ops[p] + 1>>
           f == [th[p] EXCEPT !.arg = v]
<1>1. ops[p] \in Nat /\ ops[p] + 1 \in 1..MaxOps /\ ops' = [ops EXCEPT ![p] = @ + 1]
  BY RingsAreNumbers DEF BeginEnqueue, IInv, Shapes
<1>2. f \in Locals /\ f.nrq = th[p].nrq /\ f.arg = v
  <2>1. th[p] \in Locals /\ v \in {Null} \cup (Thread \X (1..MaxOps))
    BY <1>1 DEF IInv, Shapes
  <2> HIDE DEF v
  <2> QED BY <2>1 DEF Locals
<1>3. Go(p, "tail", f)
  BY DEF BeginEnqueue
<1>4. /\ th' \in [Thread -> Locals] /\ \A o \in Thread \ {p} : th'[o] = th[o]
      /\ th'[p].pc = "tail" /\ th'[p].arg = v /\ th'[p].nrq = th[p].nrq
  <2> HIDE DEF f
  <2>1. "tail" \in Pcs /\ th \in [Thread -> Locals]
    BY DEF Pcs, IInv, Shapes
  <2> QED BY <1>2, <1>3, <2>1, GoTyped
<1>5. Moves(p) /\ Aims(p)
  BY <1>4 DEF Moves, Aims, NoRing, BeginEnqueue
<1>6. Arguments'
  <2>1. \A o \in Thread : th'[o].pc \in Enq => th'[o].arg = <<o, ops'[o]>> /\ ops'[o] >= 1
    BY <1>1, <1>4 DEF IInv, Arguments, Shapes
  <2>2. ASSUME NEW o \in Thread, NEW k \in 1..MaxOps, <<o, k>> \in done
        PROVE  k <= ops'[o] /\ (th'[o].pc \in Enq => k < ops'[o])
    <3>1. k <= ops[o] /\ (th[o].pc \in Enq => k < ops[o])
      BY <2>2 DEF IInv, Arguments
    <3>2. CASE o = p
      BY <3>1, <3>2, <1>1 DEF IInv, Shapes
    <3>3. CASE o # p
      BY <3>1, <3>3, <1>1, <1>4 DEF IInv, Shapes
    <3> QED BY <3>2, <3>3
  <2> QED BY <2>1, <2>2 DEF Arguments, BeginEnqueue
<1>7. ops' \in [Thread -> 0..MaxOps]
  BY <1>1 DEF IInv, Shapes
<1>8. prec' \subseteq Values \X Values
  <2>1. v \in Values
    BY <1>1 DEF Values
  <2>2. done \subseteq Values /\ prec \subseteq Values \X Values
    BY DEF IInv, Shapes
  <2>3. prec' = prec \cup {<<a, v>> : a \in done}
    BY DEF BeginEnqueue
  <2> HIDE DEF v
  <2> QED BY <2>1, <2>2, <2>3
<1>9. Tidy /\ head' \in Live /\ tail' \in Live
  BY SameRings DEF BeginEnqueue, IInv, Pointers
<1> QED BY <1>5, <1>6, <1>7, <1>8, <1>9, QuietKept DEF BeginEnqueue

(* A call of dequeue.                                                      *)
LEMMA BeginDequeueStep ==
  ASSUME IInv, NEW p \in Thread, BeginDequeue(p)
  PROVE  IInv'
<1> DEFINE f == [th[p] EXCEPT !.older = ToSet(taken), !.seen = done]
<1>1. ops[p] \in Nat /\ ops[p] + 1 \in 1..MaxOps /\ ops' = [ops EXCEPT ![p] = @ + 1]
  BY RingsAreNumbers DEF BeginDequeue, IInv, Shapes
<1>2. f \in Locals /\ f.nrq = th[p].nrq
  <2>1. ToSet(taken) \in SUBSET Values /\ done \in SUBSET Values /\ th[p] \in Locals
    BY DEF IInv, Shapes, ToSet
  <2> QED BY <2>1, ZenonT(60) DEF Locals
<1>3. Go(p, "head", f)
  BY DEF BeginDequeue
<1>4. /\ th' \in [Thread -> Locals] /\ \A o \in Thread \ {p} : th'[o] = th[o]
      /\ th'[p].pc = "head" /\ th'[p].nrq = th[p].nrq
  <2> HIDE DEF f
  <2>1. "head" \in Pcs /\ th \in [Thread -> Locals]
    BY DEF Pcs, IInv, Shapes
  <2> QED BY <1>2, <1>3, <2>1, GoTyped
<1>5. Moves(p) /\ Aims(p)
  BY <1>4 DEF Moves, Aims, NoRing, BeginDequeue
<1>6. Arguments'
  <2>1. \A o \in Thread : th'[o].pc \in Enq => o # p
    BY <1>4 DEF Enq
  <2>2. \A o \in Thread : ops[o] <= ops'[o] /\ (o # p => ops'[o] = ops[o])
    BY <1>1 DEF IInv, Shapes
  <2>3. \A o \in Thread : ops[o] \in Nat /\ ops'[o] \in Nat
    BY <1>1 DEF IInv, Shapes
  <2> QED BY <1>4, <2>1, <2>2, <2>3 DEF Arguments, BeginDequeue, IInv
<1>7. ops' \in [Thread -> 0..MaxOps] /\ prec' \subseteq Values \X Values
  BY <1>1 DEF IInv, Shapes, BeginDequeue
<1>8. Tidy /\ head' \in Live /\ tail' \in Live
  BY SameRings DEF BeginDequeue, IInv, Pointers
<1> QED BY <1>5, <1>6, <1>7, <1>8, QuietKept DEF BeginDequeue

(* Where a thread with a ring stands.                                      *)
LEMMA Here ==
  ASSUME IInv, NEW p \in Thread, th[p].pc \notin NoRing
  PROVE  /\ th[p] \in Locals /\ th[p].rq \in Live /\ th[p].rq \in Ring
         /\ ring[th[p].rq] \in RingRec /\ th[p].n \in Nat
         /\ Slot(p) \in Cells /\ Cell(p) \in CellRec
         /\ ring[th[p].rq].next # Null => ring[th[p].rq].next \in Live
<1>1. th[p] \in Locals
  BY DEF IInv, Shapes
<1>2. th[p].rq \in Live
  BY DEF IInv, Pointers
<1>3. Live \subseteq Ring
  BY RingsAreNumbers DEF Live, IInv, Shapes
<1>4. ring[th[p].rq] \in RingRec
  BY <1>2, <1>3 DEF IInv, Shapes
<1>5. th[p].n \in Nat
  BY <1>1, RingsAreNumbers DEF Locals
<1>6. Slot(p) \in Cells
  BY <1>5, RingsAreNumbers, Division DEF Slot, Cells
<1>7. Cell(p) \in CellRec
  BY <1>4, <1>6 DEF Cell, RingRec
<1> QED BY <1>1, <1>2, <1>3, <1>4, <1>5, <1>6, <1>7 DEF IInv, Pointers

(* The reads of the global pointers.                                       *)
LEMMA PointerReads ==
  ASSUME IInv, NEW p \in Thread, ReadTailPtr(p) \/ ReadHeadPtr(p)
  PROVE  IInv'
<1>1. th[p] \in Locals /\ head \in Live /\ tail \in Live /\ Live \subseteq Ring
  BY RingsAreNumbers DEF IInv, Shapes, Pointers, Live
<1>2. CASE ReadTailPtr(p)
  <2> DEFINE f == [th[p] EXCEPT !.rq = tail]
  <2>1. f \in Locals /\ f.nrq = th[p].nrq /\ f.arg = th[p].arg /\ f.rq = tail
    BY <1>1 DEF Locals
  <2>2. th[p].pc = "tail" /\ Go(p, "enext", f) /\ UNCHANGED <<ring, used, head, tail, hist>>
    BY <1>2 DEF ReadTailPtr
  <2> HIDE DEF f
  <2> QED BY <1>1, <2>1, <2>2, SameRings, GoStep DEF Pcs, NoRing, Enq
<1>3. CASE ReadHeadPtr(p)
  <2> DEFINE f == [th[p] EXCEPT !.rq = head]
  <2>1. f \in Locals /\ f.nrq = th[p].nrq /\ f.rq = head
    BY <1>1 DEF Locals
  <2>2. th[p].pc = "head" /\ Go(p, "dfaa", f) /\ UNCHANGED <<ring, used, head, tail, hist>>
    BY <1>3 DEF ReadHeadPtr
  <2> HIDE DEF f
  <2> QED BY <1>1, <2>1, <2>2, SameRings, GoStep DEF Pcs, NoRing, Enq
<1> QED BY <1>2, <1>3

(* The reads of a ring's next pointer.                                     *)
LEMMA NextReads ==
  ASSUME IInv, NEW p \in Thread, ReadNext(p) \/ ReadNextRing(p)
  PROVE  IInv'
<1> DEFINE nx == ring[th[p].rq].next
           f  == [th[p] EXCEPT !.next = nx]
<1>1. th[p].pc \in {"enext", "dnext"}
  BY DEF ReadNext, ReadNextRing
<1>2. /\ th[p] \in Locals /\ th[p].rq \in Live /\ nx \in {Null} \cup Ring
      /\ nx # Null => nx \in Live
  BY <1>1, Here DEF NoRing, RingRec
<1>3. f \in Locals /\ f.nrq = th[p].nrq /\ f.arg = th[p].arg /\ f.rq = th[p].rq /\ f.next = nx
  <2> HIDE DEF nx
  <2> QED BY <1>2 DEF Locals
<1>4. CASE ReadNext(p)
  <2>1. PICK l \in {"efaa", "eswing"} : Go(p, l, f) /\ (l = "eswing" => nx # Null)
    BY <1>4 DEF ReadNext
  <2>2. th[p].pc = "enext" /\ UNCHANGED <<ring, used, head, tail, hist>>
    BY <1>4 DEF ReadNext
  <2> HIDE DEF f, nx
  <2> QED BY <1>2, <1>3, <2>1, <2>2, SameRings, GoStep DEF Pcs, NoRing, Enq
<1>5. CASE ReadNextRing(p)
  <2>1. th[p].pc = "dnext" /\ nx # Null /\ Go(p, "dswing", f)
        /\ UNCHANGED <<ring, used, head, tail, hist>>
    BY <1>5 DEF ReadNextRing
  <2> HIDE DEF f, nx
  <2> QED BY <1>2, <1>3, <2>1, SameRings, GoStep DEF Pcs, NoRing, Enq
<1> QED BY <1>4, <1>5

(* The global pointers follow the links.                                   *)
LEMMA Swings ==
  ASSUME IInv, NEW p \in Thread, SwingTail(p) \/ SwingHead(p)
  PROVE  IInv'
<1>1. th[p].next \in Live /\ head \in Live /\ tail \in Live
  BY DEF IInv, Pointers, SwingTail, SwingHead
<1>2. CASE SwingTail(p)
  <2>1. head' \in Live /\ tail' \in Live
    BY <1>1, <1>2 DEF SwingTail
  <2> QED BY <1>2, <2>1, SameRings, AgainStep DEF SwingTail, Enq
<1>3. CASE SwingHead(p)
  <2>1. head' \in Live /\ tail' \in Live
    BY <1>1, <1>3 DEF SwingHead
  <2> QED BY <1>3, <2>1, SameRings, AgainStep DEF SwingHead, Enq
<1> QED BY <1>2, <1>3

(* The reads of a cell's index and value.                                  *)
LEMMA CellReads ==
  ASSUME IInv, NEW p \in Thread, ReadIdx(p) \/ Judge(p) \/ Examine(p)
  PROVE  IInv'
<1>1. th[p].pc \in {"eidx", "didx", "eval", "dval"}
  BY DEF ReadIdx, Judge, Examine
<1>2. th[p] \in Locals /\ th[p].rq \in Live /\ Cell(p) \in CellRec
  BY <1>1, Here DEF NoRing
<1>3. CASE ReadIdx(p)
  <2> DEFINE f == [th[p] EXCEPT !.idx = Cell(p).idx, !.unsafe = Cell(p).unsafe]
  <2>1. f \in Locals /\ f.nrq = th[p].nrq /\ f.arg = th[p].arg /\ f.rq = th[p].rq
    BY <1>2, ZenonT(60) DEF Locals, CellRec
  <2>2. PICK l \in {"eval", "dval"} : Go(p, l, f) /\ (l = "eval" => th[p].pc = "eidx")
    BY <1>3 DEF ReadIdx
  <2>3. UNCHANGED <<ring, used, head, tail, hist>>
    BY <1>3 DEF ReadIdx
  <2> HIDE DEF f
  <2> QED BY <1>1, <1>2, <2>1, <2>2, <2>3, SameRings, GoStep DEF Pcs, NoRing, Enq
<1>4. ASSUME Judge(p) \/ Examine(p)
      PROVE  IInv'
  <2> DEFINE f == [th[p] EXCEPT !.val = Cell(p).val]
  <2>1. /\ f \in Locals /\ f.nrq = th[p].nrq /\ f.arg = th[p].arg /\ f.rq = th[p].rq
        /\ f.val = Cell(p).val
    BY <1>2 DEF Locals, CellRec
  <2>2. UNCHANGED <<ring, used, head, tail, hist>>
    BY <1>4 DEF Judge, Examine
  <2>3. CASE Judge(p)
    <3>1. PICK l \in {"full", "safe", "put"} : Go(p, l, f)
      BY <2>3 DEF Judge
    <3>2. th[p].pc = "eval"
      BY <2>3 DEF Judge
    <3> HIDE DEF f
    <3> QED BY <1>2, <2>1, <2>2, <3>1, <3>2, SameRings, GoStep DEF Pcs, NoRing, Enq
  <2>4. CASE Examine(p)
    <3>1. PICK l \in {"check", "take", "mark", "wait"} :
            Go(p, l, f) /\ (l = "take" => Cell(p).val # Empty)
      <4>1. th[p].idx \in Nat /\ th[p].n \in Nat
        BY <1>1, <1>2, Here DEF Locals, NoRing
      <4>2. th[p].idx > th[p].n \/ th[p].idx <= th[p].n
        BY <4>1
      <4>3. ~(th[p].idx > th[p].n /\ th[p].idx <= th[p].n)
        BY <4>1
      <4> QED BY <2>4, <4>2, <4>3 DEF Examine
    <3>2. th[p].pc = "dval"
      BY <2>4 DEF Examine
    <3> HIDE DEF f
    <3> QED BY <1>2, <2>1, <2>2, <3>1, <3>2, SameRings, GoStep DEF Pcs, NoRing, Enq
  <2> QED BY <1>4, <2>3, <2>4
<1> QED BY <1>3, <1>4

(* The decisions on the head and the tail of a ring.                       *)
LEMMA EndChecks ==
  ASSUME IInv, NEW p \in Thread, CheckHead(p) \/ CheckFull(p) \/ CheckEmpty(p)
  PROVE  IInv'
<1>1. th[p].pc \in {"safe", "full", "check"} /\ UNCHANGED <<ring, used, head, tail, hist>>
  BY DEF CheckHead, CheckFull, CheckEmpty
<1>2. th[p] \in Locals /\ th[p].rq \in Live
  BY <1>1, Here DEF NoRing
<1>3. head' \in Live /\ tail' \in Live /\ Tidy
  BY <1>1, SameRings DEF IInv, Pointers
<1>4. CASE CheckHead(p)
  <2>1. PICK l \in {"put", "full"} : Go(p, l, th[p])
    BY <1>4 DEF CheckHead
  <2>2. th[p].pc = "safe"
    BY <1>4 DEF CheckHead
  <2> QED BY <1>1, <1>2, <1>3, <2>1, <2>2, GoStep DEF Pcs, NoRing, Enq
<1>5. CASE CheckFull(p)
  <2> DEFINE f == [th[p] EXCEPT !.tries = @ + 1]
  <2>1. f \in Locals /\ f.nrq = th[p].nrq /\ f.arg = th[p].arg /\ f.rq = th[p].rq
    BY <1>2 DEF Locals
  <2>2. th[p].pc = "full" /\ (Go(p, "close", f) \/ Again(p, "tail"))
    BY <1>5 DEF CheckFull
  <2> HIDE DEF f
  <2>3. CASE Go(p, "close", f)
    BY <1>1, <1>2, <1>3, <2>1, <2>2, <2>3, GoStep DEF Pcs, NoRing, Enq
  <2>4. CASE Again(p, "tail")
    BY <1>1, <1>3, <2>2, <2>4, AgainStep DEF Enq
  <2> QED BY <2>2, <2>3, <2>4
<1>6. CASE CheckEmpty(p)
  <2>1. th[p].pc = "check" /\ (Go(p, "fix", th[p]) \/ Again(p, "head"))
    BY <1>6 DEF CheckEmpty
  <2>2. CASE Go(p, "fix", th[p])
    BY <1>1, <1>2, <1>3, <2>1, <2>2, GoStep DEF Pcs, NoRing, Enq
  <2>3. CASE Again(p, "head")
    BY <1>1, <1>3, <2>1, <2>3, AgainStep DEF Enq
  <2> QED BY <2>1, <2>2, <2>3
<1> QED BY <1>4, <1>5, <1>6

(* A step on the head, the tail or the closed bit of p's ring is tidy.     *)
LEMMA EndsTidy ==
  ASSUME IInv, NEW q \in Ring, NEW x \in RingRec, ring' = [ring EXCEPT ![q] = x],
         x.next = ring[q].next, x.array = ring[q].array
  PROVE  Tidy
<1>1. ring \in [Ring -> RingRec] /\ Congruent
  BY DEF IInv, Shapes
<1>2. ring' \in [Ring -> RingRec]
  BY <1>1
<1>3. \A r \in Ring : ring'[r].next = ring[r].next /\ ring'[r].array = ring[r].array
  BY <1>1
<1> QED BY <1>1, <1>2, <1>3 DEF Tidy, Congruent

(* What a compare-and-swap on p's cell does to the rings.                  *)
LEMMA CellSet ==
  ASSUME IInv, NEW p \in Thread, th[p].pc \notin NoRing, NEW x \in CellRec, SetCell(p, x),
         x.idx % RING_SIZE = Slot(p)
  PROVE  /\ ring' \in [Ring -> RingRec] /\ Congruent'
         /\ \A q \in Ring : ring'[q].next = ring[q].next
         /\ ring'[th[p].rq].array[Slot(p)] = x
         /\ \A q \in Ring, c \in Cells : q # th[p].rq \/ c # Slot(p) =>
              ring'[q].array[c] = ring[q].array[c]
<1>1. /\ th[p].rq \in Ring /\ Slot(p) \in Cells /\ ring[th[p].rq] \in RingRec
      /\ ring \in [Ring -> RingRec] /\ Congruent
  BY Here DEF IInv, Shapes
<1>2. PICK k : k = th[p].rq
  OBVIOUS
<1>3. PICK s : s = Slot(p)
  OBVIOUS
<1>4. ring' = [ring EXCEPT ![k].array[s] = x]
  BY <1>2, <1>3 DEF SetCell
<1>5. k \in Ring /\ s \in Cells /\ ring[k] \in RingRec
  BY <1>1, <1>2, <1>3
<1>6. PICK y : y = [ring[k] EXCEPT !.array = [ring[k].array EXCEPT ![s] = x]]
  OBVIOUS
<1>7. ring' = [ring EXCEPT ![k] = y]
  BY <1>4, <1>6
<1>8. y \in RingRec /\ y.next = ring[k].next /\ y.array = [ring[k].array EXCEPT ![s] = x]
  BY <1>5, <1>6 DEF RingRec
<1>9. ring[k].array \in [Cells -> CellRec]
  BY <1>5 DEF RingRec
<1>10. y.array[s] = x /\ \A c \in Cells : c # s => y.array[c] = ring[k].array[c]
  BY <1>5, <1>8, <1>9
<1>11. ring' \in [Ring -> RingRec] /\ ring'[k] = y /\ \A q \in Ring : q # k => ring'[q] = ring[q]
  BY <1>1, <1>5, <1>7, <1>8
<1>12. \A q \in Ring : ring'[q].next = ring[q].next
  BY <1>8, <1>11
<1>13. \A q \in Ring, c \in Cells : q # k \/ c # s => ring'[q].array[c] = ring[q].array[c]
  BY <1>10, <1>11
<1>14. ring'[k].array[s] = x
  BY <1>10, <1>11
<1>15. Congruent'
  BY <1>1, <1>3, <1>13, <1>14 DEF Congruent
<1> QED BY <1>2, <1>3, <1>11, <1>12, <1>13, <1>14, <1>15

(* One that leaves the value in place is tidy.                             *)
LEMMA CellTidy ==
  ASSUME IInv, NEW p \in Thread, th[p].pc \notin NoRing, NEW x \in CellRec, SetCell(p, x),
         x.idx % RING_SIZE = Slot(p), x.val = Cell(p).val
  PROVE  Tidy
<1>1. /\ ring' \in [Ring -> RingRec] /\ Congruent'
      /\ \A q \in Ring : ring'[q].next = ring[q].next
      /\ ring'[th[p].rq].array[Slot(p)] = x
      /\ \A q \in Ring, c \in Cells : q # th[p].rq \/ c # Slot(p) =>
           ring'[q].array[c] = ring[q].array[c]
  BY CellSet
<1>2. \A q \in Ring, c \in Cells : ring'[q].array[c].val = ring[q].array[c].val
  BY <1>1 DEF Cell
<1> QED BY <1>1, <1>2 DEF Tidy, Congruent

(* The fetch-and-adds.                                                     *)
LEMMA Tickets ==
  ASSUME IInv, NEW p \in Thread, TakeTicket(p) \/ DrawTicket(p)
  PROVE  IInv'
<1> DEFINE q == ring[th[p].rq]
<1>1. th[p].pc \in {"efaa", "dfaa"} /\ UNCHANGED <<used, head, tail, hist>>
  BY DEF TakeTicket, DrawTicket
<1>2. th[p] \in Locals /\ th[p].rq \in Live /\ th[p].rq \in Ring /\ q \in RingRec
  BY <1>1, Here DEF NoRing
<1>3. CASE TakeTicket(p)
  <2> DEFINE f == [th[p] EXCEPT !.n = q.tail]
             x == [q EXCEPT !.tail = @ + 1]
  <2>1. q.tail \in 0..MaxIndex - 1
    <3>1. q.tail < MaxIndex
      BY <1>3 DEF TakeTicket
    <3> HIDE DEF q
    <3>2. q.tail \in 0..MaxIndex
      BY <1>2 DEF RingRec
    <3> QED BY <3>1, <3>2, RingsAreNumbers
  <2>2. f \in Locals /\ f.nrq = th[p].nrq /\ f.arg = th[p].arg /\ f.rq = th[p].rq
    <3> HIDE DEF q
    <3> QED BY <1>2, <2>1 DEF Locals
  <2>3. x \in RingRec /\ x.next = q.next /\ x.array = q.array
    <3> HIDE DEF q
    <3>1. q.tail + 1 \in 0..MaxIndex
      BY <2>1, RingsAreNumbers
    <3> QED BY <1>2, <3>1 DEF RingRec
  <2>4. ring' = [ring EXCEPT ![th[p].rq] = x]
    BY <1>3 DEF TakeTicket
  <2>5. Tidy
    <3> HIDE DEF x
    <3> QED BY <1>2, <2>3, <2>4, EndsTidy
  <2>6. PICK l \in {"link", "eidx"} : Go(p, l, f)
    BY <1>3 DEF TakeTicket
  <2>7. th[p].pc = "efaa"
    BY <1>3 DEF TakeTicket
  <2> HIDE DEF f, x, q
  <2> QED BY <1>1, <1>2, <2>2, <2>5, <2>6, <2>7, GoStep DEF Pcs, NoRing, Enq
<1>4. CASE DrawTicket(p)
  <2> DEFINE f == [th[p] EXCEPT !.n = q.head, !.r = 0]
             x == [q EXCEPT !.head = @ + 1]
  <2>1. q.head \in 0..MaxIndex - 1
    <3>1. q.head < MaxIndex
      BY <1>4 DEF DrawTicket
    <3> HIDE DEF q
    <3>2. q.head \in 0..MaxIndex
      BY <1>2 DEF RingRec
    <3> QED BY <3>1, <3>2, RingsAreNumbers
  <2>2. f \in Locals /\ f.nrq = th[p].nrq /\ f.rq = th[p].rq
    <3> HIDE DEF q
    <3>1. 0 \in 0..Spins + 1
      BY RingsAreNumbers
    <3> QED BY <1>2, <2>1, <3>1, ZenonT(60) DEF Locals
  <2>3. x \in RingRec /\ x.next = q.next /\ x.array = q.array
    <3> HIDE DEF q
    <3>1. q.head + 1 \in 0..MaxIndex
      BY <2>1, RingsAreNumbers
    <3> QED BY <1>2, <3>1 DEF RingRec
  <2>4. ring' = [ring EXCEPT ![th[p].rq] = x]
    BY <1>4 DEF DrawTicket
  <2>5. Tidy
    <3> HIDE DEF x
    <3> QED BY <1>2, <2>3, <2>4, EndsTidy
  <2>6. Go(p, "didx", f) /\ th[p].pc = "dfaa"
    BY <1>4 DEF DrawTicket
  <2> HIDE DEF f, x, q
  <2> QED BY <1>1, <1>2, <2>2, <2>5, <2>6, GoStep DEF Pcs, NoRing, Enq
<1> QED BY <1>3, <1>4

(* close_crq.                                                              *)
LEMMA CloseStep ==
  ASSUME IInv, NEW p \in Thread, Close(p)
  PROVE  IInv'
<1> DEFINE q == ring[th[p].rq]
           x == [q EXCEPT !.closed = TRUE]
<1>1. th[p].pc = "close" /\ UNCHANGED <<used, head, tail, hist>>
  BY DEF Close
<1>2. th[p] \in Locals /\ th[p].rq \in Live /\ th[p].rq \in Ring /\ q \in RingRec
  BY <1>1, Here DEF NoRing
<1>3. x \in RingRec /\ x.next = q.next /\ x.array = q.array
  <2> HIDE DEF q
  <2> QED BY <1>2 DEF RingRec
<1>4. \/ ring' = [ring EXCEPT ![th[p].rq] = x] /\ Go(p, "link", th[p])
      \/ ring' = ring /\ Again(p, "tail")
  BY DEF Close
<1>5. head' \in Live /\ tail' \in Live
  BY <1>1 DEF IInv, Pointers
<1> HIDE DEF x
<1>6. Tidy
  BY <1>2, <1>3, <1>4, EndsTidy, SameRings
<1> HIDE DEF q
<1>7. CASE Go(p, "link", th[p])
  BY <1>1, <1>2, <1>6, <1>7, GoStep DEF Pcs, NoRing, Enq
<1>8. CASE Again(p, "tail")
  BY <1>1, <1>5, <1>6, <1>8, AgainStep DEF Enq
<1> QED BY <1>4, <1>7, <1>8

(* A dequeuer notes the tail.                                              *)
LEMMA TailNoted ==
  ASSUME NEW g \in Locals, NEW z \in [tt : 0..MaxIndex, ttc : BOOLEAN]
  PROVE  /\ [g EXCEPT !.tt = z.tt, !.ttc = z.ttc] \in Locals
         /\ [g EXCEPT !.tt = z.tt, !.ttc = z.ttc].nrq = g.nrq
         /\ [g EXCEPT !.tt = z.tt, !.ttc = z.ttc].rq = g.rq
         /\ [g EXCEPT !.tt = z.tt, !.ttc = z.ttc].r = g.r
BY ZenonT(60) DEF Locals

(* What a dequeuer notes of the tail while it waits.                       *)
LEMMA WaitReads ==
  ASSUME IInv, NEW p \in Thread, Wait(p)
  PROVE  \E z \in [tt : 0..MaxIndex, ttc : BOOLEAN] :
           IF th[p].unsafe \/ PredLeq(z.tt, th[p].n) \/ th[p].r > Spins \/ z.ttc
           THEN Go(p, "advance", [th[p] EXCEPT !.tt = z.tt, !.ttc = z.ttc])
           ELSE Go(p, "didx", [[th[p] EXCEPT !.tt = z.tt, !.ttc = z.ttc] EXCEPT !.r = @ + 1])
<1> DEFINE q == ring[th[p].rq]
<1>1. th[p] \in Locals /\ q \in RingRec
  BY Here DEF NoRing, Wait
<1>2. CASE th[p].r % Recheck = 0
  <2> DEFINE z == [tt |-> q.tail, ttc |-> q.closed]
  <2>1. z \in [tt : 0..MaxIndex, ttc : BOOLEAN] /\ z.tt = q.tail /\ z.ttc = q.closed
    BY <1>1 DEF RingRec
  <2>2. IF th[p].unsafe \/ PredLeq(q.tail, th[p].n) \/ th[p].r > Spins \/ q.closed
        THEN Go(p, "advance", [th[p] EXCEPT !.tt = q.tail, !.ttc = q.closed])
        ELSE Go(p, "didx", [[th[p] EXCEPT !.tt = q.tail, !.ttc = q.closed] EXCEPT !.r = @ + 1])
    BY <1>2, Zenon DEF Wait
  <2> HIDE DEF z
  <2> QED BY <2>1, <2>2, Zenon
<1>3. CASE th[p].r % Recheck # 0
  <2> DEFINE z == [tt |-> th[p].tt, ttc |-> th[p].ttc]
  <2>1. z \in [tt : 0..MaxIndex, ttc : BOOLEAN] /\ z.tt = th[p].tt /\ z.ttc = th[p].ttc
    BY <1>1 DEF Locals
  <2>2. IF th[p].unsafe \/ PredLeq(th[p].tt, th[p].n) \/ th[p].r > Spins \/ th[p].ttc
        THEN Go(p, "advance", [th[p] EXCEPT !.tt = th[p].tt, !.ttc = th[p].ttc])
        ELSE Go(p, "didx", [[th[p] EXCEPT !.tt = th[p].tt, !.ttc = th[p].ttc] EXCEPT !.r = @ + 1])
    BY <1>3, Zenon DEF Wait
  <2> HIDE DEF z
  <2> QED BY <2>1, <2>2, Zenon
<1> QED BY <1>2, <1>3

(* A dequeuer waits, or gives up its ticket.                               *)
LEMMA WaitStep ==
  ASSUME IInv, NEW p \in Thread, Wait(p)
  PROVE  IInv'
<1>1. th[p].pc = "wait" /\ UNCHANGED <<ring, used, head, tail, hist>>
  BY DEF Wait
<1>2. th[p] \in Locals /\ th[p].rq \in Live /\ ring[th[p].rq] \in RingRec
  BY <1>1, Here DEF NoRing
<1>3. PICK z \in [tt : 0..MaxIndex, ttc : BOOLEAN] :
        IF th[p].unsafe \/ PredLeq(z.tt, th[p].n) \/ th[p].r > Spins \/ z.ttc
        THEN Go(p, "advance", [th[p] EXCEPT !.tt = z.tt, !.ttc = z.ttc])
        ELSE Go(p, "didx", [[th[p] EXCEPT !.tt = z.tt, !.ttc = z.ttc] EXCEPT !.r = @ + 1])
  BY WaitReads
<1> DEFINE me == [th[p] EXCEPT !.tt = z.tt, !.ttc = z.ttc]
           f  == [me EXCEPT !.r = @ + 1]
<1>4. me \in Locals /\ me.nrq = th[p].nrq /\ me.rq = th[p].rq /\ me.r = th[p].r
  BY <1>2, TailNoted
<1>5. CASE Go(p, "advance", me)
  <2> HIDE DEF me
  <2> QED BY <1>1, <1>2, <1>4, <1>5, SameRings, GoStep DEF Pcs, NoRing, Enq
<1>6. CASE Go(p, "didx", f) /\ ~(th[p].r > Spins)
  <2>1. th[p].r + 1 \in 0..Spins + 1
    <3>1. th[p].r \in 0..Spins + 1
      BY <1>2 DEF Locals
    <3> HIDE DEF f, me
    <3> QED BY <1>6, <3>1, RingsAreNumbers
  <2>2. f \in Locals /\ f.nrq = th[p].nrq /\ f.rq = th[p].rq
    <3> HIDE DEF me
    <3> QED BY <1>4, <2>1 DEF Locals
  <2> HIDE DEF f
  <2> QED BY <1>1, <1>2, <1>6, <2>2, SameRings, GoStep DEF Pcs, NoRing, Enq
<1> QED BY <1>3, <1>5, <1>6

(* A compare-and-swap that fails, or one that leaves the value in place:   *)
(* the cell is marked unsafe or moved on to the next round.                *)
LEMMA CellMarks ==
  ASSUME IInv, NEW p \in Thread, MarkUnsafe(p) \/ Advance(p)
  PROVE  IInv'
<1>1. th[p].pc \in {"mark", "advance"} /\ UNCHANGED <<used, head, tail, hist>>
  BY DEF MarkUnsafe, Advance
<1>2. /\ th[p] \in Locals /\ th[p].rq \in Live /\ th[p].rq \in Ring /\ th[p].n \in Nat
      /\ Slot(p) \in Cells /\ Cell(p) \in CellRec
  BY <1>1, Here DEF NoRing
<1>3. PICK l \in {"check", "didx"} : Go(p, l, th[p])
  BY DEF MarkUnsafe, Advance
<1>4. th[p].pc \notin NoRing
  BY <1>1 DEF NoRing
<1>5. CASE UNCHANGED ring
  BY <1>1, <1>2, <1>3, <1>5, SameRings, GoStep DEF Pcs, NoRing, Enq
<1>6. CASE MarkUnsafe(p) /\ SetCell(p, [Cell(p) EXCEPT !.unsafe = TRUE])
  <2> DEFINE x == [Cell(p) EXCEPT !.unsafe = TRUE]
  <2>1. x \in CellRec /\ x.val = Cell(p).val /\ x.idx = Cell(p).idx
    BY <1>2 DEF CellRec
  <2>2. Cell(p).idx % RING_SIZE = Slot(p)
    BY <1>2 DEF IInv, Congruent, Cell
  <2> HIDE DEF x
  <2>3. Tidy
    BY <1>4, <1>6, <2>1, <2>2, CellTidy DEF x
  <2> QED BY <1>1, <1>2, <1>3, <2>3, GoStep DEF Pcs, NoRing, Enq
<1>7. CASE Advance(p) /\ SetCell(p, [Cell(p) EXCEPT !.idx = th[p].n + RING_SIZE])
  <2> DEFINE x == [Cell(p) EXCEPT !.idx = th[p].n + RING_SIZE]
  <2>1. th[p].n + RING_SIZE \in Nat
    BY <1>2, RingsAreNumbers
  <2>2. x \in CellRec /\ x.val = Cell(p).val /\ x.idx = th[p].n + RING_SIZE
    BY <1>2, <2>1 DEF CellRec
  <2>3. (th[p].n + RING_SIZE) % RING_SIZE = Slot(p)
    BY <1>2, RingsAreNumbers, NextRound DEF Slot
  <2> HIDE DEF x
  <2>4. Tidy
    BY <1>4, <1>7, <2>2, <2>3, CellTidy DEF x
  <2> QED BY <1>1, <1>2, <1>3, <2>4, GoStep DEF Pcs, NoRing, Enq
<1> QED BY <1>5, <1>6, <1>7 DEF MarkUnsafe, Advance

(* fixState.                                                               *)
LEMMA FixSteps ==
  ASSUME IInv, NEW p \in Thread, FixRead(p) \/ FixHead(p) \/ FixCheck(p) \/ FixTail(p)
  PROVE  IInv'
<1>1. th[p].pc \in {"fix", "fixh", "fixt", "fixcas"} /\ UNCHANGED <<used, head, tail, hist>>
  BY DEF FixRead, FixHead, FixCheck, FixTail
<1> DEFINE q == ring[th[p].rq]
<1>2. th[p] \in Locals /\ th[p].rq \in Live /\ th[p].rq \in Ring /\ q \in RingRec
  BY <1>1, Here DEF NoRing
<1>3. CASE FixRead(p)
  <2> DEFINE f == [th[p] EXCEPT !.fixt = q.tail, !.fixc = q.closed]
  <2>1. f \in Locals /\ f.nrq = th[p].nrq /\ f.rq = th[p].rq
    <3> HIDE DEF q
    <3> QED BY <1>2, ZenonT(60) DEF Locals, RingRec
  <2>2. Go(p, "fixh", f) /\ UNCHANGED ring
    BY <1>3 DEF FixRead
  <2> HIDE DEF f
  <2> QED BY <1>1, <1>2, <2>1, <2>2, SameRings, GoStep DEF Pcs, NoRing, Enq
<1>4. CASE FixHead(p)
  <2> DEFINE f == [th[p] EXCEPT !.tt = q.head]
  <2>1. f \in Locals /\ f.nrq = th[p].nrq /\ f.rq = th[p].rq
    <3> HIDE DEF q
    <3> QED BY <1>2 DEF Locals, RingRec
  <2>2. Go(p, "fixt", f) /\ UNCHANGED ring
    BY <1>4 DEF FixHead
  <2> HIDE DEF f
  <2> QED BY <1>1, <1>2, <2>1, <2>2, SameRings, GoStep DEF Pcs, NoRing, Enq
<1>5. CASE FixCheck(p)
  <2>1. PICK l \in {"fix", "fixcas", "dnext"} : Go(p, l, th[p])
    BY <1>5 DEF FixCheck
  <2>2. UNCHANGED ring
    BY <1>5 DEF FixCheck
  <2> QED BY <1>1, <1>2, <2>1, <2>2, SameRings, GoStep DEF Pcs, NoRing, Enq
<1>6. CASE FixTail(p)
  <2> DEFINE x == [q EXCEPT !.tail = th[p].tt]
  <2>1. x \in RingRec /\ x.next = q.next /\ x.array = q.array
    <3> HIDE DEF q
    <3>1. th[p].tt \in 0..MaxIndex
      BY <1>2 DEF Locals
    <3> QED BY <1>2, <3>1 DEF RingRec
  <2>2. ring' = [ring EXCEPT ![th[p].rq] = x] \/ UNCHANGED ring
    BY <1>6 DEF FixTail
  <2>3. PICK l \in {"fix", "dnext"} : Go(p, l, th[p])
    BY <1>6 DEF FixTail
  <2> HIDE DEF x
  <2>4. Tidy
    BY <1>2, <2>1, <2>2, EndsTidy, SameRings
  <2> QED BY <1>1, <1>2, <2>3, <2>4, GoStep DEF Pcs, NoRing, Enq
<1> QED BY <1>3, <1>4, <1>5, <1>6

(* A dequeue that returns EMPTY.                                           *)
LEMMA ReturnEmptyStep ==
  ASSUME IInv, NEW p \in Thread, ReturnEmpty(p)
  PROVE  IInv'
<1>1. /\ th' \in [Thread -> Locals] /\ \A o \in Thread \ {p} : th'[o] = th[o]
      /\ th'[p].pc = "idle" /\ th'[p].nrq = th[p].nrq
  BY ReturnTyped DEF ReturnEmpty, IInv, Shapes
<1>2. Moves(p) /\ Aims(p) /\ SameCall(p)
  BY <1>1 DEF Moves, Aims, SameCall, ReturnEmpty, hist, NoRing, Enq
<1>3. head' \in Live /\ tail' \in Live /\ Tidy
  BY SameRings DEF IInv, Pointers, ReturnEmpty
<1> QED BY <1>2, <1>3, QuietStep DEF ReturnEmpty, hist

-----------------------------------------------------------------------------
(* The steps that move a value.                                            *)

(* The argument of an enqueue that is under way is in no live ring and     *)
(* was not taken.                                                          *)
LEMMA FreshArgument ==
  ASSUME IInv, NEW p \in Thread, th[p].pc \in Enq \ {"publish"}
  PROVE  /\ th[p].arg \in Values /\ th[p].arg \notin Enqueued
         /\ th[p].arg \notin ToSet(taken)
         /\ \A q \in Live, c \in Cells : ring[q].array[c].val = th[p].arg =>
              ring[q].array[c].val = Empty
<1>1. th[p].arg = <<p, ops[p]>> /\ ops[p] >= 1 /\ ops[p] \in 0..MaxOps
  BY DEF IInv, Arguments, Shapes
<1>2. ops[p] \in 1..MaxOps
  BY <1>1, RingsAreNumbers
<1>3. th[p].arg \notin done
  <2>1. ASSUME <<p, ops[p]>> \in done
        PROVE  FALSE
    <3>1. ops[p] < ops[p]
      BY <1>2, <2>1 DEF IInv, Arguments
    <3> QED BY <1>2, <3>1
  <2> QED BY <1>1, <2>1
<1>4. ASSUME NEW o \in Thread, th[o].pc = "publish", th[o].arg = th[p].arg
      PROVE  FALSE
  <2>1. th[o].arg = <<o, ops[o]>>
    BY <1>4 DEF IInv, Arguments, Enq
  <2>2. o = p
    BY <1>1, <1>4, <2>1
  <2> QED BY <1>4, <2>2
<1>5. th[p].arg \notin Enqueued
  BY <1>3, <1>4 DEF Enqueued
<1>6. th[p].arg \in Values
  BY <1>1, <1>2 DEF Values
<1> QED BY <1>5, <1>6 DEF IInv, CellsHold, TakenEnqueued

(* An enqueue that is done with its argument.                              *)
LEMMA ArgumentDone ==
  ASSUME IInv, NEW p \in Thread, th[p].pc \in Enq, th'[p].pc = "idle", ops' = ops,
         \A o \in Thread \ {p} : th'[o] = th[o], done' = done \cup {th[p].arg}
  PROVE  Arguments' /\ done' \subseteq Values
<1>1. th[p].arg = <<p, ops[p]>> /\ ops[p] \in 1..MaxOps
  BY RingsAreNumbers DEF IInv, Arguments, Shapes
<1>2. done' \subseteq Values
  BY <1>1 DEF IInv, Shapes, Values
<1>3. \A o \in Thread : th'[o].pc \in Enq => th[o].pc \in Enq /\ th'[o].arg = th[o].arg /\ o # p
  BY DEF Enq
<1>4. ASSUME NEW o \in Thread, NEW k \in 1..MaxOps, <<o, k>> \in done'
      PROVE  k <= ops[o] /\ (th'[o].pc \in Enq => k < ops[o])
  <2>1. CASE <<o, k>> \in done
    BY <1>3, <2>1 DEF IInv, Arguments
  <2>2. CASE <<o, k>> = <<p, ops[p]>>
    <3>1. o = p /\ k = ops[p]
      BY <2>2
    <3> QED BY <1>1, <1>3, <3>1
  <2> QED BY <1>1, <1>4, <2>1, <2>2
<1>5. \A o \in Thread : th'[o].pc \in Enq => th'[o].arg = <<o, ops[o]>> /\ ops[o] >= 1
  BY <1>3 DEF IInv, Arguments
<1> QED BY <1>2, <1>4, <1>5 DEF Arguments

(* An item is put into a cell: it was nowhere before.                      *)
LEMMA PutStep ==
  ASSUME IInv, NEW p \in Thread, Put(p)
  PROVE  IInv'
<1>1. th[p].pc = "put" /\ UNCHANGED <<used, head, tail, ops, taken, prec>>
  BY DEF Put
<1>2. /\ th[p] \in Locals /\ th[p].rq \in Live /\ th[p].rq \in Ring /\ th[p].n \in Nat
      /\ Slot(p) \in Cells /\ Cell(p) \in CellRec
  BY <1>1, Here DEF NoRing
<1>3. CASE Go(p, "full", th[p]) /\ UNCHANGED <<ring, done>>
  BY <1>1, <1>2, <1>3, SameRings, GoStep DEF Pcs, NoRing, Enq, hist
<1>4. ASSUME SetCell(p, [val |-> th[p].arg, idx |-> th[p].n, unsafe |-> FALSE]),
             done' = done \cup {th[p].arg}, Return(p)
      PROVE  IInv'
  <2> DEFINE x == [val |-> th[p].arg, idx |-> th[p].n, unsafe |-> FALSE]
             v == th[p].arg
             k == th[p].rq
             s == Slot(p)
  <2>1. /\ v \in Values /\ v \notin Enqueued /\ v \notin ToSet(taken)
        /\ \A q \in Live, c \in Cells : ring[q].array[c].val = v => ring[q].array[c].val = Empty
    BY <1>1, FreshArgument DEF Enq
  <2>2. x \in CellRec /\ x.idx % RING_SIZE = s /\ x.val = v
    BY <1>2, <2>1 DEF CellRec, Slot
  <2>3. /\ ring' \in [Ring -> RingRec] /\ Congruent'
        /\ \A q \in Ring : ring'[q].next = ring[q].next
        /\ ring'[k].array[s] = x
        /\ \A q \in Ring, c \in Cells : q # k \/ c # s => ring'[q].array[c] = ring[q].array[c]
    <3> HIDE DEF x
    <3>1. th[p].pc \notin NoRing /\ SetCell(p, x)
      BY <1>1, <1>4 DEF NoRing, x
    <3> QED BY <2>2, <3>1, CellSet
  <2>4. /\ th' \in [Thread -> Locals] /\ \A o \in Thread \ {p} : th'[o] = th[o]
        /\ th'[p].pc = "idle" /\ th'[p].nrq = th[p].nrq
    BY <1>4, ReturnTyped DEF IInv, Shapes
  <2>5. Moves(p) /\ Aims(p)
    BY <1>1, <2>4 DEF Moves, Aims, NoRing
  <2>6. Live' = Live /\ Spares'
    BY <1>1, <2>5, LiveKept DEF IInv
  <2>7. Pointers'
    BY <1>1, <2>3, <2>5, <2>6, PointersKept DEF IInv, Pointers
  <2>8. Arguments' /\ done' \subseteq Values
    BY <1>1, <1>4, <2>4, ArgumentDone DEF Enq
  <2>9. Enqueued' = Enqueued \cup {v}
    <3>1. \A o \in Thread : th'[o].pc = "publish" => th[o].pc = "publish" /\ th'[o] = th[o]
      BY <2>4
    <3>2. \A o \in Thread : th[o].pc = "publish" => th'[o].pc = "publish" /\ th'[o] = th[o]
      BY <1>1, <2>4
    <3> QED BY <1>4, <3>1, <3>2 DEF Enqueued
  <2>10. Live \subseteq Ring
    BY RingsAreNumbers DEF Live, IInv, Shapes
  <2>11. \A q \in Live, c \in Cells : ring'[q].array[c].val # Empty =>
           \/ q = k /\ c = s /\ ring'[q].array[c].val = v
           \/ ~(q = k /\ c = s) /\ ring'[q].array[c].val = ring[q].array[c].val
              /\ ring[q].array[c].val # v
    <3> HIDE DEF k, s, v, x
    <3> QED BY <2>1, <2>2, <2>3, <2>10
  <2> HIDE DEF k, s, v, x
  <2>12. OneCell'
    <3>1. ASSUME NEW q \in Live, NEW r \in Live, NEW c \in Cells, NEW d \in Cells,
                 ring'[q].array[c].val # Empty, ring'[q].array[c].val = ring'[r].array[d].val
          PROVE  q = r /\ c = d
      <4>1. ring'[r].array[d].val # Empty
        BY <3>1
      <4>2. CASE q = k /\ c = s
        BY <2>11, <3>1, <4>1, <4>2
      <4>3. CASE ~(q = k /\ c = s)
        <5>1. ring'[q].array[c].val = ring[q].array[c].val /\ ring[q].array[c].val # v
          BY <2>11, <3>1, <4>3
        <5>2. ~(r = k /\ d = s) /\ ring'[r].array[d].val = ring[r].array[d].val
          BY <2>11, <3>1, <4>1, <5>1
        <5>3. ring[q].array[c].val # Empty /\ ring[q].array[c].val = ring[r].array[d].val
          BY <3>1, <5>1, <5>2
        <5> QED BY <5>3 DEF IInv, OneCell
      <4> QED BY <4>2, <4>3
    <3> QED BY <2>6, <3>1 DEF OneCell
  <2>13. CellsHold'
    <3>1. ToSet(taken)' = ToSet(taken)
      BY <1>1 DEF ToSet
    <3>2. ASSUME NEW q \in Live, NEW c \in Cells, ring'[q].array[c].val # Empty
          PROVE  ring'[q].array[c].val \notin ToSet(taken) /\ ring'[q].array[c].val \in Enqueued'
      BY <2>1, <2>9, <2>11, <3>2 DEF IInv, CellsHold
    <3> QED BY <2>6, <3>1, <3>2 DEF CellsHold
  <2>14. TakenDiffer' /\ TakenEnqueued'
    BY <1>1, <2>9 DEF IInv, TakenDiffer, TakenEnqueued, ToSet
  <2>15. Found'
    BY <2>4 DEF IInv, Found
  <2>16. Shapes'
    BY <1>1, <2>3, <2>4, <2>8 DEF IInv, Shapes
  <2> QED BY <2>3, <2>6, <2>7, <2>8, <2>12, <2>13, <2>14, <2>15, <2>16 DEF IInv
<1> QED BY <1>3, <1>4 DEF Put

(* What appending does to the values and the places of a sequence.         *)
LEMMA Appended ==
  ASSUME NEW S, NEW s \in Seq(S), NEW v \in S
  PROVE  /\ Append(s, v) \in Seq(S) /\ ToSet(Append(s, v)) = ToSet(s) \cup {v}
         /\ Len(Append(s, v)) = Len(s) + 1 /\ Len(s) \in Nat
         /\ Append(s, v)[Len(s) + 1] = v
         /\ \A i \in 1..Len(s) : Append(s, v)[i] = s[i]
<1>1. /\ Append(s, v) \in Seq(S) /\ Len(Append(s, v)) = Len(s) + 1 /\ Len(s) \in Nat
      /\ Append(s, v)[Len(s) + 1] = v
      /\ \A i \in 1..Len(s) : Append(s, v)[i] = s[i]
  OBVIOUS
<1>2. DOMAIN Append(s, v) = 1..Len(s) + 1 /\ DOMAIN s = 1..Len(s)
  BY <1>1
<1>3. 1..Len(s) + 1 = (1..Len(s)) \cup {Len(s) + 1}
  BY <1>1
<1> QED BY <1>1, <1>2, <1>3 DEF ToSet

(* An item is taken: it leaves its one cell for the end of taken.          *)
LEMMA TakeStep ==
  ASSUME IInv, NEW p \in Thread, Take(p)
  PROVE  IInv'
<1>1. th[p].pc = "take" /\ UNCHANGED <<used, head, tail, ops, done, prec>>
  BY DEF Take
<1>2. /\ th[p] \in Locals /\ th[p].rq \in Live /\ th[p].rq \in Ring /\ th[p].n \in Nat
      /\ Slot(p) \in Cells /\ Cell(p) \in CellRec
  BY <1>1, Here DEF NoRing
<1>3. CASE Go(p, "didx", th[p]) /\ UNCHANGED <<ring, taken>>
  BY <1>1, <1>2, <1>3, SameRings, GoStep DEF Pcs, NoRing, Enq, hist
<1>4. ASSUME Unmoved(p), taken' = Append(taken, th[p].val), Return(p),
             SetCell(p, [val |-> Empty, idx |-> th[p].n + RING_SIZE, unsafe |-> th[p].unsafe])
      PROVE  IInv'
  <2> DEFINE x == [val |-> Empty, idx |-> th[p].n + RING_SIZE, unsafe |-> th[p].unsafe]
             v == th[p].val
             k == th[p].rq
             s == Slot(p)
  <2>1. /\ ring[k].array[s].val = v /\ v # Empty /\ v \in Values
        /\ v \notin ToSet(taken) /\ v \in Enqueued
    <3>1. ring[k].array[s].val = v
      BY <1>4 DEF Unmoved, Cell
    <3>2. v # Empty
      BY <1>1 DEF IInv, Found
    <3>3. v \in {Empty} \cup Values
      BY <1>2 DEF Locals
    <3>4. v \notin ToSet(taken) /\ v \in Enqueued
      <4> HIDE DEF v
      <4> QED BY <1>2, <3>1, <3>2 DEF IInv, CellsHold
    <3> QED BY <3>1, <3>2, <3>3, <3>4
  <2>2. x \in CellRec /\ x.idx % RING_SIZE = s /\ x.val = Empty
    <3>1. (th[p].n + RING_SIZE) % RING_SIZE = Slot(p)
      BY <1>2, RingsAreNumbers, NextRound DEF Slot
    <3>2. th[p].n + RING_SIZE \in Nat /\ (th[p].n + RING_SIZE) % RING_SIZE = s
      BY <1>2, <3>1, RingsAreNumbers
    <3>3. th[p].unsafe \in BOOLEAN
      BY <1>2 DEF Locals
    <3> HIDE DEF s
    <3> QED BY <3>2, <3>3 DEF CellRec
  <2>3. /\ ring' \in [Ring -> RingRec] /\ Congruent'
        /\ \A q \in Ring : ring'[q].next = ring[q].next
        /\ ring'[k].array[s] = x
        /\ \A q \in Ring, c \in Cells : q # k \/ c # s => ring'[q].array[c] = ring[q].array[c]
    <3> HIDE DEF x
    <3>1. th[p].pc \notin NoRing /\ SetCell(p, x)
      BY <1>1, <1>4 DEF NoRing, x
    <3> QED BY <2>2, <3>1, CellSet
  <2>4. /\ th' \in [Thread -> Locals] /\ \A o \in Thread \ {p} : th'[o] = th[o]
        /\ th'[p].pc = "idle" /\ th'[p].nrq = th[p].nrq
    BY <1>4, ReturnTyped DEF IInv, Shapes
  <2>5. Moves(p) /\ Aims(p) /\ SameCall(p)
    BY <1>1, <2>4 DEF Moves, Aims, NoRing, SameCall, Enq
  <2>6. Live' = Live /\ Spares' /\ Enqueued' = Enqueued
    BY <1>1, <2>5, LiveKept, EnqueuedKept DEF IInv
  <2>7. Pointers'
    BY <1>1, <2>3, <2>5, <2>6, PointersKept DEF IInv, Pointers
  <2>8. Arguments'
    BY <1>1, <2>5, ArgumentsKept DEF IInv
  <2>9. Live \subseteq Ring
    BY RingsAreNumbers DEF Live, IInv, Shapes
  <2>10. k \in Live /\ s \in Cells
    BY <1>2
  <2>11. \A q \in Live, c \in Cells : ring'[q].array[c].val # Empty =>
           /\ ~(q = k /\ c = s)
           /\ ring'[q].array[c].val = ring[q].array[c].val
    <3> HIDE DEF k, s, x
    <3> QED BY <2>2, <2>3, <2>9
  <2>12. /\ taken' \in Seq(Values) /\ ToSet(taken)' = ToSet(taken) \cup {v}
         /\ Len(taken') = Len(taken) + 1 /\ Len(taken) \in Nat
         /\ taken'[Len(taken) + 1] = v
         /\ \A i \in 1..Len(taken) : taken'[i] = taken[i]
    <3> HIDE DEF v
    <3>1. taken \in Seq(Values) /\ taken' = Append(taken, v)
      BY <1>4 DEF IInv, Shapes, v
    <3>2. ToSet(taken)' = ToSet(taken')
      BY DEF ToSet
    <3> QED BY <2>1, <3>1, <3>2, Appended
  <2> HIDE DEF k, s, v, x
  <2>13. OneCell'
    <3>1. ASSUME NEW q \in Live, NEW r \in Live, NEW c \in Cells, NEW d \in Cells,
                 ring'[q].array[c].val # Empty, ring'[q].array[c].val = ring'[r].array[d].val
          PROVE  q = r /\ c = d
      <4>1. ring'[r].array[d].val # Empty
        BY <3>1
      <4>2. ring[q].array[c].val # Empty /\ ring[q].array[c].val = ring[r].array[d].val
        BY <2>11, <3>1, <4>1
      <4> QED BY <4>2 DEF IInv, OneCell
    <3> QED BY <2>6, <3>1 DEF OneCell
  <2>14. CellsHold'
    <3>1. ASSUME NEW q \in Live, NEW c \in Cells, ring'[q].array[c].val # Empty
          PROVE  ring'[q].array[c].val \notin ToSet(taken)' /\ ring'[q].array[c].val \in Enqueued
      <4>1. ~(q = k /\ c = s) /\ ring'[q].array[c].val = ring[q].array[c].val
            /\ ring[q].array[c].val # Empty
        BY <2>11, <3>1
      <4>2. ring[q].array[c].val # v
        BY <2>1, <2>10, <4>1 DEF IInv, OneCell
      <4>3. ring[q].array[c].val \notin ToSet(taken) /\ ring[q].array[c].val \in Enqueued
        BY <4>1 DEF IInv, CellsHold
      <4> QED BY <2>12, <4>1, <4>2, <4>3
    <3> QED BY <2>6, <3>1 DEF CellsHold
  <2>15. TakenDiffer'
    <3>1. \A i \in 1..Len(taken) : taken[i] \in ToSet(taken)
      BY DEF IInv, Shapes, ToSet
    <3>2. \A i \in 1..Len(taken) : taken[i] # v
      BY <2>1, <3>1
    <3>3. \A i, j \in 1..Len(taken) : taken[i] = taken[j] => i = j
      BY DEF IInv, TakenDiffer
    <3>4. ASSUME NEW i \in 1..Len(taken'), NEW j \in 1..Len(taken'), taken'[i] = taken'[j]
          PROVE  i = j
      <4>1. /\ i \in 1..Len(taken) \/ i = Len(taken) + 1
            /\ j \in 1..Len(taken) \/ j = Len(taken) + 1
        BY <2>12
      <4> QED BY <2>12, <3>2, <3>3, <3>4, <4>1
    <3> QED BY <3>4 DEF TakenDiffer
  <2>16. TakenEnqueued'
    BY <2>1, <2>6, <2>12 DEF IInv, TakenEnqueued
  <2>17. Found'
    BY <2>4 DEF IInv, Found
  <2>18. Shapes'
    BY <1>1, <2>3, <2>4, <2>12 DEF IInv, Shapes
  <2> QED BY <2>3, <2>6, <2>7, <2>8, <2>13, <2>14, <2>15, <2>16, <2>17, <2>18 DEF IInv
<1> QED BY <1>3, <1>4 DEF Take

(* A new ring is published.                                                *)
LEMMA PublishStep ==
  ASSUME IInv, NEW p \in Thread, Publish(p)
  PROVE  IInv'
<1>1. /\ th[p].pc = "publish" /\ done' = done \cup {th[p].arg}
      /\ UNCHANGED <<ring, used, head, ops, taken, prec>>
  BY DEF Publish
<1>2. /\ th' \in [Thread -> Locals] /\ \A o \in Thread \ {p} : th'[o] = th[o]
      /\ th'[p] = Idle
  BY IdleTyped DEF Publish, IInv, Shapes
<1>3. th'[p].pc = "idle" /\ th'[p].nrq = Null
  BY <1>2 DEF Idle
<1>4. Live' = Live
  <2>1. \A q \in 1..used : q # Null
    BY RingsAreNumbers DEF IInv, Shapes
  <2>2. ASSUME NEW q \in 1..used
        PROVE  (\A o \in Thread : th'[o].nrq = q => th'[o].pc = "publish")
               <=> (\A o \in Thread : th[o].nrq = q => th[o].pc = "publish")
    BY <1>1, <1>2, <1>3, <2>1
  <2> QED BY <1>1, <2>2 DEF Live
<1>5. Spares'
  <2>1. \A o \in Thread : th'[o].nrq # Null => o # p
    BY <1>3
  <2> QED BY <1>1, <1>2, <2>1 DEF IInv, Spares
<1>6. Pointers'
  <2>1. th[p].nrq \in Live /\ tail \in Live /\ head \in Live
    BY <1>1 DEF IInv, Pointers
  <2>2. head' \in Live /\ tail' \in Live
    BY <1>1, <2>1 DEF Publish
  <2> QED BY <1>1, <1>2, <1>3, <1>4, <2>2 DEF IInv, Pointers, NoRing
<1>7. Arguments' /\ done' \subseteq Values
  BY <1>1, <1>2, <1>3, ArgumentDone DEF Enq
<1>8. Enqueued' = Enqueued
  <2>1. \A o \in Thread : th'[o].pc = "publish" => th[o].pc = "publish" /\ th'[o] = th[o]
    BY <1>2, <1>3
  <2>2. \A o \in Thread : th[o].pc = "publish" /\ o # p => th'[o].pc = "publish" /\ th'[o] = th[o]
    BY <1>2
  <2> QED BY <1>1, <2>1, <2>2 DEF Enqueued
<1>9. OneCell' /\ CellsHold' /\ TakenDiffer' /\ TakenEnqueued'
  BY <1>1, <1>4, <1>8, PlacesKept
<1>10. Shapes' /\ Congruent' /\ Found'
  BY <1>1, <1>2, <1>3, <1>7 DEF IInv, Shapes, Congruent, Found
<1> QED BY <1>4, <1>5, <1>6, <1>7, <1>9, <1>10 DEF IInv

(* The locals of an enqueue that keeps a spare ring and starts over.       *)
LEMMA SpareKept ==
  ASSUME NEW g \in Locals, NEW m \in Ring
  PROVE  LET f == [Idle EXCEPT !.pc = "tail", !.arg = g.arg, !.nrq = m, !.tries = g.tries]
         IN  /\ f \in Locals /\ f.nrq = m /\ f.arg = g.arg /\ f.pc = "tail"
             /\ f.older = {} /\ f.seen = {}
<1>1. ASSUME NEW h \in Locals
      PROVE  [h EXCEPT !.pc = "tail"] \in Locals /\ [h EXCEPT !.pc = "tail"].pc = "tail"
  BY DEF Locals
<1>2. PICK f1 : f1 = [Idle EXCEPT !.pc = "tail"]
  OBVIOUS
<1>3. PICK f2 : f2 = [f1 EXCEPT !.arg = g.arg]
  OBVIOUS
<1>4. PICK f3 : f3 = [f2 EXCEPT !.nrq = m]
  OBVIOUS
<1>5. PICK f4 : f4 = [f3 EXCEPT !.tries = g.tries]
  OBVIOUS
<1>6. f1 \in Locals /\ f1.pc = "tail"
  BY <1>1, <1>2, IdleTyped
<1>7. f2 \in Locals /\ f2.pc = "tail" /\ f2.arg = g.arg
  BY <1>3, <1>6, TakenOver
<1>8. f3 \in Locals /\ f3.pc = "tail" /\ f3.arg = g.arg /\ f3.nrq = m
  BY <1>4, <1>7, SpareSet
<1>9. f4 \in Locals /\ f4.pc = "tail" /\ f4.arg = g.arg /\ f4.nrq = m
  BY <1>5, <1>8, TakenOver
<1>10. f4 = [Idle EXCEPT !.pc = "tail", !.arg = g.arg, !.nrq = m, !.tries = g.tries]
  BY <1>2, <1>3, <1>4, <1>5
<1>11. f4.older = {} /\ f4.seen = {}
  <2>1. Idle.older = {} /\ Idle.seen = {} /\ {"older", "seen"} \subseteq DOMAIN Idle
    BY DEF Idle
  <2>2. f1.older = {} /\ f1.seen = {} /\ {"older", "seen"} \subseteq DOMAIN f1
    BY <1>2, <2>1
  <2>3. f2.older = {} /\ f2.seen = {} /\ {"older", "seen"} \subseteq DOMAIN f2
    BY <1>3, <2>2
  <2>4. f3.older = {} /\ f3.seen = {} /\ {"older", "seen"} \subseteq DOMAIN f3
    BY <1>4, <2>3
  <2> QED BY <1>5, <2>4
<1> QED BY <1>9, <1>10, <1>11

(* A ring m with p's argument is linked behind p's ring, or kept as p's    *)
(* spare one.                                                              *)
Attaches(p, m) ==
  /\ th' \in [Thread -> Locals] /\ \A o \in Thread \ {p} : th'[o] = th[o]
  /\ th'[p].nrq = m /\ th'[p].arg = th[p].arg
  /\ th'[p].older \subseteq th[p].older /\ th'[p].seen \subseteq th[p].seen
  /\ IF ring[th[p].rq].next = Null
     THEN th'[p].pc = "publish" /\ th'[p].rq = th[p].rq
     ELSE th'[p].pc = "tail"
  /\ ring' \in [Ring -> RingRec]
  /\ ring'[m].head = 0 /\ ring'[m].tail = 1 /\ ring'[m].next = Null
  /\ \A c \in Cells : /\ ring'[m].array[c].idx = c
                     /\ ring'[m].array[c].val = IF c = 0 THEN th[p].arg ELSE Empty
  /\ \A q \in Ring : q # m =>
       /\ ring'[q].array = ring[q].array
       /\ ring'[q].head = ring[q].head /\ ring'[q].tail = ring[q].tail
       /\ ring'[q].next = IF q = th[p].rq /\ ring[th[p].rq].next = Null
                          THEN m ELSE ring[q].next
  /\ Live' = IF ring[th[p].rq].next = Null THEN Live \cup {m} ELSE Live
  /\ Enqueued' = IF ring[th[p].rq].next = Null THEN Enqueued \cup {th[p].arg} ELSE Enqueued

LEMMA LinkFields ==
  ASSUME IInv, NEW p \in Thread, Link(p)
  PROVE  /\ th[p].pc = "link" /\ th[p].rq \in Live /\ Live \subseteq Ring
         /\ th[p].arg \in Values /\ th[p].arg \notin Enqueued /\ th[p].arg \notin ToSet(taken)
         /\ UNCHANGED <<head, tail, ops, done, taken, prec>>
         /\ \E m \in Ring :
              /\ Attaches(p, m)
              /\ m \in 1..used' /\ m \notin Live /\ used' \in Ring /\ 1..used \subseteq 1..used'
              /\ \A o \in Thread \ {p} : th[o].nrq # m
<1> DEFINE m == IF th[p].nrq = Null THEN used + 1 ELSE th[p].nrq
           ok == ring[th[p].rq].next = Null
           cell == [val |-> th[p].arg, idx |-> 0, unsafe |-> FALSE]
           solo == [FreshRing EXCEPT !.tail = 1, !.array[0] = cell]
           v == th[p].arg
           k == th[p].rq
           e == IF ok THEN [th[p] EXCEPT !.pc = "publish", !.nrq = m]
                ELSE [Idle EXCEPT !.pc = "tail", !.arg = th[p].arg, !.nrq = m,
                                  !.tries = th[p].tries]
<1>1. /\ th[p].pc = "link" /\ m \in Ring /\ UNCHANGED <<head, tail, ops, done, taken, prec>>
      /\ used' = IF th[p].nrq = Null THEN m ELSE used
      /\ ring' = [q \in Ring |-> IF q = m THEN solo
                                 ELSE IF q = k /\ ok THEN [ring[q] EXCEPT !.next = m]
                                 ELSE ring[q]]
      /\ th' = [th EXCEPT ![p] = e]
  BY DEF Link, hist
<1>2. /\ th[p] \in Locals /\ k \in Live /\ k \in Ring /\ used \in Ring /\ used \in Nat
      /\ Live \subseteq Ring
  <2>1. th[p].pc \notin NoRing
    BY <1>1 DEF NoRing
  <2>2. th[p] \in Locals /\ k \in Live /\ k \in Ring
    BY <2>1, Here
  <2>3. used \in Ring /\ used \in Nat
    BY RingsAreNumbers DEF IInv, Shapes
  <2>4. Live \subseteq Ring
    BY RingsAreNumbers DEF IInv, Shapes, Live
  <2> QED BY <2>2, <2>3, <2>4
<1>3. /\ v \in Values /\ v \notin Enqueued /\ v \notin ToSet(taken)
      /\ \A q \in Live, c \in Cells : ring[q].array[c].val = v => ring[q].array[c].val = Empty
  BY <1>1, FreshArgument DEF Enq
<1>4. /\ e \in Locals /\ e.nrq = m /\ e.arg = v
      /\ ok => e.pc = "publish" /\ e.rq = k
      /\ ~ok => e.pc = "tail"
      /\ e.older \subseteq th[p].older /\ e.seen \subseteq th[p].seen
  <2>1. CASE ok
    <3>1. e = [th[p] EXCEPT !.pc = "publish", !.nrq = m]
      BY <2>1
    <3> HIDE DEF m, ok, e
    <3>2. e \in Locals /\ e.nrq = m /\ e.arg = v /\ e.pc = "publish" /\ e.rq = k
      BY <1>1, <1>2, <3>1, ZenonT(60) DEF Locals
    <3>3. {"older", "seen"} \subseteq DOMAIN th[p]
      BY <1>2 DEF Locals
    <3>4. e.older = th[p].older /\ e.seen = th[p].seen
      BY <3>1, <3>3
    <3> QED BY <2>1, <3>2, <3>4
  <2>2. CASE ~ok
    <3>1. e = [Idle EXCEPT !.pc = "tail", !.arg = th[p].arg, !.nrq = m, !.tries = th[p].tries]
      BY <2>2
    <3>2. m \in Ring
      BY <1>1
    <3> HIDE DEF m, ok, e
    <3> QED BY <1>2, <2>2, <3>1, <3>2, SpareKept
  <2> QED BY <2>1, <2>2
<1>5. /\ th' \in [Thread -> Locals] /\ th'[p] = e
      /\ \A o \in Thread \ {p} : th'[o] = th[o]
  <2> HIDE DEF e
  <2> QED BY <1>1, <1>4 DEF IInv, Shapes
<1>6. /\ m \in 1..used' /\ m \notin Live /\ used' \in Ring
      /\ \A q \in 1..used' : q # m => q \in 1..used
      /\ 1..used \subseteq 1..used'
      /\ \A o \in Thread \ {p} : th[o].nrq # m
      /\ th[p].nrq = m \/ th[p].nrq = Null
  <2>1. CASE th[p].nrq = Null
    <3>1. m = used + 1 /\ used' = used + 1
      BY <1>1, <2>1
    <3>2. \A o \in Thread : th[o].nrq # Null => th[o].nrq \in 1..used
      BY DEF IInv, Spares
    <3>3. m # Null
      BY <1>1, RingsAreNumbers
    <3>4. m \notin 1..used
      BY <1>2, <3>1
    <3> QED BY <1>1, <1>2, <2>1, <3>1, <3>2, <3>3, <3>4 DEF Live
  <2>2. CASE th[p].nrq # Null
    <3>1. m = th[p].nrq /\ used' = used
      BY <1>1, <2>2
    <3>2. m \in 1..used /\ \A o \in Thread : th[o].nrq = m => o = p
      BY <2>2, <3>1 DEF IInv, Spares
    <3>3. m \notin Live
      BY <1>1, <3>1 DEF Live
    <3> QED BY <1>2, <3>1, <3>2, <3>3
  <2> QED BY <2>1, <2>2
<1>7. cell \in CellRec /\ FreshCells \in [Cells -> CellRec] /\ 0 \in Cells
  <2>1. Cells \subseteq Nat /\ 0 \in Cells
    BY RingsAreNumbers DEF Cells
  <2> QED BY <1>3, <2>1 DEF CellRec, FreshCells
<1>8. /\ solo \in RingRec /\ solo.next = Null /\ solo.array = [FreshCells EXCEPT ![0] = cell]
      /\ solo.head = 0 /\ solo.tail = 1
  <2>1. solo = [head |-> 0, tail |-> 1, closed |-> FALSE, next |-> Null,
                array |-> [FreshCells EXCEPT ![0] = cell]]
    <3> HIDE DEF cell
    <3>1. FreshRing.array = FreshCells
      BY DEF FreshRing
    <3>2. solo = [FreshRing EXCEPT !.tail = 1, !.array = [FreshCells EXCEPT ![0] = cell]]
      BY <3>1 DEF FreshRing
    <3> HIDE DEF solo
    <3> QED BY <3>2 DEF FreshRing
  <2>2. [FreshCells EXCEPT ![0] = cell] \in [Cells -> CellRec]
    <3> HIDE DEF cell
    <3> QED BY <1>7
  <2>3. 0 \in 0..MaxIndex /\ 1 \in 0..MaxIndex
    BY RingsAreNumbers
  <2> HIDE DEF solo, cell
  <2> QED BY <2>1, <2>2, <2>3 DEF RingRec
<1>9. ASSUME NEW c \in Cells
      PROVE  solo.array[c].idx = c /\ solo.array[c].val = IF c = 0 THEN v ELSE Empty
  <2> HIDE DEF solo
  <2>1. CASE c = 0
    BY <1>7, <1>8, <2>1
  <2>2. CASE c # 0
    BY <1>7, <1>8, <2>2 DEF FreshCells
  <2> QED BY <2>1, <2>2
<1> HIDE DEF solo, cell, e, m
<1>10. /\ ring' \in [Ring -> RingRec] /\ ring'[m] = solo
       /\ \A q \in Ring : q # m =>
            /\ ring'[q].array = ring[q].array
            /\ ring'[q].head = ring[q].head /\ ring'[q].tail = ring[q].tail
            /\ ring'[q].next = IF q = k /\ ok THEN m ELSE ring[q].next
  <2>1. ring \in [Ring -> RingRec]
    BY DEF IInv, Shapes
  <2>2. ASSUME NEW q \in Ring
        PROVE  /\ [ring[q] EXCEPT !.next = m] \in RingRec
               /\ [ring[q] EXCEPT !.next = m].array = ring[q].array
               /\ [ring[q] EXCEPT !.next = m].head = ring[q].head
               /\ [ring[q] EXCEPT !.next = m].tail = ring[q].tail
               /\ [ring[q] EXCEPT !.next = m].next = m
    <3>1. ring[q] \in RingRec
      BY <2>1
    <3> QED BY <1>1, <3>1 DEF RingRec
  <2> HIDE DEF k, ok
  <2> QED BY <1>1, <1>8, <2>1, <2>2
<1>11. Live' = IF ok THEN Live \cup {m} ELSE Live
  <2>1. ASSUME NEW q \in 1..used', q # m
        PROVE  q \in Live' <=> q \in Live
    <3>1. q \in 1..used /\ q # Null
      BY <1>2, <1>6, <2>1, RingsAreNumbers
    <3>2. th'[p].nrq # q /\ th[p].nrq # q
      BY <1>4, <1>5, <1>6, <2>1, <3>1
    <3> QED BY <1>5, <2>1, <3>1, <3>2 DEF Live
  <2>2. m \in Live' <=> ok
    BY <1>4, <1>5, <1>6 DEF Live
  <2>3. Live' \subseteq 1..used' /\ Live \subseteq 1..used'
    BY <1>6 DEF Live
  <2> HIDE DEF ok
  <2>4. CASE ok
    <3>1. Live' = Live \cup {m}
      BY <1>6, <2>1, <2>2, <2>3, <2>4
    <3> QED BY <2>4, <3>1
  <2>5. CASE ~ok
    <3>1. m \notin Live' /\ m \notin Live
      BY <1>6, <2>2, <2>5
    <3>2. Live' \subseteq Live /\ Live \subseteq Live'
      BY <2>1, <2>3, <3>1
    <3>3. Live' = Live
      BY <3>2
    <3> QED BY <2>5, <3>3
  <2> QED BY <2>4, <2>5
<1>12. Enqueued' = IF ok THEN Enqueued \cup {v} ELSE Enqueued
  <2>1. \A o \in Thread \ {p} : th'[o] = th[o]
    BY <1>5
  <2>2. th[p].pc # "publish" /\ (th'[p].pc = "publish" <=> ok) /\ th'[p].arg = v /\ done' = done
    BY <1>1, <1>4, <1>5
  <2> HIDE DEF ok, v
  <2> QED BY <2>1, <2>2 DEF Enqueued
<1>13. Attaches(p, m)
  <2>1. th'[p].nrq = m /\ th'[p].arg = v
        /\ th'[p].older \subseteq th[p].older /\ th'[p].seen \subseteq th[p].seen
        /\ IF ok THEN th'[p].pc = "publish" /\ th'[p].rq = k ELSE th'[p].pc = "tail"
    <3> HIDE DEF ok, k, v
    <3> QED BY <1>4, <1>5
  <2>2. /\ ring'[m].head = 0 /\ ring'[m].tail = 1 /\ ring'[m].next = Null
        /\ \A c \in Cells : /\ ring'[m].array[c].idx = c
                           /\ ring'[m].array[c].val = IF c = 0 THEN v ELSE Empty
    BY <1>8, <1>9, <1>10
  <2> QED BY <1>5, <1>10, <1>11, <1>12, <2>1, <2>2 DEF Attaches
<1> HIDE DEF ok, k, v
<1>14. \E x \in Ring : /\ Attaches(p, x) /\ x \in 1..used' /\ x \notin Live /\ used' \in Ring
                       /\ 1..used \subseteq 1..used' /\ \A o \in Thread \ {p} : th[o].nrq # x
  BY <1>1, <1>6, <1>13
<1> QED BY <1>1, <1>2, <1>3, <1>14 DEF k, v

LEMMA LinkStep ==
  ASSUME IInv, NEW p \in Thread, Link(p)
  PROVE  IInv'
<1> DEFINE ok == ring[th[p].rq].next = Null
           v == th[p].arg
           k == th[p].rq
<1>1. PICK m \in Ring :
        /\ Attaches(p, m)
        /\ m \in 1..used' /\ m \notin Live /\ used' \in Ring /\ 1..used \subseteq 1..used'
        /\ \A o \in Thread \ {p} : th[o].nrq # m
  BY LinkFields
<1>2. /\ th[p].pc = "link" /\ k \in Live /\ Live \subseteq Ring
      /\ UNCHANGED <<head, tail, ops, done, taken, prec>>
  BY LinkFields
<1>3. /\ v \in Values /\ v \notin Enqueued /\ v \notin ToSet(taken)
      /\ \A q \in Live, c \in Cells : ring[q].array[c].val = v => ring[q].array[c].val = Empty
  BY <1>2, FreshArgument DEF Enq
<1>4. /\ th' \in [Thread -> Locals] /\ \A o \in Thread \ {p} : th'[o] = th[o]
      /\ th'[p].nrq = m /\ th'[p].arg = v
      /\ ok => th'[p].pc = "publish" /\ th'[p].rq = k
      /\ ~ok => th'[p].pc = "tail"
  BY <1>1 DEF Attaches
<1>5. /\ ring' \in [Ring -> RingRec] /\ ring'[m].next = Null
      /\ \A q \in Ring : q # m =>
           /\ ring'[q].array = ring[q].array
           /\ ring'[q].next = IF q = k /\ ok THEN m ELSE ring[q].next
  BY <1>1 DEF Attaches
<1>6. \A c \in Cells : /\ ring'[m].array[c].val # Empty => c = 0 /\ ring'[m].array[c].val = v
                       /\ ring'[m].array[c].idx % RING_SIZE = c
  <2>1. \A c \in Cells : c % RING_SIZE = c
    BY RingsAreNumbers DEF Cells
  <2> QED BY <1>1, <2>1 DEF Attaches
<1>7. Live' = IF ok THEN Live \cup {m} ELSE Live
  BY <1>1 DEF Attaches
<1>8. Enqueued' = IF ok THEN Enqueued \cup {v} ELSE Enqueued
  BY <1>1 DEF Attaches
<1>9. Live \subseteq Live' /\ (ok => m \in Live') /\ \A q \in Live : q # m
  <2> HIDE DEF ok
  <2> QED BY <1>1, <1>7
<1>10. Spares'
  <2>1. \A o \in Thread \ {p} : th[o].nrq # Null => th[o].nrq \in 1..used'
    BY <1>1 DEF IInv, Spares
  <2> QED BY <1>1, <1>4, <2>1 DEF IInv, Spares
<1>11. Pointers'
  <2>1. head' \in Live' /\ tail' \in Live'
    BY <1>2, <1>9 DEF IInv, Pointers
  <2>2. ASSUME NEW q \in Ring, ring'[q].next # Null
        PROVE  ring'[q].next \in Live'
    <3>1. q # m
      BY <1>5, <2>2
    <3>2. ring'[q].next = IF q = k /\ ok THEN m ELSE ring[q].next
      BY <1>5, <3>1
    <3> HIDE DEF k, ok
    <3> QED BY <1>9, <2>2, <3>2 DEF IInv, Pointers
  <2>3. ASSUME NEW o \in Thread
        PROVE  /\ th'[o].pc \notin NoRing => th'[o].rq \in Live'
               /\ th'[o].pc \in {"eswing", "dswing"} => th'[o].next \in Live'
               /\ th'[o].pc = "publish" => th'[o].nrq \in Live'
    <3>1. CASE o = p
      <4> HIDE DEF k, ok
      <4> QED BY <1>2, <1>4, <1>9, <3>1 DEF NoRing
    <3>2. CASE o # p
      BY <1>4, <1>9, <3>2 DEF IInv, Pointers
    <3> QED BY <3>1, <3>2
  <2> QED BY <2>1, <2>2, <2>3 DEF Pointers
<1>12. Arguments'
  <2>1. \A o \in Thread : th'[o].pc \in Enq => th[o].pc \in Enq /\ th'[o].arg = th[o].arg
    BY <1>2, <1>4 DEF Enq
  <2> QED BY <1>2, <2>1 DEF Arguments, IInv
<1>13. \A q \in Live, c \in Cells : ring'[q].array[c].val = ring[q].array[c].val
  BY <1>2, <1>5, <1>9
<1>14. Shapes' /\ Found'
  <2>1. \A o \in Thread : th'[o].pc = "take" => th'[o] = th[o]
    BY <1>4
  <2>2. Found'
    BY <2>1 DEF IInv, Found
  <2> QED BY <1>1, <1>2, <1>4, <1>5, <2>2 DEF IInv, Shapes
<1>15. Congruent'
  BY <1>5, <1>6 DEF IInv, Congruent
<1>16. OneCell' /\ CellsHold' /\ TakenDiffer' /\ TakenEnqueued'
  <2>1. CASE ~ok
    BY <1>2, <1>7, <1>8, <1>13, <2>1, PlacesKept
  <2>2. CASE ok
    <3>1. Live' = Live \cup {m} /\ Enqueued' = Enqueued \cup {v} /\ taken' = taken
      BY <1>2, <1>7, <1>8, <2>2
    <3>2. \A c \in Cells : ring'[m].array[c].val # Empty => c = 0 /\ ring'[m].array[c].val = v
      BY <1>6, <1>5
    <3> HIDE DEF v, k, ok
    <3>3. OneCell'
      <4>1. ASSUME NEW q \in Live', NEW r \in Live', NEW c \in Cells, NEW d \in Cells,
                   ring'[q].array[c].val # Empty, ring'[q].array[c].val = ring'[r].array[d].val
            PROVE  q = r /\ c = d
        <5>1. CASE q = m /\ r = m
          BY <3>2, <4>1, <5>1
        <5>2. CASE q = m /\ r \in Live
          BY <1>3, <1>13, <3>2, <4>1, <5>2
        <5>3. CASE q \in Live /\ r = m
          BY <1>3, <1>13, <3>2, <4>1, <5>3
        <5>4. CASE q \in Live /\ r \in Live
          <6>1. ring[q].array[c].val # Empty /\ ring[q].array[c].val = ring[r].array[d].val
            BY <1>13, <4>1, <5>4
          <6> QED BY <5>4, <6>1 DEF IInv, OneCell
        <5> QED BY <3>1, <5>1, <5>2, <5>3, <5>4
      <4> QED BY <4>1 DEF OneCell
    <3>4. CellsHold'
      <4>1. ToSet(taken)' = ToSet(taken)
        BY <3>1 DEF ToSet
      <4>2. ASSUME NEW q \in Live', NEW c \in Cells, ring'[q].array[c].val # Empty
            PROVE  ring'[q].array[c].val \notin ToSet(taken) /\ ring'[q].array[c].val \in Enqueued'
        <5>1. CASE q = m
          BY <1>3, <3>1, <3>2, <4>2, <5>1
        <5>2. CASE q \in Live
          BY <1>13, <3>1, <4>2, <5>2 DEF IInv, CellsHold
        <5> QED BY <3>1, <5>1, <5>2
      <4> QED BY <4>1, <4>2 DEF CellsHold
    <3>5. TakenDiffer' /\ TakenEnqueued'
      BY <3>1 DEF IInv, TakenDiffer, TakenEnqueued, ToSet
    <3> QED BY <3>3, <3>4, <3>5
  <2> QED BY <2>1, <2>2
<1> QED BY <1>10, <1>11, <1>12, <1>14, <1>15, <1>16 DEF IInv

-----------------------------------------------------------------------------
(* The invariant holds.                                                    *)

(* The start, with m cells of the first ring filled.                       *)
Starts(m) ==
  /\ m \in 0..RING_SIZE /\ (0..m-1) \subseteq Cells
  /\ ring \in [Ring -> RingRec] /\ ring[1].tail = m
  /\ \A q \in Ring : ring[q].next = Null /\ ring[q].head = 0
  /\ \A q \in Ring, c \in Cells : ring[q].array[c].idx = c
  /\ \A c \in Cells : ring[1].array[c].val = IF c < m THEN Filled(c) ELSE Empty
  /\ done = {Filled(i) : i \in 0..m-1}
  /\ prec = {<<Filled(ij[1]), Filled(ij[2])>> :
               ij \in {p \in (0..m-1) \X (0..m-1) : p[1] < p[2]}}
  /\ used = 1 /\ head = 1 /\ tail = 1 /\ th = [p \in Thread |-> Idle]
  /\ ops = [p \in Thread |-> 0] /\ taken = << >>
  /\ Live = {1}

LEMMA InitFields ==
  ASSUME Init
  PROVE  \E m : Starts(m)
<1>1. PICK m \in {0, RING_SIZE \div 2} :
        /\ ring = [q \in Ring |->
             IF q # 1 THEN FreshRing
             ELSE [FreshRing EXCEPT !.tail = m,
                     !.array = [c \in Cells |->
                       IF c < m THEN [FreshCells[c] EXCEPT !.val = Filled(c)]
                                ELSE FreshCells[c]]]]
        /\ done = {Filled(i) : i \in 0..m-1}
        /\ prec = {<<Filled(ij[1]), Filled(ij[2])>> :
                     ij \in {p \in (0..m-1) \X (0..m-1) : p[1] < p[2]}}
  BY DEF Init
<1>2. /\ used = 1 /\ head = 1 /\ tail = 1 /\ th = [p \in Thread |-> Idle]
      /\ ops = [p \in Thread |-> 0] /\ taken = << >>
  BY DEF Init
<1>3. m \in 0..RING_SIZE /\ m \in 0..MaxIndex
  <2>1. RING_SIZE \div 2 \in 0..RING_SIZE
    BY RingsAreNumbers
  <2> QED BY <2>1, RingsAreNumbers
<1>4. Cells \subseteq Nat /\ (0..m-1) \subseteq Cells
  BY <1>3, RingsAreNumbers DEF Cells
<1>5. \A i \in Cells : Filled(i) \in Values
  BY DEF Values
<1>7. FreshCells \in [Cells -> CellRec] /\ \A c \in Cells : FreshCells[c].val = Empty
                                                            /\ FreshCells[c].idx = c
  BY <1>4 DEF FreshCells, CellRec
<1> DEFINE cells == [c \in Cells |-> IF c < m THEN [FreshCells[c] EXCEPT !.val = Filled(c)]
                                              ELSE FreshCells[c]]
           one == [FreshRing EXCEPT !.tail = m, !.array = cells]
<1>8. ASSUME NEW c \in Cells
      PROVE  /\ cells[c] \in CellRec /\ cells[c].idx = c
             /\ cells[c].val = IF c < m THEN Filled(c) ELSE Empty
  <2>1. [FreshCells[c] EXCEPT !.val = Filled(c)] \in CellRec
        /\ [FreshCells[c] EXCEPT !.val = Filled(c)].idx = c
        /\ [FreshCells[c] EXCEPT !.val = Filled(c)].val = Filled(c)
    BY <1>5, <1>7 DEF CellRec
  <2> QED BY <1>7, <2>1
<1>9. cells \in [Cells -> CellRec]
  BY <1>8
<1> HIDE DEF cells
<1>10. /\ FreshRing \in RingRec /\ FreshRing.array = FreshCells /\ FreshRing.next = Null
       /\ FreshRing.head = 0
  BY <1>7, RingsAreNumbers DEF FreshRing, RingRec
<1>11. /\ one \in RingRec /\ one.array = cells /\ one.next = Null
       /\ one.head = 0 /\ one.tail = m
  BY <1>3, <1>9, <1>10 DEF RingRec
<1>12. ring \in [Ring -> RingRec] /\ ring = [q \in Ring |-> IF q # 1 THEN FreshRing ELSE one]
  <2>1. ring = [q \in Ring |-> IF q # 1 THEN FreshRing ELSE one]
    BY <1>1 DEF cells
  <2> HIDE DEF one
  <2> QED BY <1>10, <1>11, <2>1
<1> HIDE DEF one
<1>13. \A p \in Thread : th[p].nrq = Null /\ th[p].pc = "idle"
  BY <1>2 DEF Idle
<1>14. Live = {1}
  <2>1. 1 # Null /\ 1..used = {1}
    BY <1>2, RingsAreNumbers
  <2> QED BY <1>13, <2>1 DEF Live
<1>15. \A c \in Cells : ring[1].array[c].val = IF c < m THEN Filled(c) ELSE Empty
  BY <1>8, <1>11, <1>12, RingsAreNumbers
<1>16. \A q \in Ring, c \in Cells : ring[q].array[c].idx = c
  BY <1>7, <1>8, <1>10, <1>11, <1>12
<1>17. (\A q \in Ring : ring[q].next = Null /\ ring[q].head = 0) /\ ring[1].tail = m
  BY <1>10, <1>11, <1>12, RingsAreNumbers
<1> QED BY <1>1, <1>2, <1>3, <1>4, <1>12, <1>14, <1>15, <1>16, <1>17 DEF Starts

LEMMA InitIInv == Init => IInv
<1> SUFFICES ASSUME Init PROVE IInv
  OBVIOUS
<1>1. PICK m : Starts(m)
  BY InitFields
<1>2. /\ used = 1 /\ head = 1 /\ tail = 1 /\ th = [p \in Thread |-> Idle]
      /\ ops = [p \in Thread |-> 0] /\ taken = << >> /\ Live = {1}
  BY <1>1 DEF Starts
<1>3. m \in 0..RING_SIZE /\ (0..m-1) \subseteq Cells
  BY <1>1 DEF Starts
<1>4. /\ done = {Filled(i) : i \in 0..m-1}
      /\ prec = {<<Filled(ij[1]), Filled(ij[2])>> :
                   ij \in {p \in (0..m-1) \X (0..m-1) : p[1] < p[2]}}
  BY <1>1 DEF Starts
<1>5. (\A i \in Cells : Filled(i) \in Values) /\ \A i, j : Filled(i) = Filled(j) => i = j
  BY DEF Values, Filled
<1>6. \A c \in Cells : ring[1].array[c].val = IF c < m THEN Filled(c) ELSE Empty
  BY <1>1 DEF Starts
<1>7. Shapes
  <2>1. th \in [Thread -> Locals] /\ used \in Ring /\ ops \in [Thread -> 0..MaxOps]
    BY <1>2, IdleTyped, RingsAreNumbers
  <2>2. taken \in Seq(Values)
    BY <1>2
  <2>3. done \subseteq Values
    BY <1>3, <1>4, <1>5
  <2>4. prec \subseteq Values \X Values
    <3>1. \A x, y \in 0..m-1 : <<Filled(x), Filled(y)>> \in Values \X Values
      BY <1>3, <1>5
    <3> QED BY <1>4, <3>1
  <2>5. ring \in [Ring -> RingRec]
    BY <1>1 DEF Starts
  <2> QED BY <2>1, <2>2, <2>3, <2>4, <2>5 DEF Shapes
<1>8. Congruent
  <2>1. \A c \in Cells : c % RING_SIZE = c
    BY RingsAreNumbers DEF Cells
  <2> QED BY <1>1, <2>1 DEF Congruent, Starts
<1>9. \A p \in Thread : th[p].nrq = Null /\ th[p].pc = "idle"
  BY <1>2 DEF Idle
<1>10. Spares /\ Found
  BY <1>9 DEF Spares, Found
<1>11. Pointers
  BY <1>1, <1>2, <1>9 DEF Pointers, NoRing, Starts
<1>12. Arguments
  <2>1. \A p \in Thread, k \in 1..MaxOps : <<p, k>> \notin done
    BY <1>4, RingsAreNumbers DEF Filled
  <2> QED BY <1>9, <2>1 DEF Arguments, Enq
<1>13. OneCell
  BY <1>2, <1>5, <1>6 DEF OneCell
<1>14. ToSet(taken) = {}
  BY <1>2 DEF ToSet
<1>15. CellsHold
  <2>1. \A c \in Cells : c < m => Filled(c) \in done
    <3>1. \A c \in Cells : c < m => c \in 0..m-1
      BY <1>3, RingsAreNumbers DEF Cells
    <3> QED BY <1>4, <3>1
  <2> QED BY <1>2, <1>6, <1>14, <2>1 DEF CellsHold, Enqueued
<1>16. TakenDiffer /\ TakenEnqueued
  BY <1>2, <1>14 DEF TakenDiffer, TakenEnqueued
<1> QED BY <1>7, <1>8, <1>10, <1>11, <1>12, <1>13, <1>15, <1>16 DEF IInv

(* A step that changes nothing.                                            *)
LEMMA StutterIInv ==
  ASSUME IInv, UNCHANGED vars
  PROVE  IInv'
<1>1. Live' = Live /\ Enqueued' = Enqueued
  BY DEF vars, Live, Enqueued
<1>2. OneCell' /\ CellsHold' /\ TakenDiffer' /\ TakenEnqueued'
  BY <1>1, PlacesKept DEF vars
<1>3. Shapes' /\ Congruent' /\ Found' /\ Spares' /\ Arguments'
  BY DEF IInv, vars, Shapes, Congruent, Found, Spares, Arguments
<1>4. Pointers'
  BY <1>1 DEF IInv, vars, Pointers
<1> QED BY <1>2, <1>3, <1>4 DEF IInv

(* Every step of every thread keeps it.                                    *)
LEMMA NextIInv == IInv /\ [Next]_vars => IInv'
<1> SUFFICES ASSUME IInv, [Next]_vars PROVE IInv'
  OBVIOUS
<1>1. CASE UNCHANGED vars
  BY <1>1, StutterIInv
<1>2. CASE Terminated
  BY <1>2, StutterIInv DEF Terminated
<1>3. ASSUME NEW p \in Thread, Enqueue(p)
      PROVE  IInv'
  BY <1>3, BeginEnqueueStep, PointerReads, NextReads, Swings, Tickets, CellReads, EndChecks,
     PutStep, CloseStep, LinkStep, PublishStep DEF Enqueue
<1>4. ASSUME NEW p \in Thread, Dequeue(p)
      PROVE  IInv'
  BY <1>4, BeginDequeueStep, PointerReads, Tickets, CellReads, TakeStep, CellMarks, WaitStep,
     EndChecks, FixSteps, ReturnEmptyStep, NextReads, Swings DEF Dequeue
<1> QED BY <1>1, <1>2, <1>3, <1>4 DEF Next

(* The inductive invariant, of every reachable state.                      *)
LEMMA InvariantHolds == Spec => []IInv
BY InitIInv, NextIInv, PTL DEF Spec

(* Every variable keeps its shape, the indices of a cell stay congruent to *)
(* its place, and every pointer leads to an allocated ring.                *)
THEOREM TypeCorrect == Spec => []TypeOK
<1>1. IInv => TypeOK
  <2> SUFFICES ASSUME IInv PROVE TypeOK
    OBVIOUS
  <2>1. used \in Ring /\ head \in 1..used /\ tail \in 1..used
    BY DEF IInv, Shapes, Pointers, Live
  <2>2. \A p \in Thread : th[p] \in Locals
    BY DEF IInv, Shapes
  <2>3. /\ ops \in [Thread -> 0..MaxOps]
        /\ done \subseteq Values /\ ToSet(taken) \subseteq Values /\ prec \subseteq Values \X Values
    BY DEF IInv, Shapes, ToSet
  <2>4. ASSUME NEW q \in Ring
        PROVE  /\ ring[q].head \in 0..MaxIndex /\ ring[q].tail \in 0..MaxIndex
               /\ ring[q].closed \in BOOLEAN /\ ring[q].next \in {Null} \cup 1..used
               /\ \A c \in Cells : /\ ring[q].array[c].val \in {Empty} \cup Values
                                   /\ ring[q].array[c].unsafe \in BOOLEAN
                                   /\ ring[q].array[c].idx % RING_SIZE = c
    <3>1. ring[q] \in RingRec
      BY DEF IInv, Shapes
    <3>2. ring[q].next \in {Null} \cup 1..used
      BY DEF IInv, Pointers, Live
    <3>3. /\ ring[q].head \in 0..MaxIndex /\ ring[q].tail \in 0..MaxIndex
          /\ ring[q].closed \in BOOLEAN /\ ring[q].array \in [Cells -> CellRec]
      BY <3>1 DEF RingRec
    <3>4. \A c \in Cells : /\ ring[q].array[c].val \in {Empty} \cup Values
                           /\ ring[q].array[c].unsafe \in BOOLEAN
      BY <3>3 DEF CellRec
    <3> QED BY <3>2, <3>3, <3>4 DEF IInv, Congruent
  <2> QED BY <2>1, <2>2, <2>3, <2>4 DEF TypeOK
<1> QED BY <1>1, InvariantHolds, PTL

(* A sequence without repetitions has as many values as places.            *)
LEMMA WithoutRepetition ==
  ASSUME NEW S, NEW s \in Seq(S), \A i, j \in 1..Len(s) : s[i] = s[j] => i = j
  PROVE  Cardinality(ToSet(s)) = Len(s)
<1>1. Len(s) \in Nat /\ DOMAIN s = 1..Len(s) /\ s \in [1..Len(s) -> ToSet(s)]
  BY DEF ToSet
<1>2. s \in Bijection(1..Len(s), ToSet(s))
  BY <1>1 DEF Bijection, Injection, Surjection, IsInjective, ToSet
<1>3. ExistsBijection(1..Len(s), ToSet(s))
  BY <1>2 DEF ExistsBijection
<1> QED BY <1>1, <1>3, FS_CountingElements

(* No value is dequeued twice, and each comes from an enqueue that began,  *)
(* for any number of threads, rings and cells: two dequeuers never take    *)
(* the same item, and a value whose ring lost the race to be linked (lines *)
(* 272-279) is never taken from the spare ring.                            *)
THEOREM NothingIsTakenTwice == Spec => []TakenOnce
<1>1. IInv => TakenOnce
  <2> SUFFICES ASSUME IInv PROVE TakenOnce
    OBVIOUS
  <2>1. Cardinality(ToSet(taken)) = Len(taken)
    BY WithoutRepetition DEF IInv, Shapes, TakenDiffer
  <2>2. \A v \in ToSet(taken) : v \in done \/ \E p \in Thread : th[p].arg = v
    BY DEF IInv, TakenEnqueued, Enqueued
  <2> QED BY <2>1, <2>2 DEF TakenOnce
<1> QED BY <1>1, InvariantHolds, PTL

-----------------------------------------------------------------------------
(* The second invariant: what the tickets, the indices and the unsafe bit  *)
(* are for.  A ticket that the dequeuers are done with leaves its mark on  *)
(* the cell, so that nobody puts an item under it any more.                *)

Hunting == {"didx", "dval", "take", "mark", "wait", "advance"}
Asking  == {"eval", "safe", "put"}
Reading == Asking \cup (Hunting \ {"didx"})

Hunted(q, k) == \E p \in Thread : Hunts(p, q, k)

(* What the locals t of a thread know of its cell x: how far it decided    *)
(* from what it read, that the index of a cell never goes back, and that a *)
(* cell that is empty under the same index was not touched in between.     *)
Sound(t, x) ==
  /\ t.pc \in {"safe", "put"} => t.val = Empty /\ t.idx <= t.n
  /\ t.pc = "take" => t.val # Empty /\ t.idx = t.n
  /\ t.pc = "mark" => t.val # Empty /\ t.idx < t.n
  /\ t.pc \in {"wait", "advance"} => t.val = Empty /\ t.idx <= t.n
  /\ t.pc \in Reading => t.idx <= x.idx
  /\ t.pc \in Asking /\ x.idx = t.idx /\ x.val = Empty => x.unsafe = t.unsafe

Sounds == \A p \in Thread : Sound(th[p], Cell(p))

(* As long as p's compare-and-swap can succeed, no dequeuer is done with   *)
(* p's ticket or a later one of the same cell.                             *)
Free(p) == th[p].pc = "put" /\ Cell(p).idx = th[p].idx /\ Cell(p).val = Empty

Clear ==
  \A p \in Thread : Free(p) =>
    \A k \in th[p].n .. ring[th[p].rq].head - 1 : k % RING_SIZE = Slot(p) => Hunted(th[p].rq, k)

(* A ticket that was drawn is held, or its cell has moved on or is unsafe. *)
Passed ==
  \A q \in Live : \A k \in 0..ring[q].head - 1 :
    LET x == ring[q].array[k % RING_SIZE] IN Hunted(q, k) \/ x.idx > k \/ x.unsafe

(* The ticket of an item is held, or not drawn yet.                        *)
Ahead ==
  \A q \in Live, c \in Cells :
    LET x == ring[q].array[c] IN
      x.val # Empty => x.idx >= ring[q].head \/ Hunted(q, x.idx)

(* What was enqueued is taken, or in a live ring.                          *)
Stored ==
  \A v \in Enqueued \ ToSet(taken) : \E q \in Live, c \in Cells : ring[q].array[c].val = v

(* The live rings are one chain: all of them lead to its end.              *)
Chain ==
  /\ \A q, r \in Live : ring[q].next = Null => q \in Onward(r)
  /\ \A q \in Ring \ Live : ring[q].next = Null

TInv == Sounds /\ Clear /\ Passed /\ Ahead /\ Stored /\ Chain

-----------------------------------------------------------------------------
(* The third invariant: a dequeuer that found its ring used up is right.   *)

Fixing == {"fix", "fixh", "fixt", "fixcas", "dnext"}
Drawn  == Hunting \cup Fixing \cup {"check"}
Issued == Asking \cup {"eidx"}

(* The ticket of every item was handed out.                                *)
Below ==
  \A q \in Live, c \in Cells :
    ring[q].array[c].val # Empty => ring[q].array[c].idx < ring[q].tail

(* So was the ticket that p uses.                                          *)
Ticketed(p) ==
  /\ th[p].pc \in Drawn => th[p].n < ring[th[p].rq].head
  /\ th[p].pc \in Issued => th[p].n < ring[th[p].rq].tail
  /\ th[p].pc = "fixcas" => th[p].fixt < th[p].tt

(* What a dequeue remembers of its beginning is still so.                  *)
Remembers(p) == th[p].seen \subseteq done /\ th[p].older \subseteq ToSet(taken)

(* A dequeuer that found the ring used up has passed every item of the     *)
(* ring that it had to see.                                                *)
UsedUp(p) ==
  th[p].pc \in Fixing =>
    \A c \in Cells : LET x == ring[th[p].rq].array[c] IN
      x.val \in th[p].seen => x.idx <= th[p].n

(* The global pointers are never behind the ring of p, and what p read as  *)
(* the next ring is that.                                                  *)
Led(p) ==
  /\ th[p].pc \notin NoRing \cup Enq => head \in Onward(th[p].rq)
  /\ th[p].pc \in Enq \ {"tail"} => tail \in Onward(th[p].rq)
  /\ th[p].pc \in {"eswing", "dswing"} => th[p].next = ring[th[p].rq].next
  /\ th[p].pc = "publish" => th[p].nrq = ring[th[p].rq].next

Fit(p) == Ticketed(p) /\ Remembers(p) /\ UsedUp(p) /\ Led(p)

EInv == Below /\ \A p \in Thread : Fit(p)

-----------------------------------------------------------------------------
(* The fourth invariant: an item is ahead of all that is enqueued later.   *)

(* The chain of rings has no cycle.                                        *)
OneWay == \A q, r \in Live : r \in Onward(q) /\ q \in Onward(r) => q = r

Earlier == \A a, b : <<a, b>> \in prec => a \in done

(* The global tail is not behind an item, but for the one in a ring that   *)
(* is linked and not published yet.                                        *)
TailAhead ==
  \A q \in Live, c \in Cells : LET x == ring[q].array[c] IN
    x.val # Empty =>
      \/ tail \in Onward(q)
      \/ \E p \in Thread : th[p].pc = "publish" /\ th[p].nrq = q /\ th[p].arg = x.val

(* An item is behind those that were enqueued before its enqueue began.    *)
InOrder ==
  \A q, r \in Live, c, d \in Cells :
    LET x == ring[q].array[c]
        y == ring[r].array[d]
    IN x.val # Empty /\ y.val # Empty /\ <<x.val, y.val>> \in prec =>
         r \in Onward(q) /\ (r = q => x.idx < y.idx)

(* When it is taken, the global head is past those that are still there,   *)
(* or they are under tickets that were drawn.                              *)
HeadAhead ==
  \A q \in Live, c \in Cells : \A b \in ToSet(taken) : LET x == ring[q].array[c] IN
    x.val # Empty /\ <<x.val, b>> \in prec =>
      head \in Onward(q) /\ (head = q => x.idx < ring[q].head)

(* An enqueuer stays behind the items that were there when it began.       *)
Follows(p) ==
  \A q \in Live, c \in Cells : LET x == ring[q].array[c] IN
    th[p].pc \in Enq \ {"tail", "publish"} /\ x.val # Empty /\ <<x.val, th[p].arg>> \in prec =>
      /\ th[p].rq \in Onward(q)
      /\ th[p].rq = q /\ th[p].pc \in Issued => x.idx < th[p].n

(* A dequeuer is past the items that are older than what was taken when it *)
(* began.                                                                  *)
Later(p) ==
  \A q \in Live, c \in Cells : \A b \in th[p].older : LET x == ring[q].array[c] IN
    th[p].pc \notin NoRing \cup Enq /\ x.val # Empty /\ <<x.val, b>> \in prec =>
      /\ th[p].rq \in Onward(q)
      /\ th[p].rq = q /\ th[p].pc = "dfaa" => x.idx < ring[q].head
      /\ th[p].rq = q /\ th[p].pc \in Hunting => x.idx < th[p].n

FInv == /\ OneWay /\ Earlier /\ TailAhead /\ InOrder /\ HeadAhead
        /\ \A p \in Thread : Follows(p) /\ Later(p)

-----------------------------------------------------------------------------
(* What the steps do to the locals of the thread that takes them.          *)

Alone(p) == th' \in [Thread -> Locals] /\ \A o \in Thread \ {p} : th'[o] = th[o]

(* The call, the ring and the ticket of t are those of u.                  *)
SameTurn(t, u) ==
  /\ t.arg = u.arg /\ t.rq = u.rq /\ t.nrq = u.nrq /\ t.n = u.n
  /\ t.older = u.older /\ t.seen = u.seen

(* So is what was read of the cell and of the next ring.                   *)
SameView(t, u) == t.idx = u.idx /\ t.unsafe = u.unsafe /\ t.val = u.val /\ t.next = u.next

(* The locals after a step, field by field.                                *)
LEMMA GoFields ==
  ASSUME th \in [Thread -> Locals], NEW p \in Thread, NEW l \in Pcs, NEW f \in Locals, Go(p, l, f)
  PROVE  /\ Alone(p) /\ th'[p].pc = l /\ SameTurn(th'[p], f) /\ SameView(th'[p], f)
         /\ th'[p].tt = f.tt /\ th'[p].fixt = f.fixt
<1>1. th' = [th EXCEPT ![p] = [f EXCEPT !.pc = l]]
  BY DEF Go
<1>2. [f EXCEPT !.pc = l] \in Locals
  BY DEF Locals, Pcs
<1>3. th'[p] = [f EXCEPT !.pc = l]
  BY <1>1
<1>4. Alone(p)
  BY <1>1, <1>2 DEF Alone
<1>5. f = [x \in DOMAIN f |-> f[x]] /\ "pc" \in DOMAIN f
      /\ {"arg", "rq", "nrq", "n", "older", "seen", "idx", "unsafe", "val", "next", "tt", "fixt"}
           \subseteq DOMAIN f
  BY DEF Locals
<1>6. th'[p].pc = l
  BY <1>3, <1>5
<1>7. SameTurn(th'[p], f)
  BY <1>3, <1>5 DEF SameTurn
<1>8. SameView(th'[p], f)
  BY <1>3, <1>5 DEF SameView
<1>9. th'[p].tt = f.tt /\ th'[p].fixt = f.fixt
  BY <1>3, <1>5
<1> QED BY <1>4, <1>6, <1>7, <1>8, <1>9

(* A step that only moves the program counter.                             *)
LEMMA StayFields ==
  ASSUME IInv, NEW p \in Thread, NEW l \in Pcs, Go(p, l, th[p])
  PROVE  /\ Alone(p) /\ th'[p].pc = l /\ SameTurn(th'[p], th[p]) /\ SameView(th'[p], th[p])
         /\ th'[p].tt = th[p].tt /\ th'[p].fixt = th[p].fixt
<1>1. th \in [Thread -> Locals] /\ th[p] \in Locals
  BY DEF IInv, Shapes
<1> QED BY <1>1, GoFields

(* The reads of the global pointers.                                       *)
LEMMA PointerFields ==
  ASSUME IInv, NEW p \in Thread, ReadTailPtr(p) \/ ReadHeadPtr(p)
  PROVE  /\ Alone(p) /\ th'[p].arg = th[p].arg /\ th'[p].older = th[p].older
         /\ th'[p].seen = th[p].seen /\ th'[p].nrq = th[p].nrq
         /\ ReadTailPtr(p) => th'[p].pc = "enext" /\ th'[p].rq = tail
         /\ ReadHeadPtr(p) => th'[p].pc = "dfaa" /\ th'[p].rq = head
<1>1. /\ th \in [Thread -> Locals] /\ th[p] \in Locals /\ head \in Live /\ tail \in Live
      /\ Live \subseteq Ring
  BY RingsAreNumbers DEF IInv, Shapes, Pointers, Live
<1>2. ASSUME NEW e \in Ring
      PROVE  LET f == [th[p] EXCEPT !.rq = e] IN
             /\ f \in Locals /\ f.rq = e /\ f.arg = th[p].arg /\ f.older = th[p].older
             /\ f.seen = th[p].seen /\ f.nrq = th[p].nrq
  BY <1>1 DEF Locals
<1>3. CASE ReadTailPtr(p)
  <2> DEFINE f == [th[p] EXCEPT !.rq = tail]
  <2>1. Go(p, "enext", f) /\ "enext" \in Pcs /\ th[p].pc = "tail"
    BY <1>3 DEF ReadTailPtr, Pcs
  <2>2. /\ f \in Locals /\ f.rq = tail /\ f.arg = th[p].arg /\ f.older = th[p].older
        /\ f.seen = th[p].seen /\ f.nrq = th[p].nrq
    BY <1>1, <1>2
  <2>3. ~ReadHeadPtr(p)
    BY <2>1 DEF ReadHeadPtr
  <2> HIDE DEF f
  <2> QED BY <1>1, <2>1, <2>2, <2>3, GoFields DEF SameTurn
<1>4. CASE ReadHeadPtr(p)
  <2> DEFINE f == [th[p] EXCEPT !.rq = head]
  <2>1. Go(p, "dfaa", f) /\ "dfaa" \in Pcs /\ th[p].pc = "head"
    BY <1>4 DEF ReadHeadPtr, Pcs
  <2>2. /\ f \in Locals /\ f.rq = head /\ f.arg = th[p].arg /\ f.older = th[p].older
        /\ f.seen = th[p].seen /\ f.nrq = th[p].nrq
    BY <1>1, <1>2
  <2>3. ~ReadTailPtr(p)
    BY <2>1 DEF ReadTailPtr
  <2> HIDE DEF f
  <2> QED BY <1>1, <2>1, <2>2, <2>3, GoFields DEF SameTurn
<1> QED BY <1>3, <1>4

(* The reads of a ring's next pointer.                                     *)
LEMMA NextFields ==
  ASSUME IInv, NEW p \in Thread, ReadNext(p) \/ ReadNextRing(p)
  PROVE  /\ Alone(p) /\ SameTurn(th'[p], th[p]) /\ th'[p].next = ring[th[p].rq].next
         /\ ReadNext(p) => th'[p].pc \in {"efaa", "eswing"}
         /\ ReadNextRing(p) => th'[p].pc = "dswing"
<1> DEFINE nx == ring[th[p].rq].next
           f  == [th[p] EXCEPT !.next = nx]
<1>1. th[p].pc \in {"enext", "dnext"} /\ th \in [Thread -> Locals]
  BY DEF ReadNext, ReadNextRing, IInv, Shapes
<1>2. th[p] \in Locals /\ nx \in {Null} \cup Ring
  BY <1>1, Here DEF NoRing, RingRec
<1>3. f \in Locals /\ SameTurn(f, th[p]) /\ f.next = nx
  <2> HIDE DEF nx
  <2> QED BY <1>2 DEF Locals, SameTurn
<1>4. CASE ReadNext(p)
  <2>1. PICK l \in {"efaa", "eswing"} : Go(p, l, f)
    BY <1>4 DEF ReadNext
  <2>2. l \in Pcs /\ ~ReadNextRing(p)
    BY <1>4 DEF Pcs, ReadNext, ReadNextRing
  <2> HIDE DEF f, nx
  <2>3. /\ Alone(p) /\ th'[p].pc = l /\ SameTurn(th'[p], f) /\ SameView(th'[p], f)
    BY <1>1, <1>3, <2>1, <2>2, GoFields
  <2> QED BY <1>3, <2>1, <2>2, <2>3 DEF SameTurn, SameView, nx
<1>5. CASE ReadNextRing(p)
  <2>1. Go(p, "dswing", f) /\ "dswing" \in Pcs /\ ~ReadNext(p)
    BY <1>5 DEF ReadNext, ReadNextRing, Pcs
  <2> HIDE DEF f, nx
  <2>2. /\ Alone(p) /\ th'[p].pc = "dswing" /\ SameTurn(th'[p], f) /\ SameView(th'[p], f)
    BY <1>1, <1>3, <2>1, GoFields
  <2> QED BY <1>3, <2>1, <2>2 DEF SameTurn, SameView, nx
<1> QED BY <1>4, <1>5

(* The next turn of an outer loop.                                         *)
LEMMA AgainFields ==
  ASSUME IInv, NEW p \in Thread, NEW l \in {"tail", "head"}, Again(p, l)
  PROVE  /\ Alone(p) /\ th'[p].pc = l /\ th'[p].arg = th[p].arg /\ th'[p].nrq = th[p].nrq
         /\ th'[p].older = th[p].older /\ th'[p].seen = th[p].seen
<1>1. PICK f : f = [Idle EXCEPT !.arg = th[p].arg, !.nrq = th[p].nrq, !.tries = th[p].tries,
                               !.older = th[p].older, !.seen = th[p].seen]
  OBVIOUS
<1>2. Go(p, l, f) /\ l \in Pcs /\ th \in [Thread -> Locals]
  BY <1>1 DEF Again, Pcs, IInv, Shapes
<1>3. f.older = th[p].older /\ f.seen = th[p].seen
  <2>1. {"older", "seen"} \subseteq DOMAIN Idle
    BY DEF Idle
  <2> QED BY <1>1, <2>1
<1>4. Alone(p) /\ th'[p].pc = l /\ th'[p].arg = th[p].arg /\ th'[p].nrq = th[p].nrq
  BY <1>2, AgainTyped DEF Alone
<1>5. th'[p] = [f EXCEPT !.pc = l]
  BY <1>2 DEF Go
<1>6. th'[p].older = f.older /\ th'[p].seen = f.seen
  <2>1. {"older", "seen", "pc"} \subseteq DOMAIN f
    BY <1>1 DEF Idle
  <2> QED BY <1>5, <2>1
<1> QED BY <1>3, <1>4, <1>6

(* A return.                                                               *)
LEMMA ReturnFields ==
  ASSUME IInv, NEW p \in Thread, Return(p)
  PROVE  /\ Alone(p) /\ th'[p].pc = "idle" /\ th'[p].nrq = th[p].nrq
         /\ th'[p].older = {} /\ th'[p].seen = {}
<1>1. Alone(p) /\ th'[p].pc = "idle" /\ th'[p].nrq = th[p].nrq /\ th \in [Thread -> Locals]
  BY ReturnTyped DEF Alone, IInv, Shapes
<1>2. th'[p] = [Idle EXCEPT !.nrq = th[p].nrq]
  BY <1>1 DEF Return
<1>3. Idle.older = {} /\ Idle.seen = {} /\ {"older", "seen", "nrq"} \subseteq DOMAIN Idle
  BY DEF Idle
<1> QED BY <1>1, <1>2, <1>3

(* The fetch-and-adds.                                                     *)
LEMMA TicketFields ==
  ASSUME IInv, NEW p \in Thread, TakeTicket(p) \/ DrawTicket(p)
  PROVE  LET k == th[p].rq IN
         /\ Alone(p) /\ th'[p].arg = th[p].arg /\ th'[p].rq = k /\ th'[p].nrq = th[p].nrq
         /\ th'[p].older = th[p].older /\ th'[p].seen = th[p].seen
         /\ k \in Live /\ ring' \in [Ring -> RingRec]
         /\ \A q \in Ring : ring'[q].array = ring[q].array /\ ring'[q].next = ring[q].next
         /\ \A q \in Ring : q # k => ring'[q] = ring[q]
         /\ TakeTicket(p) => /\ th'[p].pc \in {"link", "eidx"} /\ th'[p].n = ring[k].tail
                             /\ ring'[k].head = ring[k].head /\ ring'[k].tail = ring[k].tail + 1
         /\ DrawTicket(p) => /\ th'[p].pc = "didx" /\ th'[p].n = ring[k].head
                             /\ ring'[k].head = ring[k].head + 1 /\ ring'[k].tail = ring[k].tail
<1> DEFINE q == ring[th[p].rq]
<1>1. th[p].pc \in {"efaa", "dfaa"} /\ th \in [Thread -> Locals] /\ ring \in [Ring -> RingRec]
  BY DEF TakeTicket, DrawTicket, IInv, Shapes
<1>2. th[p] \in Locals /\ th[p].rq \in Live /\ th[p].rq \in Ring /\ q \in RingRec
  BY <1>1, Here DEF NoRing
<1>3. CASE TakeTicket(p)
  <2> DEFINE f == [th[p] EXCEPT !.n = q.tail]
             x == [q EXCEPT !.tail = @ + 1]
  <2>1. q.tail \in 0..MaxIndex - 1
    <3>1. q.tail < MaxIndex
      BY <1>3 DEF TakeTicket
    <3> HIDE DEF q
    <3>2. q.tail \in 0..MaxIndex
      BY <1>2 DEF RingRec
    <3> QED BY <3>1, <3>2, RingsAreNumbers
  <2>2. /\ f \in Locals /\ f.nrq = th[p].nrq /\ f.arg = th[p].arg /\ f.rq = th[p].rq
        /\ f.older = th[p].older /\ f.seen = th[p].seen /\ f.n = q.tail
    <3> HIDE DEF q
    <3> QED BY <1>2, <2>1 DEF Locals
  <2>3. /\ x \in RingRec /\ x.next = q.next /\ x.array = q.array /\ x.head = q.head
        /\ x.tail = q.tail + 1
    <3> HIDE DEF q
    <3>1. q.tail + 1 \in 0..MaxIndex
      BY <2>1, RingsAreNumbers
    <3> QED BY <1>2, <3>1 DEF RingRec
  <2>4. ring' = [ring EXCEPT ![th[p].rq] = x]
    BY <1>3 DEF TakeTicket
  <2>5. PICK l \in {"link", "eidx"} : Go(p, l, f)
    BY <1>3 DEF TakeTicket
  <2>6. l \in Pcs /\ ~DrawTicket(p)
    BY <1>3 DEF Pcs, TakeTicket, DrawTicket
  <2> HIDE DEF f, x
  <2>7. ring'[th[p].rq] = x /\ ring' \in [Ring -> RingRec]
        /\ \A r \in Ring : r # th[p].rq => ring'[r] = ring[r]
    BY <1>1, <1>2, <2>3, <2>4
  <2>8. Alone(p) /\ th'[p].pc = l /\ SameTurn(th'[p], f)
    BY <1>1, <2>2, <2>5, <2>6, GoFields
  <2>9. \A r \in Ring : ring'[r].array = ring[r].array /\ ring'[r].next = ring[r].next
    BY <2>3, <2>7
  <2>10. ring'[th[p].rq].head = q.head /\ ring'[th[p].rq].tail = q.tail + 1
    BY <2>3, <2>7
  <2> QED BY <1>2, <2>2, <2>5, <2>6, <2>7, <2>8, <2>9, <2>10 DEF SameTurn
<1>4. CASE DrawTicket(p)
  <2> DEFINE f == [th[p] EXCEPT !.n = q.head, !.r = 0]
             x == [q EXCEPT !.head = @ + 1]
  <2>1. q.head \in 0..MaxIndex - 1
    <3>1. q.head < MaxIndex
      BY <1>4 DEF DrawTicket
    <3> HIDE DEF q
    <3>2. q.head \in 0..MaxIndex
      BY <1>2 DEF RingRec
    <3> QED BY <3>1, <3>2, RingsAreNumbers
  <2>2. /\ f \in Locals /\ f.nrq = th[p].nrq /\ f.arg = th[p].arg /\ f.rq = th[p].rq
        /\ f.older = th[p].older /\ f.seen = th[p].seen /\ f.n = q.head
    <3> HIDE DEF q
    <3>1. 0 \in 0..Spins + 1
      BY RingsAreNumbers
    <3> QED BY <1>2, <2>1, <3>1, ZenonT(60) DEF Locals
  <2>3. /\ x \in RingRec /\ x.next = q.next /\ x.array = q.array /\ x.head = q.head + 1
        /\ x.tail = q.tail
    <3> HIDE DEF q
    <3>1. q.head + 1 \in 0..MaxIndex
      BY <2>1, RingsAreNumbers
    <3> QED BY <1>2, <3>1 DEF RingRec
  <2>4. ring' = [ring EXCEPT ![th[p].rq] = x]
    BY <1>4 DEF DrawTicket
  <2>5. Go(p, "didx", f) /\ "didx" \in Pcs /\ ~TakeTicket(p)
    BY <1>4 DEF DrawTicket, TakeTicket, Pcs
  <2> HIDE DEF f, x
  <2>6. ring'[th[p].rq] = x /\ ring' \in [Ring -> RingRec]
        /\ \A r \in Ring : r # th[p].rq => ring'[r] = ring[r]
    BY <1>1, <1>2, <2>3, <2>4
  <2>7. Alone(p) /\ th'[p].pc = "didx" /\ SameTurn(th'[p], f)
    BY <1>1, <2>2, <2>5, GoFields
  <2>8. \A r \in Ring : ring'[r].array = ring[r].array /\ ring'[r].next = ring[r].next
    BY <2>3, <2>6
  <2>9. ring'[th[p].rq].head = q.head + 1 /\ ring'[th[p].rq].tail = q.tail
    BY <2>3, <2>6
  <2> QED BY <1>2, <2>2, <2>5, <2>6, <2>7, <2>8, <2>9 DEF SameTurn
<1> QED BY <1>3, <1>4

(* The reads of a cell: its index with the unsafe bit, then its value, and *)
(* what the thread decides to do.                                          *)
LEMMA ReadIdxFields ==
  ASSUME IInv, NEW p \in Thread, ReadIdx(p)
  PROVE  /\ Alone(p) /\ SameTurn(th'[p], th[p])
         /\ th'[p].idx = Cell(p).idx /\ th'[p].unsafe = Cell(p).unsafe
         /\ th[p].pc = "eidx" => th'[p].pc = "eval"
         /\ th[p].pc = "didx" => th'[p].pc = "dval"
<1> DEFINE f == [th[p] EXCEPT !.idx = Cell(p).idx, !.unsafe = Cell(p).unsafe]
<1>1. th[p].pc \in {"eidx", "didx"} /\ th \in [Thread -> Locals]
  BY DEF ReadIdx, IInv, Shapes
<1>2. th[p] \in Locals /\ Cell(p) \in CellRec
  BY <1>1, Here DEF NoRing
<1>3. f \in Locals /\ SameTurn(f, th[p])
  BY <1>2, ZenonT(60) DEF Locals, CellRec, SameTurn
<1>4. f.idx = Cell(p).idx /\ f.unsafe = Cell(p).unsafe
  <2>1. {"idx", "unsafe"} \subseteq DOMAIN th[p]
    BY <1>2 DEF Locals
  <2> QED BY <2>1, Zenon
<1>5. PICK l \in {"eval", "dval"} :
        Go(p, l, f) /\ (th[p].pc = "eidx" => l = "eval") /\ (th[p].pc = "didx" => l = "dval")
  BY <1>1 DEF ReadIdx
<1> HIDE DEF f
<1>6. Alone(p) /\ th'[p].pc = l /\ SameTurn(th'[p], f) /\ SameView(th'[p], f)
  BY <1>1, <1>3, <1>5, GoFields DEF Pcs
<1> QED BY <1>3, <1>4, <1>5, <1>6 DEF SameTurn, SameView

LEMMA ReadValFields ==
  ASSUME IInv, NEW p \in Thread, Judge(p) \/ Examine(p)
  PROVE  /\ Alone(p) /\ SameTurn(th'[p], th[p])
         /\ th'[p].idx = th[p].idx /\ th'[p].unsafe = th[p].unsafe /\ th'[p].val = Cell(p).val
         /\ Judge(p) =>
              /\ th'[p].pc \in {"full", "safe", "put"}
              /\ th'[p].pc \in {"safe", "put"} => Cell(p).val = Empty /\ th[p].idx <= th[p].n
              /\ th'[p].pc = "put" => ~th[p].unsafe
         /\ Examine(p) =>
              /\ th'[p].pc \in {"check", "take", "mark", "wait"}
              /\ th'[p].pc = "check" => th[p].idx > th[p].n
              /\ th'[p].pc = "take" => Cell(p).val # Empty /\ th[p].idx = th[p].n
              /\ th'[p].pc = "mark" => Cell(p).val # Empty /\ th[p].idx < th[p].n
              /\ th'[p].pc = "wait" => Cell(p).val = Empty /\ th[p].idx <= th[p].n
<1> DEFINE f == [th[p] EXCEPT !.val = Cell(p).val]
<1>1. th[p].pc \in {"eval", "dval"} /\ th \in [Thread -> Locals]
  BY DEF Judge, Examine, IInv, Shapes
<1>2. th[p] \in Locals /\ Cell(p) \in CellRec /\ th[p].idx \in Nat /\ th[p].n \in Nat
  BY <1>1, Here DEF NoRing, Locals
<1>3. f \in Locals /\ SameTurn(f, th[p]) /\ f.val = Cell(p).val /\ f.idx = th[p].idx
  BY <1>2 DEF Locals, CellRec, SameTurn
<1>4. f.unsafe = th[p].unsafe
  <2>1. {"unsafe", "val"} \subseteq DOMAIN th[p]
    BY <1>2 DEF Locals
  <2> QED BY <2>1, Zenon
<1>5. CASE Judge(p)
  <2>1. PICK l \in {"full", "safe", "put"} :
          /\ Go(p, l, f)
          /\ l \in {"safe", "put"} => Cell(p).val = Empty /\ ~(th[p].idx > th[p].n)
          /\ l = "put" => ~th[p].unsafe
    <3> HIDE DEF f
    <3>1. Go(p, IF Cell(p).val # Empty \/ th[p].idx > th[p].n THEN "full"
                ELSE IF th[p].unsafe THEN "safe" ELSE "put", f)
      BY <1>5 DEF Judge, f
    <3>2. CASE Cell(p).val # Empty \/ th[p].idx > th[p].n
      BY <3>1, <3>2, Zenon
    <3>3. CASE ~(Cell(p).val # Empty \/ th[p].idx > th[p].n) /\ th[p].unsafe
      BY <3>1, <3>3, Zenon
    <3>4. CASE ~(Cell(p).val # Empty \/ th[p].idx > th[p].n) /\ ~th[p].unsafe
      BY <3>1, <3>4, Zenon
    <3> QED BY <3>2, <3>3, <3>4, Zenon
  <2>2. l \in Pcs /\ ~Examine(p)
    BY <1>5 DEF Pcs, Judge, Examine
  <2> HIDE DEF f
  <2>3. Alone(p) /\ th'[p].pc = l /\ SameTurn(th'[p], f) /\ SameView(th'[p], f)
    BY <1>1, <1>3, <2>1, <2>2, GoFields
  <2>4. th'[p].idx = th[p].idx /\ th'[p].unsafe = th[p].unsafe /\ th'[p].val = Cell(p).val
    BY <1>3, <1>4, <2>3, Zenon DEF SameView
  <2>5. SameTurn(th'[p], th[p])
    BY <1>3, <2>3 DEF SameTurn
  <2>6. ~(th[p].idx > th[p].n) => th[p].idx <= th[p].n
    BY <1>2
  <2> QED BY <2>1, <2>2, <2>3, <2>4, <2>5, <2>6, Zenon
<1>6. CASE Examine(p)
  <2>1. PICK l \in {"check", "take", "mark", "wait"} :
          /\ Go(p, l, f)
          /\ l = "check" => th[p].idx > th[p].n
          /\ l = "take" => Cell(p).val # Empty /\ th[p].idx = th[p].n
          /\ l = "mark" => Cell(p).val # Empty /\ th[p].idx < th[p].n
          /\ l = "wait" => Cell(p).val = Empty /\ th[p].idx <= th[p].n
    <3>1. th[p].idx > th[p].n \/ th[p].idx <= th[p].n
      BY <1>2
    <3>2. ~(th[p].idx > th[p].n /\ th[p].idx <= th[p].n)
      BY <1>2
    <3>3. th[p].idx <= th[p].n /\ th[p].idx # th[p].n => th[p].idx < th[p].n
      BY <1>2
    <3> QED BY <1>6, <3>1, <3>2, <3>3 DEF Examine
  <2>2. l \in Pcs /\ ~Judge(p)
    BY <1>6 DEF Pcs, Judge, Examine
  <2> HIDE DEF f
  <2>3. Alone(p) /\ th'[p].pc = l /\ SameTurn(th'[p], f) /\ SameView(th'[p], f)
    BY <1>1, <1>3, <2>1, <2>2, GoFields
  <2>4. th'[p].idx = th[p].idx /\ th'[p].unsafe = th[p].unsafe /\ th'[p].val = Cell(p).val
    BY <1>3, <1>4, <2>3, Zenon DEF SameView
  <2>5. SameTurn(th'[p], th[p])
    BY <1>3, <2>3 DEF SameTurn
  <2> QED BY <2>1, <2>2, <2>3, <2>4, <2>5, Zenon
<1> QED BY <1>5, <1>6

(* A turn spent waiting.                                                   *)
LEMMA WaitFields ==
  ASSUME IInv, NEW p \in Thread, Wait(p)
  PROVE  /\ Alone(p) /\ SameTurn(th'[p], th[p])
         /\ th'[p].pc \in {"advance", "didx"} /\ SameView(th'[p], th[p])
<1>1. th[p].pc = "wait" /\ th \in [Thread -> Locals]
  BY DEF Wait, IInv, Shapes
<1>2. th[p] \in Locals /\ ring[th[p].rq] \in RingRec
  BY <1>1, Here DEF NoRing
<1>3. PICK z \in [tt : 0..MaxIndex, ttc : BOOLEAN] :
        IF th[p].unsafe \/ PredLeq(z.tt, th[p].n) \/ th[p].r > Spins \/ z.ttc
        THEN Go(p, "advance", [th[p] EXCEPT !.tt = z.tt, !.ttc = z.ttc])
        ELSE Go(p, "didx", [[th[p] EXCEPT !.tt = z.tt, !.ttc = z.ttc] EXCEPT !.r = @ + 1])
  BY WaitReads
<1> DEFINE me == [th[p] EXCEPT !.tt = z.tt, !.ttc = z.ttc]
           f  == [me EXCEPT !.r = @ + 1]
<1>4. me \in Locals /\ me.r = th[p].r
  BY <1>2, TailNoted
<1>5. SameTurn(me, th[p]) /\ SameView(me, th[p])
  <2>1. DOMAIN th[p] = DOMAIN me /\ \A x \in DOMAIN th[p] : x \notin {"tt", "ttc"} => me[x] = th[p][x]
    BY <1>2 DEF Locals
  <2>2. {"arg", "rq", "nrq", "n", "older", "seen", "idx", "unsafe", "val", "next"} \subseteq DOMAIN th[p]
    BY <1>2 DEF Locals
  <2> HIDE DEF me
  <2> QED BY <2>1, <2>2, Zenon DEF SameTurn, SameView
<1>6. CASE Go(p, "advance", me)
  <2> HIDE DEF me
  <2> QED BY <1>1, <1>4, <1>5, <1>6, GoFields DEF Pcs, SameTurn, SameView
<1>7. CASE Go(p, "didx", f) /\ ~(th[p].r > Spins)
  <2>1. th[p].r + 1 \in 0..Spins + 1
    <3>1. th[p].r \in 0..Spins + 1
      BY <1>2 DEF Locals
    <3> HIDE DEF f, me
    <3> QED BY <1>7, <3>1, RingsAreNumbers
  <2>2. f \in Locals /\ SameTurn(f, me) /\ SameView(f, me)
    <3> HIDE DEF me
    <3>1. f \in Locals
      BY <1>4, <2>1 DEF Locals
    <3>2. DOMAIN f = DOMAIN me /\ \A x \in DOMAIN me : x # "r" => f[x] = me[x]
      BY <1>4 DEF Locals
    <3>3. {"arg", "rq", "nrq", "n", "older", "seen", "idx", "unsafe", "val", "next"} \subseteq DOMAIN me
      BY <1>4 DEF Locals
    <3> HIDE DEF f
    <3>4. SameTurn(f, me) /\ SameView(f, me)
      BY <3>2, <3>3, Zenon DEF SameTurn, SameView
    <3> QED BY <3>1, <3>4
  <2> HIDE DEF f, me
  <2>3. Alone(p) /\ th'[p].pc = "didx" /\ SameTurn(th'[p], f) /\ SameView(th'[p], f)
    BY <1>1, <1>7, <2>2, GoFields DEF Pcs
  <2>4. SameTurn(th'[p], th[p])
    BY <1>5, <2>2, <2>3, Zenon DEF SameTurn
  <2>5. SameView(th'[p], th[p])
    BY <1>5, <2>2, <2>3, Zenon DEF SameView
  <2> QED BY <2>3, <2>4, <2>5
<1> QED BY <1>3, <1>6, <1>7

-----------------------------------------------------------------------------
(* The calm steps: no cell, link or head of a ring changes.                *)

SameEnds == \A q \in Ring : ring'[q].array = ring[q].array /\ ring'[q].next = ring[q].next

Calm(p) ==
  /\ Alone(p) /\ Live' = Live /\ Enqueued' = Enqueued /\ taken' = taken /\ SameEnds
  /\ \A q \in Ring : ring'[q].head = ring[q].head

TailsRise == \A q \in Ring : ring[q].tail <= ring'[q].tail

(* The numbers of a ring.                                                  *)
LEMMA RingNumbers ==
  ASSUME IInv, NEW q \in Ring
  PROVE  /\ ring[q].head \in Nat /\ ring[q].tail \in Nat
         /\ \A c \in Cells : ring[q].array[c] \in CellRec /\ ring[q].array[c].idx \in Nat
         /\ \A k \in Nat : k % RING_SIZE \in Cells
<1>1. ring[q] \in RingRec
  BY DEF IInv, Shapes
<1>2. ring[q].head \in 0..MaxIndex /\ ring[q].tail \in 0..MaxIndex
      /\ ring[q].array \in [Cells -> CellRec]
  BY <1>1 DEF RingRec
<1>3. \A k \in Nat : k % RING_SIZE \in Cells
  BY RingsAreNumbers, Division DEF Cells
<1>4. ring[q].head \in Nat /\ ring[q].tail \in Nat
  BY <1>2, RingsAreNumbers
<1>5. \A c \in Cells : ring[q].array[c] \in CellRec
  BY <1>2
<1>6. \A c \in Cells : ring[q].array[c].idx \in Nat
  BY <1>5 DEF CellRec
<1> QED BY <1>3, <1>4, <1>5, <1>6

(* A step is calm when the rings only change in their tails and bits.      *)
LEMMA CalmStep ==
  ASSUME IInv, NEW p \in Thread, Alone(p), th'[p].nrq = th[p].nrq,
         th[p].pc # "publish", th'[p].pc # "publish", UNCHANGED <<used, done, taken>>, SameEnds,
         \A q \in Ring : ring'[q].head = ring[q].head
  PROVE  Calm(p)
<1>1. Moves(p)
  BY DEF Moves, Alone
<1> QED BY <1>1, LiveKept, EnqueuedKept DEF Calm

(* So it is when they do not change at all.                                *)
LEMMA StillStep ==
  ASSUME IInv, NEW p \in Thread, Alone(p), th'[p].nrq = th[p].nrq,
         th[p].pc # "publish", th'[p].pc # "publish", UNCHANGED <<ring, used, done, taken>>
  PROVE  Calm(p) /\ TailsRise
<1>1. \A q \in Ring : ring[q].tail <= ring[q].tail
  BY RingNumbers
<1> QED BY <1>1, CalmStep DEF SameEnds, TailsRise

(* The way onward is that of the links.                                    *)
LEMMA OnwardKept ==
  ASSUME \A q \in Ring : ring'[q].next = ring[q].next
  PROVE  \A q : Onward(q)' = Onward(q)
BY DEF Onward, Closed

(* p's cell and slot are those of its ring and its ticket.                 *)
LEMMA CellKept ==
  ASSUME IInv, NEW o \in Thread, th[o].pc \notin NoRing, SameEnds,
         th'[o].rq = th[o].rq, th'[o].n = th[o].n
  PROVE  Cell(o)' = Cell(o) /\ Slot(o)' = Slot(o)
BY Here DEF Cell, Slot, SameEnds

(* The ticket invariants after a calm step of p, as far as they hold of p: *)
(* it keeps its ticket, or its cell has moved on.                          *)
LEMMA CalmTickets ==
  ASSUME IInv, TInv, NEW p \in Thread, Calm(p),
         th'[p].pc \in Reading => Sound(th'[p], Cell(p)'),
         th[p].pc \in Hunting =>
           \/ th'[p].pc \in Hunting /\ SameTurn(th'[p], th[p])
           \/ Cell(p).idx > th[p].n,
         Free(p)' => /\ SameTurn(th'[p], th[p]) /\ th[p].pc \in Asking
                     /\ \A k \in th[p].n .. ring[th[p].rq].head - 1 :
                          k % RING_SIZE = Slot(p) => Hunted(th[p].rq, k)
  PROVE  TInv'
<1>1. \A o \in Thread \ {p} : th'[o] = th[o]
  BY DEF Calm, Alone
<1>2. Live \subseteq Ring /\ Live' = Live
  BY RingsAreNumbers DEF Live, IInv, Shapes, Calm
<1>3. \A o \in Thread \ {p} : th[o].pc \notin NoRing => Cell(o)' = Cell(o) /\ Slot(o)' = Slot(o)
  BY <1>1, CellKept DEF Calm
<1>4. \A q, k : Hunted(q, k) =>
        \/ Hunted(q, k)'
        \/ th[p].pc \in Hunting /\ th[p].rq = q /\ th[p].n = k /\ Cell(p).idx > k
  <2>1. ASSUME NEW q, NEW k, NEW o \in Thread, Hunts(o, q, k)
        PROVE  \/ Hunted(q, k)'
               \/ th[p].pc \in Hunting /\ th[p].rq = q /\ th[p].n = k /\ Cell(p).idx > k
    <3>1. CASE o # p
      <4>1. Hunts(o, q, k)'
        BY <1>1, <2>1, <3>1 DEF Hunts
      <4> QED BY <4>1 DEF Hunted
    <3>2. CASE o = p
      <4>1. th[p].pc \in Hunting /\ th[p].rq = q /\ th[p].n = k
        BY <2>1, <3>2 DEF Hunts, Hunting
      <4>2. CASE th'[p].pc \in Hunting /\ SameTurn(th'[p], th[p])
        <5>1. Hunts(p, q, k)'
          BY <4>1, <4>2 DEF Hunts, Hunting, SameTurn
        <5> QED BY <5>1 DEF Hunted
      <4>3. CASE Cell(p).idx > th[p].n
        BY <4>1, <4>3
      <4> QED BY <4>1, <4>2, <4>3
    <3> QED BY <3>1, <3>2
  <2> QED BY <2>1 DEF Hunted
<1>5. Sounds'
  <2>1. ASSUME NEW o \in Thread
        PROVE  Sound(th'[o], Cell(o)')
    <3>1. CASE th'[o].pc \notin Reading
      BY <3>1 DEF Sound, Reading, Asking, Hunting
    <3>2. CASE th'[o].pc \in Reading /\ o # p
      <4>1. th[o].pc \notin NoRing /\ th'[o] = th[o]
        BY <1>1, <3>2 DEF Reading, Asking, Hunting, NoRing
      <4>2. Sound(th[o], Cell(o))
        BY DEF TInv, Sounds
      <4> QED BY <1>3, <3>2, <4>1, <4>2
    <3>3. CASE th'[o].pc \in Reading /\ o = p
      BY <3>3
    <3> QED BY <3>1, <3>2, <3>3
  <2> QED BY <2>1 DEF Sounds
<1>6. Passed'
  <2>1. ASSUME NEW q \in Live, NEW k \in 0..ring[q].head - 1
        PROVE  \/ Hunted(q, k)' \/ ring[q].array[k % RING_SIZE].idx > k
               \/ ring[q].array[k % RING_SIZE].unsafe
    <3>1. \/ Hunted(q, k) \/ ring[q].array[k % RING_SIZE].idx > k
          \/ ring[q].array[k % RING_SIZE].unsafe
      BY DEF TInv, Passed
    <3> QED BY <1>4, <3>1 DEF Cell, Slot
  <2> QED BY <1>2, <2>1 DEF Passed, Calm, SameEnds
<1>7. Ahead'
  <2>1. ASSUME NEW q \in Live, NEW c \in Cells, NEW i, i = ring[q].array[c].idx,
               ring[q].array[c].val # Empty
        PROVE  i >= ring[q].head \/ Hunted(q, i)'
    <3>1. i >= ring[q].head \/ Hunted(q, i)
      BY <2>1 DEF TInv, Ahead
    <3>2. ASSUME th[p].rq = q, th[p].n = i, Cell(p).idx > i
          PROVE  FALSE
      <4>1. Slot(p) = c
        BY <1>2, <2>1, <3>2 DEF Slot, IInv, Congruent
      <4>2. Cell(p).idx = i /\ i \in Nat
        BY <1>2, <2>1, <3>2, <4>1, RingNumbers DEF Cell
      <4> QED BY <3>2, <4>2
    <3> QED BY <1>4, <3>1, <3>2
  <2>2. \A q \in Live : ring'[q].array = ring[q].array /\ ring'[q].head = ring[q].head
    BY <1>2 DEF Calm, SameEnds
  <2> QED BY <1>2, <2>1, <2>2 DEF Ahead
<1>8. Clear'
  <2>1. ASSUME NEW o \in Thread, Free(o)', NEW k \in th'[o].n .. ring'[th'[o].rq].head - 1,
               k % RING_SIZE = Slot(o)', NEW r, r = th'[o].rq
        PROVE  Hunted(r, k)'
    <3>1. th'[o].pc = "put" /\ th[o].pc \in Asking
      BY <1>1, <2>1 DEF Free, Asking
    <3>2. /\ th'[o].n = th[o].n /\ th'[o].rq = th[o].rq /\ th[o].pc \notin NoRing
          /\ Slot(o)' = Slot(o) /\ Cell(o)' = Cell(o)
      <4>1. th[o].pc \notin NoRing
        BY <3>1 DEF Asking, NoRing
      <4>2. th'[o].n = th[o].n /\ th'[o].rq = th[o].rq
        BY <1>1, <2>1 DEF SameTurn
      <4> QED BY <4>1, <4>2, CellKept DEF Calm
    <3>3. /\ th[o].rq \in Live /\ th[o].rq \in Ring /\ th[o].n \in Nat
          /\ Slot(o) \in Cells /\ Cell(o) \in CellRec
      BY <3>2, Here
    <3>4. k \in th[o].n .. ring[th[o].rq].head - 1 /\ k % RING_SIZE = Slot(o)
      BY <2>1, <3>2, <3>3 DEF Calm
    <3>5. Hunted(th[o].rq, k)
      <4>1. CASE o = p
        BY <2>1, <3>4, <4>1
      <4>2. CASE o # p
        <5>1. th'[o] = th[o]
          BY <1>1, <4>2
        <5>2. Free(o)
          BY <2>1, <3>2, <5>1 DEF Free
        <5> QED BY <3>4, <5>2 DEF TInv, Clear
      <4> QED BY <4>1, <4>2
    <3>6. ASSUME th[p].rq = th[o].rq, th[p].n = k, Cell(p).idx > k
          PROVE  FALSE
      <4>1. Cell(p) = Cell(o)
        BY <3>4, <3>6 DEF Cell, Slot
      <4>2. Cell(o).idx = th'[o].idx /\ th'[o].idx <= th'[o].n
        BY <2>1, <3>1, <3>2, <1>5 DEF Free, Sounds, Sound
      <4>3. Cell(o).idx \in Nat /\ ring[th[o].rq].head \in Nat
        BY <3>3, RingNumbers DEF CellRec
      <4> QED BY <3>2, <3>3, <3>4, <3>6, <4>1, <4>2, <4>3
    <3> QED BY <1>4, <2>1, <3>2, <3>5, <3>6
  <2> QED BY <2>1 DEF Clear
<1>9. Stored'
  <2>1. Enqueued' = Enqueued /\ ToSet(taken)' = ToSet(taken)
    BY DEF Calm, ToSet
  <2>2. \A q \in Live : ring'[q].array = ring[q].array
    BY <1>2 DEF Calm, SameEnds
  <2> QED BY <1>2, <2>1, <2>2 DEF TInv, Stored
<1>10. Chain'
  <2>1. \A q : Onward(q)' = Onward(q)
    BY OnwardKept DEF Calm, SameEnds
  <2>2. \A q \in Ring : ring'[q].next = ring[q].next
    BY DEF Calm, SameEnds
  <2> QED BY <1>2, <2>1, <2>2 DEF TInv, Chain
<1> QED BY <1>5, <1>6, <1>7, <1>8, <1>9, <1>10 DEF TInv

-----------------------------------------------------------------------------
(* The calm steps, one by one.  The plain ones among them keep the ring    *)
(* and the ticket, or end the turn.                                        *)

Plain(p) ==
  /\ Calm(p) /\ TailsRise /\ UNCHANGED <<head, tail, done, prec>>
  /\ th'[p].seen \subseteq th[p].seen /\ th'[p].older \subseteq th[p].older
  /\ th'[p].pc \notin NoRing =>
       /\ SameTurn(th'[p], th[p]) /\ th[p].pc \notin NoRing
       /\ th'[p].pc \in Enq <=> th[p].pc \in Enq
  /\ th'[p].pc \in Drawn => th[p].pc \in Drawn
  /\ th'[p].pc \in Hunting => th[p].pc \in Hunting
  /\ th'[p].pc \in Issued => th[p].pc \in Issued
  /\ th'[p].pc \in Fixing => th[p].pc \in Fixing
  /\ th'[p].pc \notin {"eswing", "dswing", "publish", "fixcas", "dfaa"}

(* From place a to place b within a turn.                                  *)
Onto(a, b) ==
  /\ a \notin NoRing \cup {"publish"} /\ (b \in Enq <=> a \in Enq)
  /\ b \in Drawn => a \in Drawn
  /\ b \in Hunting => a \in Hunting
  /\ b \in Issued => a \in Issued
  /\ b \in Fixing => a \in Fixing
  /\ b \notin {"eswing", "dswing", "publish", "fixcas", "dfaa"}

LEMMA PlainStep ==
  ASSUME IInv, NEW p \in Thread, Alone(p), SameTurn(th'[p], th[p]), Onto(th[p].pc, th'[p].pc),
         UNCHANGED <<ring, used, head, tail, hist>>
  PROVE  Plain(p)
<1>1. th'[p].nrq = th[p].nrq /\ th[p].pc # "publish" /\ th'[p].pc # "publish"
  BY DEF SameTurn, Onto
<1>2. Calm(p) /\ TailsRise
  BY <1>1, StillStep DEF hist
<1> QED BY <1>2 DEF Plain, Onto, SameTurn, hist

(* A turn that ends.                                                       *)
LEMMA PlainEnd ==
  ASSUME IInv, NEW p \in Thread, Alone(p), th'[p].nrq = th[p].nrq, th'[p].pc \in NoRing,
         th[p].pc # "publish", th'[p].seen \subseteq th[p].seen, th'[p].older \subseteq th[p].older,
         UNCHANGED <<ring, used, head, tail, hist>>
  PROVE  Plain(p)
<1>1. Calm(p) /\ TailsRise
  BY StillStep DEF NoRing, hist
<1>2. th'[p].pc \notin Drawn \cup Issued \cup {"eswing", "dswing", "publish", "fixcas", "dfaa"}
  BY DEF NoRing, Drawn, Hunting, Fixing, Issued, Asking
<1> QED BY <1>1, <1>2 DEF Plain, Drawn, hist

LEMMA PlainReads ==
  ASSUME IInv, NEW p \in Thread, ReadIdx(p) \/ Judge(p) \/ Examine(p) \/ Wait(p)
  PROVE  Plain(p)
<1>1. CASE ReadIdx(p)
  <2>1. /\ Alone(p) /\ SameTurn(th'[p], th[p])
        /\ th[p].pc = "eidx" => th'[p].pc = "eval"
        /\ th[p].pc = "didx" => th'[p].pc = "dval"
    BY <1>1, ReadIdxFields
  <2>2. th[p].pc \in {"eidx", "didx"} /\ UNCHANGED <<ring, used, head, tail, hist>>
    BY <1>1 DEF ReadIdx
  <2>3. Onto(th[p].pc, th'[p].pc)
    BY <2>1, <2>2 DEF Onto, NoRing, Enq, Drawn, Hunting, Fixing, Issued, Asking
  <2> QED BY <2>1, <2>2, <2>3, PlainStep
<1>2. CASE Judge(p)
  <2>1. Alone(p) /\ SameTurn(th'[p], th[p]) /\ th'[p].pc \in {"full", "safe", "put"}
    BY <1>2, ReadValFields
  <2>2. th[p].pc = "eval" /\ UNCHANGED <<ring, used, head, tail, hist>>
    BY <1>2 DEF Judge
  <2>3. Onto(th[p].pc, th'[p].pc)
    BY <2>1, <2>2 DEF Onto, NoRing, Enq, Drawn, Hunting, Fixing, Issued, Asking
  <2> QED BY <2>1, <2>2, <2>3, PlainStep
<1>3. CASE Examine(p)
  <2>1. Alone(p) /\ SameTurn(th'[p], th[p]) /\ th'[p].pc \in {"check", "take", "mark", "wait"}
    BY <1>3, ReadValFields
  <2>2. th[p].pc = "dval" /\ UNCHANGED <<ring, used, head, tail, hist>>
    BY <1>3 DEF Examine
  <2>3. Onto(th[p].pc, th'[p].pc)
    BY <2>1, <2>2 DEF Onto, NoRing, Enq, Drawn, Hunting, Fixing, Issued, Asking
  <2> QED BY <2>1, <2>2, <2>3, PlainStep
<1>4. CASE Wait(p)
  <2>1. Alone(p) /\ SameTurn(th'[p], th[p]) /\ th'[p].pc \in {"advance", "didx"}
    BY <1>4, WaitFields
  <2>2. th[p].pc = "wait" /\ UNCHANGED <<ring, used, head, tail, hist>>
    BY <1>4 DEF Wait
  <2>3. Onto(th[p].pc, th'[p].pc)
    BY <2>1, <2>2 DEF Onto, NoRing, Enq, Drawn, Hunting, Fixing, Issued, Asking
  <2> QED BY <2>1, <2>2, <2>3, PlainStep
<1> QED BY <1>1, <1>2, <1>3, <1>4

(* A step that only moves the program counter.                             *)
LEMMA PlainStay ==
  ASSUME IInv, NEW p \in Thread, NEW l \in Pcs, Go(p, l, th[p]), Onto(th[p].pc, l),
         UNCHANGED <<ring, used, head, tail, hist>>
  PROVE  Plain(p)
BY StayFields, PlainStep

(* The compare-and-swaps that fail, and the look at the head.              *)
LEMMA PlainFailures ==
  ASSUME IInv, NEW p \in Thread, UNCHANGED ring,
         CheckHead(p) \/ (Put(p) /\ ~Unmoved(p)) \/ (Take(p) /\ ~Unmoved(p))
           \/ (MarkUnsafe(p) /\ ~Unmoved(p)) \/ (Advance(p) /\ ~Unmoved(p))
  PROVE  /\ Plain(p) /\ SameTurn(th'[p], th[p]) /\ SameView(th'[p], th[p])
         /\ th[p].pc \in {"safe", "put"} => th'[p].pc \in {"put", "full"}
         /\ th[p].pc \in {"take", "mark", "advance"} => th'[p].pc = "didx"
         /\ th[p].pc \in {"safe", "put", "take", "mark", "advance"}
         /\ th'[p].pc = "put" => th[p].pc = "safe" /\ ring[th[p].rq].head < th[p].n
<1>1. PICK l \in {"put", "full", "didx"} :
        /\ Go(p, l, th[p])
        /\ th[p].pc \in {"safe", "put"} => l \in {"put", "full"}
        /\ th[p].pc \in {"take", "mark", "advance"} => l = "didx"
        /\ l = "put" => th[p].pc = "safe" /\ ring[th[p].rq].head < th[p].n
  BY DEF CheckHead, Put, Take, MarkUnsafe, Advance
<1>2. /\ th[p].pc \in {"safe", "put", "take", "mark", "advance"}
      /\ UNCHANGED <<ring, used, head, tail, hist>>
  BY DEF CheckHead, Put, Take, MarkUnsafe, Advance, hist
<1>3. Onto(th[p].pc, l) /\ l \in Pcs
  BY <1>1, <1>2 DEF Onto, NoRing, Enq, Drawn, Hunting, Fixing, Issued, Asking, Pcs
<1>4. Plain(p)
  BY <1>1, <1>2, <1>3, PlainStay
<1>5. th'[p].pc = l /\ SameTurn(th'[p], th[p]) /\ SameView(th'[p], th[p])
  BY <1>1, <1>3, StayFields
<1> QED BY <1>1, <1>2, <1>4, <1>5

(* The decisions on the head and the tail of a ring.                       *)
LEMMA PlainFull ==
  ASSUME IInv, NEW p \in Thread, CheckFull(p)
  PROVE  Plain(p) /\ th[p].pc = "full" /\ th'[p].pc \in {"close", "tail"}
<1> DEFINE f == [th[p] EXCEPT !.tries = @ + 1]
<1>1. /\ th[p].pc = "full" /\ UNCHANGED <<ring, used, head, tail, hist>>
      /\ Go(p, "close", f) \/ Again(p, "tail")
  BY DEF CheckFull
<1>2. CASE Go(p, "close", f)
  <2>1. th \in [Thread -> Locals] /\ th[p] \in Locals
    BY DEF IInv, Shapes
  <2>2. f \in Locals /\ SameTurn(f, th[p])
    BY <2>1 DEF Locals, SameTurn
  <2> HIDE DEF f
  <2>3. Alone(p) /\ th'[p].pc = "close" /\ SameTurn(th'[p], f)
    BY <1>2, <2>1, <2>2, GoFields DEF Pcs
  <2>4. SameTurn(th'[p], th[p])
    BY <2>2, <2>3 DEF SameTurn
  <2>5. Onto(th[p].pc, th'[p].pc)
    BY <1>1, <2>3 DEF Onto, NoRing, Enq, Drawn, Hunting, Fixing, Issued, Asking
  <2> QED BY <1>1, <2>3, <2>4, <2>5, PlainStep
<1>3. CASE Again(p, "tail")
  <2>1. /\ Alone(p) /\ th'[p].pc = "tail" /\ th'[p].nrq = th[p].nrq
        /\ th'[p].older = th[p].older /\ th'[p].seen = th[p].seen
    BY <1>3, AgainFields
  <2> QED BY <1>1, <2>1, PlainEnd DEF NoRing
<1> QED BY <1>1, <1>2, <1>3

LEMMA CheckEmptyCalm ==
  ASSUME IInv, NEW p \in Thread, CheckEmpty(p)
  PROVE  /\ th[p].pc = "check" /\ Calm(p) /\ TailsRise
         /\ \/ Plain(p) /\ th'[p].pc = "head"
            \/ /\ th'[p].pc = "fix" /\ SameTurn(th'[p], th[p])
               /\ PredLeq(ring[th[p].rq].tail, th[p].n)
<1>1. th[p].pc = "check" /\ UNCHANGED <<ring, used, head, tail, hist>>
  BY DEF CheckEmpty
<1>2. CASE Again(p, "head")
  <2>1. /\ Alone(p) /\ th'[p].pc = "head" /\ th'[p].nrq = th[p].nrq
        /\ th'[p].older = th[p].older /\ th'[p].seen = th[p].seen
    BY <1>2, AgainFields
  <2>2. Plain(p)
    BY <1>1, <2>1, PlainEnd DEF NoRing
  <2> QED BY <1>1, <2>1, <2>2 DEF Plain
<1>3. CASE Go(p, "fix", th[p]) /\ PredLeq(ring[th[p].rq].tail, th[p].n)
  <2>1. Alone(p) /\ th'[p].pc = "fix" /\ SameTurn(th'[p], th[p])
    BY <1>3, StayFields DEF Pcs
  <2>2. Calm(p) /\ TailsRise
    BY <1>1, <2>1, StillStep DEF hist, SameTurn
  <2> QED BY <1>1, <1>3, <2>1, <2>2
<1> QED BY <1>2, <1>3 DEF CheckEmpty

(* A step on the tail or the closed bit of p's ring.                       *)
LEMMA RingSet ==
  ASSUME IInv, NEW q \in Ring, NEW x \in RingRec, ring' = [ring EXCEPT ![q] = x],
         x.next = ring[q].next, x.array = ring[q].array, x.head = ring[q].head
  PROVE  /\ SameEnds /\ \A r \in Ring : ring'[r].head = ring[r].head
         /\ ring[q].tail <= x.tail => TailsRise
<1>1. ring \in [Ring -> RingRec]
  BY DEF IInv, Shapes
<1>2. ring'[q] = x /\ \A r \in Ring : r # q => ring'[r] = ring[r]
  BY <1>1
<1>3. SameEnds
  BY <1>2 DEF SameEnds
<1>4. \A r \in Ring : ring[r].tail <= ring[r].tail
  BY RingNumbers
<1> QED BY <1>2, <1>3, <1>4 DEF TailsRise

LEMMA ClosePlain ==
  ASSUME IInv, NEW p \in Thread, Close(p)
  PROVE  Plain(p) /\ th[p].pc = "close" /\ th'[p].pc \in {"link", "tail"}
<1> DEFINE q == ring[th[p].rq]
           x == [q EXCEPT !.closed = TRUE]
<1>1. th[p].pc = "close" /\ UNCHANGED <<used, head, tail, hist>>
  BY DEF Close
<1>2. th[p] \in Locals /\ th[p].rq \in Live /\ th[p].rq \in Ring /\ q \in RingRec
  BY <1>1, Here DEF NoRing
<1>3. x \in RingRec /\ x.next = q.next /\ x.array = q.array /\ x.head = q.head /\ x.tail = q.tail
  <2> HIDE DEF q
  <2> QED BY <1>2 DEF RingRec
<1>4. CASE ring' = ring /\ Again(p, "tail")
  <2>1. /\ Alone(p) /\ th'[p].pc = "tail" /\ th'[p].nrq = th[p].nrq
        /\ th'[p].older = th[p].older /\ th'[p].seen = th[p].seen
    BY <1>4, AgainFields
  <2> QED BY <1>1, <1>4, <2>1, PlainEnd DEF NoRing
<1>5. CASE ring' = [ring EXCEPT ![th[p].rq] = x] /\ Go(p, "link", th[p])
  <2>1. Alone(p) /\ th'[p].pc = "link" /\ SameTurn(th'[p], th[p])
    BY <1>5, StayFields DEF Pcs
  <2>2. SameEnds /\ TailsRise /\ \A r \in Ring : ring'[r].head = ring[r].head
    <3> HIDE DEF x
    <3>1. ring[th[p].rq].tail <= x.tail
      BY <1>2, <1>3, RingNumbers
    <3> QED BY <1>2, <1>3, <1>5, <3>1, RingSet
  <2>3. Calm(p)
    BY <1>1, <2>1, <2>2, CalmStep DEF SameTurn, hist
  <2>4. Onto(th[p].pc, th'[p].pc)
    BY <1>1, <2>1 DEF Onto, NoRing, Enq, Drawn, Hunting, Fixing, Issued, Asking
  <2> QED BY <1>1, <2>1, <2>2, <2>3, <2>4 DEF Plain, Onto, SameTurn, hist
<1> QED BY <1>4, <1>5 DEF Close

(* fixState.                                                               *)
LEMMA FixCalm ==
  ASSUME IInv, NEW p \in Thread, FixRead(p) \/ FixHead(p) \/ FixCheck(p) \/ FixTail(p)
  PROVE  /\ Calm(p) /\ SameTurn(th'[p], th[p]) /\ UNCHANGED <<head, tail, done, prec>>
         /\ th[p].pc \in {"fix", "fixh", "fixt", "fixcas"} /\ th'[p].pc \in Fixing
         /\ th'[p].pc = "fixcas" => th'[p].fixt < th'[p].tt
         /\ (th[p].pc = "fixcas" => th[p].fixt < th[p].tt) => TailsRise
<1>1. /\ th[p].pc \in {"fix", "fixh", "fixt", "fixcas"} /\ UNCHANGED <<used, head, tail, hist>>
      /\ th \in [Thread -> Locals]
  BY DEF FixRead, FixHead, FixCheck, FixTail, IInv, Shapes
<1> DEFINE q == ring[th[p].rq]
<1>2. th[p] \in Locals /\ th[p].rq \in Live /\ th[p].rq \in Ring /\ q \in RingRec
  BY <1>1, Here DEF NoRing
<1>3. ASSUME Alone(p), SameTurn(th'[p], th[p]), th'[p].pc \in Fixing, UNCHANGED ring
      PROVE  Calm(p) /\ TailsRise
  BY <1>1, <1>3, StillStep DEF SameTurn, Fixing, hist
<1>4. CASE FixRead(p)
  <2> DEFINE f == [th[p] EXCEPT !.fixt = q.tail, !.fixc = q.closed]
  <2>1. f \in Locals /\ SameTurn(f, th[p])
    <3> HIDE DEF q
    <3> QED BY <1>2, ZenonT(60) DEF Locals, RingRec, SameTurn
  <2>2. Go(p, "fixh", f) /\ UNCHANGED ring
    BY <1>4 DEF FixRead
  <2> HIDE DEF f
  <2>3. Alone(p) /\ th'[p].pc = "fixh" /\ SameTurn(th'[p], f)
    BY <1>1, <2>1, <2>2, GoFields DEF Pcs
  <2>4. SameTurn(th'[p], th[p])
    BY <2>1, <2>3 DEF SameTurn
  <2> QED BY <1>1, <1>3, <2>2, <2>3, <2>4 DEF Fixing, hist
<1>5. CASE FixHead(p)
  <2> DEFINE f == [th[p] EXCEPT !.tt = q.head]
  <2>1. f \in Locals /\ SameTurn(f, th[p])
    <3> HIDE DEF q
    <3> QED BY <1>2 DEF Locals, RingRec, SameTurn
  <2>2. Go(p, "fixt", f) /\ UNCHANGED ring
    BY <1>5 DEF FixHead
  <2> HIDE DEF f
  <2>3. Alone(p) /\ th'[p].pc = "fixt" /\ SameTurn(th'[p], f)
    BY <1>1, <2>1, <2>2, GoFields DEF Pcs
  <2>4. SameTurn(th'[p], th[p])
    BY <2>1, <2>3 DEF SameTurn
  <2> QED BY <1>1, <1>3, <2>2, <2>3, <2>4 DEF Fixing, hist
<1>6. CASE FixCheck(p)
  <2>1. PICK l \in {"fix", "fixcas", "dnext"} :
          Go(p, l, th[p]) /\ (l = "fixcas" => th[p].tt > th[p].fixt)
    BY <1>6, Zenon DEF FixCheck
  <2>2. UNCHANGED ring
    BY <1>6 DEF FixCheck
  <2>3. /\ Alone(p) /\ th'[p].pc = l /\ SameTurn(th'[p], th[p])
        /\ th'[p].tt = th[p].tt /\ th'[p].fixt = th[p].fixt
    BY <2>1, StayFields DEF Pcs
  <2>4. th[p].tt \in Int /\ th[p].fixt \in Int
    <3>1. th[p].tt \in 0..MaxIndex /\ th[p].fixt \in 0..MaxIndex
      BY <1>2 DEF Locals
    <3> QED BY <3>1
  <2>5. th'[p].pc = "fixcas" => th'[p].fixt < th'[p].tt
    BY <2>1, <2>3, <2>4
  <2> QED BY <1>1, <1>3, <2>1, <2>2, <2>3, <2>5 DEF Fixing, hist
<1>7. CASE FixTail(p)
  <2> DEFINE x == [q EXCEPT !.tail = th[p].tt]
  <2>1. /\ x \in RingRec /\ x.next = q.next /\ x.array = q.array /\ x.head = q.head
        /\ x.tail = th[p].tt
    <3> HIDE DEF q
    <3>1. th[p].tt \in 0..MaxIndex
      BY <1>2 DEF Locals
    <3> QED BY <1>2, <3>1 DEF RingRec
  <2>2. PICK l \in {"fix", "dnext"} : Go(p, l, th[p])
    BY <1>7 DEF FixTail
  <2>3. Alone(p) /\ th'[p].pc = l /\ SameTurn(th'[p], th[p]) /\ th'[p].pc \in Fixing
    BY <2>2, StayFields DEF Pcs, Fixing
  <2>4. CASE UNCHANGED ring
    BY <1>1, <1>3, <2>3, <2>2, <2>4 DEF hist
  <2>5. CASE ring' = [ring EXCEPT ![th[p].rq] = x] /\ ring[th[p].rq].tail = th[p].fixt
    <3> HIDE DEF x
    <3>1. /\ SameEnds /\ \A r \in Ring : ring'[r].head = ring[r].head
          /\ ring[th[p].rq].tail <= x.tail => TailsRise
      BY <1>2, <2>1, <2>5, RingSet
    <3>2. Calm(p)
      BY <1>1, <2>3, <3>1, CalmStep DEF SameTurn, Fixing, hist
    <3>3. th[p].tt \in Int /\ th[p].fixt \in Int
      <4>1. th[p].tt \in 0..MaxIndex /\ th[p].fixt \in 0..MaxIndex
        BY <1>2 DEF Locals
      <4> QED BY <4>1
    <3>4. th[p].fixt < th[p].tt => ring[th[p].rq].tail <= x.tail
      BY <2>1, <2>5, <3>3
    <3>5. th[p].pc = "fixcas" /\ th'[p].pc # "fixcas" /\ UNCHANGED <<head, tail, done, prec>>
      BY <1>1, <1>7, <2>2, <2>3 DEF hist, FixTail
    <3> QED BY <2>3, <3>1, <3>2, <3>4, <3>5
  <2> QED BY <1>7, <2>4, <2>5 DEF FixTail, TailIs
<1> QED BY <1>4, <1>5, <1>6, <1>7

(* A dequeue that returns EMPTY.                                           *)
LEMMA ReturnEmptyPlain ==
  ASSUME IInv, NEW p \in Thread, ReturnEmpty(p)
  PROVE  Plain(p) /\ th[p].pc = "dnext" /\ th'[p].pc = "idle"
<1>1. /\ Alone(p) /\ th'[p].pc = "idle" /\ th'[p].nrq = th[p].nrq
      /\ th'[p].older = {} /\ th'[p].seen = {}
  BY ReturnFields DEF ReturnEmpty
<1>2. th[p].pc = "dnext" /\ UNCHANGED <<ring, used, head, tail, hist>>
  BY DEF ReturnEmpty
<1> QED BY <1>1, <1>2, PlainEnd DEF NoRing

(* The calls.                                                              *)
LEMMA BeginEnqueueCalm ==
  ASSUME IInv, NEW p \in Thread, BeginEnqueue(p)
  PROVE  /\ Calm(p) /\ TailsRise /\ th[p].pc = "idle" /\ th'[p].pc = "tail"
         /\ th'[p].seen = th[p].seen /\ th'[p].older = th[p].older
<1> DEFINE v == <<p, ops[p] + 1>>
           f == [th[p] EXCEPT !.arg = v]
<1>1. th \in [Thread -> Locals] /\ th[p] \in Locals /\ th[p].pc = "idle"
  BY DEF IInv, Shapes, BeginEnqueue
<1>2. f \in Locals /\ f.nrq = th[p].nrq /\ f.seen = th[p].seen /\ f.older = th[p].older
  <2>1. ops[p] \in Nat /\ ops[p] + 1 \in 1..MaxOps
    BY RingsAreNumbers DEF BeginEnqueue, IInv, Shapes
  <2>2. v \in {Null} \cup (Thread \X (1..MaxOps))
    BY <2>1
  <2> HIDE DEF v
  <2> QED BY <1>1, <2>2 DEF Locals
<1>3. Go(p, "tail", f) /\ "tail" \in Pcs /\ UNCHANGED <<ring, used, done, taken>>
  BY DEF BeginEnqueue, Pcs
<1> HIDE DEF f
<1>4. Alone(p) /\ th'[p].pc = "tail" /\ SameTurn(th'[p], f)
  BY <1>1, <1>2, <1>3, GoFields
<1>5. Calm(p) /\ TailsRise
  BY <1>1, <1>2, <1>3, <1>4, StillStep DEF SameTurn
<1> QED BY <1>1, <1>2, <1>4, <1>5 DEF SameTurn

LEMMA BeginDequeueCalm ==
  ASSUME IInv, NEW p \in Thread, BeginDequeue(p)
  PROVE  /\ Calm(p) /\ TailsRise /\ th[p].pc = "idle" /\ th'[p].pc = "head"
         /\ th'[p].seen = done /\ th'[p].older = ToSet(taken)
<1> DEFINE f == [th[p] EXCEPT !.older = ToSet(taken), !.seen = done]
<1>1. th \in [Thread -> Locals] /\ th[p] \in Locals /\ th[p].pc = "idle"
  BY DEF IInv, Shapes, BeginDequeue
<1>2. f \in Locals /\ f.nrq = th[p].nrq /\ f.seen = done /\ f.older = ToSet(taken)
  <2>1. ToSet(taken) \in SUBSET Values /\ done \in SUBSET Values
    BY DEF IInv, Shapes, ToSet
  <2> QED BY <1>1, <2>1, ZenonT(60) DEF Locals
<1>3. Go(p, "head", f) /\ "head" \in Pcs /\ UNCHANGED <<ring, used, done, taken>>
  BY DEF BeginDequeue, Pcs
<1> HIDE DEF f
<1>4. Alone(p) /\ th'[p].pc = "head" /\ SameTurn(th'[p], f)
  BY <1>1, <1>2, <1>3, GoFields
<1>5. Calm(p) /\ TailsRise
  BY <1>1, <1>2, <1>3, <1>4, StillStep DEF SameTurn
<1> QED BY <1>1, <1>2, <1>4, <1>5 DEF SameTurn

(* The reads of the pointers, and their moves.                             *)
LEMMA PointerCalm ==
  ASSUME IInv, NEW p \in Thread,
         ReadTailPtr(p) \/ ReadHeadPtr(p) \/ ReadNext(p) \/ ReadNextRing(p)
           \/ SwingTail(p) \/ SwingHead(p)
  PROVE  /\ Calm(p) /\ TailsRise /\ UNCHANGED <<done, prec>>
         /\ th'[p].seen = th[p].seen /\ th'[p].older = th[p].older
         /\ th[p].pc \in {"tail", "head", "enext", "dnext", "eswing", "dswing"}
         /\ SwingTail(p) => th'[p].pc = "tail"
         /\ SwingHead(p) => th'[p].pc = "head"
         /\ th'[p].pc \in {"enext", "dfaa", "efaa", "eswing", "dswing", "tail", "head"}
<1>1. /\ th[p].pc \in {"tail", "head", "enext", "dnext", "eswing", "dswing"}
      /\ UNCHANGED <<ring, used, done, taken, prec>>
  BY DEF ReadTailPtr, ReadHeadPtr, ReadNext, ReadNextRing, SwingTail, SwingHead, hist
<1>2. ASSUME Alone(p), th'[p].nrq = th[p].nrq, th'[p].pc # "publish"
      PROVE  Calm(p) /\ TailsRise
  BY <1>1, <1>2, StillStep
<1>3. CASE ReadTailPtr(p) \/ ReadHeadPtr(p)
  <2>1. /\ Alone(p) /\ th'[p].nrq = th[p].nrq /\ th'[p].older = th[p].older
        /\ th'[p].seen = th[p].seen /\ th'[p].pc \in {"enext", "dfaa"}
    BY <1>3, PointerFields
  <2>2. ~SwingTail(p) /\ ~SwingHead(p)
    BY <1>3 DEF ReadTailPtr, ReadHeadPtr, SwingTail, SwingHead
  <2> QED BY <1>1, <1>2, <2>1, <2>2
<1>4. CASE ReadNext(p) \/ ReadNextRing(p)
  <2>1. Alone(p) /\ SameTurn(th'[p], th[p]) /\ th'[p].pc \in {"efaa", "eswing", "dswing"}
    BY <1>4, NextFields
  <2>2. ~SwingTail(p) /\ ~SwingHead(p)
    BY <1>4 DEF ReadNext, ReadNextRing, SwingTail, SwingHead
  <2> QED BY <1>1, <1>2, <2>1, <2>2 DEF SameTurn
<1>5. CASE SwingTail(p)
  <2>1. Again(p, "tail") /\ ~SwingHead(p)
    BY <1>5 DEF SwingTail, SwingHead
  <2>2. /\ Alone(p) /\ th'[p].nrq = th[p].nrq /\ th'[p].older = th[p].older
        /\ th'[p].seen = th[p].seen /\ th'[p].pc = "tail"
    BY <2>1, AgainFields
  <2> QED BY <1>1, <1>2, <2>1, <2>2
<1>6. CASE SwingHead(p)
  <2>1. Again(p, "head") /\ ~SwingTail(p)
    BY <1>6 DEF SwingTail, SwingHead
  <2>2. /\ Alone(p) /\ th'[p].nrq = th[p].nrq /\ th'[p].older = th[p].older
        /\ th'[p].seen = th[p].seen /\ th'[p].pc = "head"
    BY <2>1, AgainFields
  <2> QED BY <1>1, <1>2, <2>1, <2>2
<1> QED BY <1>3, <1>4, <1>5, <1>6

(* An enqueuer draws a ticket.                                             *)
LEMMA TakeTicketCalm ==
  ASSUME IInv, NEW p \in Thread, TakeTicket(p)
  PROVE  Calm(p) /\ TailsRise /\ th[p].pc = "efaa" /\ th'[p].pc \in {"link", "eidx"}
<1>1. th[p].pc = "efaa" /\ UNCHANGED <<used, done, taken>>
  BY DEF TakeTicket, hist
<1>2. PICK k \in Ring : k = th[p].rq
  BY <1>1, Here DEF NoRing
<1>3. /\ Alone(p) /\ th'[p].nrq = th[p].nrq /\ SameEnds /\ th'[p].pc \in {"link", "eidx"}
      /\ \A q \in Ring : q # k => ring'[q] = ring[q]
      /\ ring'[k].head = ring[k].head /\ ring'[k].tail = ring[k].tail + 1
  BY <1>2, TicketFields DEF SameEnds
<1>4. \A q \in Ring : ring[q].tail \in Nat
  BY RingNumbers
<1>5. TailsRise /\ \A q \in Ring : ring'[q].head = ring[q].head
  BY <1>2, <1>3, <1>4 DEF TailsRise
<1>6. Calm(p)
  BY <1>1, <1>3, <1>5, CalmStep
<1> QED BY <1>1, <1>3, <1>5, <1>6

(* A new ring is published.                                                *)
LEMMA PublishCalm ==
  ASSUME IInv, NEW p \in Thread, Publish(p)
  PROVE  /\ Calm(p) /\ TailsRise /\ th[p].pc = "publish" /\ th'[p].pc = "idle"
         /\ th'[p].seen = {} /\ th'[p].older = {}
<1>1. /\ th[p].pc = "publish" /\ done' = done \cup {th[p].arg}
      /\ UNCHANGED <<ring, used, taken>>
  BY DEF Publish
<1>2. Alone(p) /\ th'[p] = Idle
  BY IdleTyped DEF Publish, IInv, Shapes, Alone
<1>3. th'[p].pc = "idle" /\ th'[p].nrq = Null /\ th'[p].seen = {} /\ th'[p].older = {}
  BY <1>2 DEF Idle
<1>4. Live' = Live
  <2>1. \A q \in 1..used : q # Null
    BY RingsAreNumbers DEF IInv, Shapes
  <2>2. ASSUME NEW q \in 1..used
        PROVE  (\A o \in Thread : th'[o].nrq = q => th'[o].pc = "publish")
               <=> (\A o \in Thread : th[o].nrq = q => th[o].pc = "publish")
    BY <1>1, <1>2, <1>3, <2>1 DEF Alone
  <2> QED BY <1>1, <2>2 DEF Live
<1>5. Enqueued' = Enqueued
  <2>1. \A o \in Thread : th'[o].pc = "publish" => th[o].pc = "publish" /\ th'[o] = th[o]
    BY <1>2, <1>3 DEF Alone
  <2>2. \A o \in Thread : th[o].pc = "publish" /\ o # p => th'[o].pc = "publish" /\ th'[o] = th[o]
    BY <1>2 DEF Alone
  <2> QED BY <1>1, <2>1, <2>2 DEF Enqueued
<1>6. \A q \in Ring : ring[q].tail <= ring[q].tail
  BY RingNumbers
<1>7. SameEnds /\ TailsRise /\ \A q \in Ring : ring'[q].head = ring[q].head
  BY <1>1, <1>6 DEF SameEnds, TailsRise
<1> QED BY <1>1, <1>2, <1>3, <1>4, <1>5, <1>7 DEF Calm

-----------------------------------------------------------------------------
(* The second invariant and the calm steps.                                *)

LEMMA AwayTickets ==
  ASSUME IInv, TInv, NEW p \in Thread, Calm(p), th[p].pc \notin Hunting, th'[p].pc \notin Reading
  PROVE  TInv'
<1>1. ~Free(p)'
  BY DEF Free, Reading, Asking
<1> QED BY <1>1, CalmTickets

(* What p knows of its cell before and after a calm step of its own.       *)
LEMMA OwnCell ==
  ASSUME IInv, TInv, NEW p \in Thread, Calm(p), th[p].pc \notin NoRing, SameTurn(th'[p], th[p])
  PROVE  /\ Cell(p)' = Cell(p) /\ Slot(p)' = Slot(p) /\ Sound(th[p], Cell(p))
         /\ Cell(p).idx \in Nat /\ th[p].idx \in Nat /\ th[p].n \in Nat
         /\ th[p].rq \in Live /\ th[p].rq \in Ring /\ Slot(p) \in Cells
         /\ ring[th[p].rq].head \in Nat
<1>1. Cell(p)' = Cell(p) /\ Slot(p)' = Slot(p)
  BY CellKept DEF Calm, SameTurn
<1>2. Sound(th[p], Cell(p))
  BY DEF TInv, Sounds
<1>3. /\ th[p] \in Locals /\ th[p].rq \in Live /\ th[p].rq \in Ring /\ th[p].n \in Nat
      /\ Slot(p) \in Cells /\ Cell(p) \in CellRec
  BY Here
<1>4. Cell(p).idx \in Nat /\ th[p].idx \in Nat
  BY <1>3 DEF CellRec, Locals
<1>5. ring[th[p].rq].head \in Nat
  BY <1>3, RingNumbers
<1> QED BY <1>1, <1>2, <1>3, <1>4, <1>5

LEMMA ReadIdxTickets ==
  ASSUME IInv, TInv, NEW p \in Thread, ReadIdx(p)
  PROVE  TInv'
<1>1. th[p].pc \in {"eidx", "didx"} /\ th[p].pc \notin NoRing
  BY DEF ReadIdx, NoRing
<1>2. /\ SameTurn(th'[p], th[p]) /\ th'[p].idx = Cell(p).idx /\ th'[p].unsafe = Cell(p).unsafe
      /\ th[p].pc = "eidx" => th'[p].pc = "eval"
      /\ th[p].pc = "didx" => th'[p].pc = "dval"
  BY ReadIdxFields
<1>3. Calm(p)
  BY PlainReads DEF Plain
<1>4. Cell(p)' = Cell(p) /\ Cell(p).idx \in Nat
  BY <1>1, <1>2, <1>3, OwnCell
<1>5. Sound(th'[p], Cell(p)')
  <2>1. th'[p].idx <= Cell(p).idx
    BY <1>2, <1>4
  <2>2. th'[p].pc \in {"eval", "dval"}
    BY <1>1, <1>2
  <2> QED BY <1>2, <1>4, <2>1, <2>2, Zenon DEF Sound
<1>6. ~Free(p)'
  BY <1>1, <1>2 DEF Free
<1> QED BY <1>1, <1>2, <1>3, <1>5, <1>6, CalmTickets DEF Hunting

LEMMA JudgeTickets ==
  ASSUME IInv, TInv, NEW p \in Thread, Judge(p)
  PROVE  TInv'
<1>1. th[p].pc = "eval" /\ th[p].pc \notin NoRing /\ th[p].pc \in Asking /\ th[p].pc \notin Hunting
  BY DEF Judge, NoRing, Asking, Hunting
<1>2. /\ SameTurn(th'[p], th[p])
      /\ th'[p].idx = th[p].idx /\ th'[p].unsafe = th[p].unsafe /\ th'[p].val = Cell(p).val
      /\ th'[p].pc \in {"full", "safe", "put"}
      /\ th'[p].pc \in {"safe", "put"} => Cell(p).val = Empty /\ th[p].idx <= th[p].n
      /\ th'[p].pc = "put" => ~th[p].unsafe
  BY ReadValFields
<1>3. Calm(p)
  BY PlainReads DEF Plain
<1>4. /\ Cell(p)' = Cell(p) /\ Slot(p)' = Slot(p) /\ Sound(th[p], Cell(p))
      /\ Cell(p).idx \in Nat /\ th[p].idx \in Nat /\ th[p].n \in Nat
      /\ th[p].rq \in Live /\ th[p].rq \in Ring /\ Slot(p) \in Cells
      /\ ring[th[p].rq].head \in Nat
  BY <1>1, <1>2, <1>3, OwnCell
<1>5. th[p].idx <= Cell(p).idx
      /\ (Cell(p).idx = th[p].idx /\ Cell(p).val = Empty => Cell(p).unsafe = th[p].unsafe)
  BY <1>1, <1>4, Zenon DEF Sound, Reading
<1>6. th'[p].n = th[p].n
  BY <1>2 DEF SameTurn
<1>7. Sound(th'[p], Cell(p)')
  <2>1. th'[p].pc \in {"safe", "put"} => th'[p].val = Empty /\ th'[p].idx <= th'[p].n
    BY <1>2, <1>6
  <2>2. th'[p].pc \notin {"take", "mark", "wait", "advance"}
    BY <1>2
  <2>3. th'[p].idx <= Cell(p).idx
    BY <1>2, <1>5
  <2>4. Cell(p).idx = th'[p].idx /\ Cell(p).val = Empty => Cell(p).unsafe = th'[p].unsafe
    BY <1>2, <1>5, Zenon
  <2> QED BY <1>4, <2>1, <2>2, <2>3, <2>4, Zenon DEF Sound
<1>8. ASSUME Free(p)', NEW k \in th[p].n .. ring[th[p].rq].head - 1, k % RING_SIZE = Slot(p)
      PROVE  Hunted(th[p].rq, k)
  <2>1. th'[p].pc = "put" /\ Cell(p).idx = th[p].idx /\ Cell(p).val = Empty
    BY <1>2, <1>4, <1>8 DEF Free
  <2>2. ~Cell(p).unsafe /\ th[p].idx <= th[p].n
    BY <1>2, <1>5, <2>1, Zenon
  <2>3. k \in 0..ring[th[p].rq].head - 1 /\ ~(Cell(p).idx > k)
    BY <1>4, <2>1, <2>2
  <2>4. Cell(p) = ring[th[p].rq].array[k % RING_SIZE]
    BY <1>8 DEF Cell
  <2>5. Hunted(th[p].rq, k) \/ Cell(p).idx > k \/ Cell(p).unsafe
    BY <1>4, <2>3, <2>4, Zenon DEF TInv, Passed
  <2> QED BY <2>2, <2>3, <2>5, Zenon
<1> QED BY <1>1, <1>2, <1>3, <1>7, <1>8, CalmTickets

LEMMA ExamineTickets ==
  ASSUME IInv, TInv, NEW p \in Thread, Examine(p)
  PROVE  TInv'
<1>1. th[p].pc = "dval" /\ th[p].pc \notin NoRing /\ th[p].pc \in Reading
  BY DEF Examine, NoRing, Reading, Hunting
<1>2. /\ SameTurn(th'[p], th[p])
      /\ th'[p].idx = th[p].idx /\ th'[p].unsafe = th[p].unsafe /\ th'[p].val = Cell(p).val
      /\ th'[p].pc \in {"check", "take", "mark", "wait"}
      /\ th'[p].pc = "check" => th[p].idx > th[p].n
      /\ th'[p].pc = "take" => Cell(p).val # Empty /\ th[p].idx = th[p].n
      /\ th'[p].pc = "mark" => Cell(p).val # Empty /\ th[p].idx < th[p].n
      /\ th'[p].pc = "wait" => Cell(p).val = Empty /\ th[p].idx <= th[p].n
  BY ReadValFields
<1>3. Calm(p)
  BY PlainReads DEF Plain
<1>4. /\ Cell(p)' = Cell(p) /\ Sound(th[p], Cell(p))
      /\ Cell(p).idx \in Nat /\ th[p].idx \in Nat /\ th[p].n \in Nat
  BY <1>1, <1>2, <1>3, OwnCell
<1>5. th[p].idx <= Cell(p).idx
  BY <1>1, <1>4, Zenon DEF Sound
<1>6. th'[p].n = th[p].n
  BY <1>2 DEF SameTurn
<1>7. Sound(th'[p], Cell(p)')
  <2>1. /\ th'[p].pc = "take" => th'[p].val # Empty /\ th'[p].idx = th'[p].n
        /\ th'[p].pc = "mark" => th'[p].val # Empty /\ th'[p].idx < th'[p].n
        /\ th'[p].pc = "wait" => th'[p].val = Empty /\ th'[p].idx <= th'[p].n
        /\ th'[p].idx <= Cell(p)'.idx
    BY <1>2, <1>4, <1>5, <1>6
  <2>2. th'[p].pc \notin {"safe", "put", "advance"} \cup Asking
    BY <1>2 DEF Asking
  <2> QED BY <2>1, <2>2, Zenon DEF Sound
<1>8. ~Free(p)'
  BY <1>2 DEF Free
<1>9. th'[p].pc \in Hunting \/ Cell(p).idx > th[p].n
  <2>1. th[p].idx > th[p].n => Cell(p).idx > th[p].n
    BY <1>4, <1>5
  <2> QED BY <1>2, <2>1 DEF Hunting
<1> QED BY <1>2, <1>3, <1>7, <1>8, <1>9, CalmTickets

LEMMA WaitTickets ==
  ASSUME IInv, TInv, NEW p \in Thread, Wait(p)
  PROVE  TInv'
<1>1. th[p].pc = "wait" /\ th[p].pc \notin NoRing /\ th[p].pc \in Reading
  BY DEF Wait, NoRing, Reading, Hunting
<1>2. /\ SameTurn(th'[p], th[p]) /\ SameView(th'[p], th[p]) /\ th'[p].pc \in {"advance", "didx"}
  BY WaitFields
<1>3. Calm(p)
  BY PlainReads DEF Plain
<1>4. Cell(p)' = Cell(p) /\ Sound(th[p], Cell(p))
  BY <1>1, <1>2, <1>3, OwnCell
<1>5. Sound(th'[p], Cell(p)')
  <2>1. th[p].val = Empty /\ th[p].idx <= th[p].n /\ th[p].idx <= Cell(p).idx
    BY <1>1, <1>4, Zenon DEF Sound
  <2>2. th'[p].val = Empty /\ th'[p].idx <= th'[p].n /\ th'[p].idx <= Cell(p)'.idx
    BY <1>2, <1>4, <2>1, Zenon DEF SameTurn, SameView
  <2>3. th'[p].pc \notin {"safe", "put", "take", "mark"} \cup Asking
    BY <1>2 DEF Asking
  <2> QED BY <2>2, <2>3, Zenon DEF Sound
<1>6. ~Free(p)' /\ th'[p].pc \in Hunting
  BY <1>2 DEF Free, Hunting
<1> QED BY <1>2, <1>3, <1>5, <1>6, CalmTickets

(* The compare-and-swaps that fail, and the look at the head.              *)
LEMMA FailureTickets ==
  ASSUME IInv, TInv, NEW p \in Thread, UNCHANGED ring,
         CheckHead(p) \/ (Put(p) /\ ~Unmoved(p)) \/ (Take(p) /\ ~Unmoved(p))
           \/ (MarkUnsafe(p) /\ ~Unmoved(p)) \/ (Advance(p) /\ ~Unmoved(p))
  PROVE  TInv'
<1>1. /\ Plain(p) /\ SameTurn(th'[p], th[p]) /\ SameView(th'[p], th[p])
      /\ th[p].pc \in {"safe", "put"} => th'[p].pc \in {"put", "full"}
      /\ th[p].pc \in {"take", "mark", "advance"} => th'[p].pc = "didx"
      /\ th[p].pc \in {"safe", "put", "take", "mark", "advance"}
      /\ th'[p].pc = "put" => th[p].pc = "safe" /\ ring[th[p].rq].head < th[p].n
  BY PlainFailures
<1>2. Calm(p) /\ th[p].pc \notin NoRing
  BY <1>1 DEF Plain, NoRing
<1>3. /\ Cell(p)' = Cell(p) /\ Sound(th[p], Cell(p)) /\ th[p].n \in Nat
      /\ ring[th[p].rq].head \in Nat
  BY <1>1, <1>2, OwnCell
<1>4. CASE th'[p].pc = "put"
  <2>1. th[p].pc = "safe" /\ ring[th[p].rq].head < th[p].n /\ th[p].pc \notin Hunting
    BY <1>1, <1>4 DEF Hunting
  <2>2. /\ th[p].val = Empty /\ th[p].idx <= th[p].n /\ th[p].idx <= Cell(p).idx
        /\ (Cell(p).idx = th[p].idx /\ Cell(p).val = Empty => Cell(p).unsafe = th[p].unsafe)
    BY <1>3, <2>1, Zenon DEF Sound, Reading, Asking
  <2>3. /\ th'[p].val = Empty /\ th'[p].idx <= th'[p].n /\ th'[p].idx <= Cell(p)'.idx
        /\ (Cell(p)'.idx = th'[p].idx /\ Cell(p)'.val = Empty => Cell(p)'.unsafe = th'[p].unsafe)
    BY <1>1, <1>3, <2>2, Zenon DEF SameTurn, SameView
  <2>4. Sound(th'[p], Cell(p)')
    BY <1>4, <2>3, Zenon DEF Sound
  <2>5. \A k \in th[p].n .. ring[th[p].rq].head - 1 : FALSE
    BY <1>3, <2>1
  <2>6. th[p].pc \in Asking
    BY <2>1 DEF Asking
  <2> QED BY <1>1, <1>2, <2>1, <2>4, <2>5, <2>6, CalmTickets
<1>5. CASE th'[p].pc # "put"
  <2>1. th'[p].pc \notin Reading /\ ~Free(p)'
    BY <1>1, <1>5 DEF Reading, Asking, Hunting, Free
  <2>2. th[p].pc \in Hunting => th'[p].pc \in Hunting
    BY <1>1 DEF Hunting
  <2> QED BY <1>1, <1>2, <2>1, <2>2, CalmTickets
<1> QED BY <1>4, <1>5

-----------------------------------------------------------------------------
(* The second invariant and the compare-and-swaps that succeed.            *)

(* p's cell becomes x, and nothing else in the rings changes.              *)
Strikes(p, x) ==
  /\ Alone(p) /\ Live' = Live
  /\ \A q \in Ring : /\ ring'[q].next = ring[q].next /\ ring'[q].head = ring[q].head
                     /\ ring'[q].tail = ring[q].tail
  /\ ring'[th[p].rq].array[Slot(p)] = x
  /\ \A q \in Ring, c \in Cells : q # th[p].rq \/ c # Slot(p) =>
       ring'[q].array[c] = ring[q].array[c]

LEMMA StrikeStep ==
  ASSUME IInv, NEW p \in Thread, th[p].pc \notin NoRing, NEW x \in CellRec, SetCell(p, x),
         x.idx % RING_SIZE = Slot(p), Alone(p), th'[p].nrq = th[p].nrq,
         th[p].pc # "publish", th'[p].pc # "publish", used' = used
  PROVE  Strikes(p, x)
<1>1. Live' = Live
  BY LiveKept DEF Moves, Alone
<1>2. /\ th[p].rq \in Ring /\ ring \in [Ring -> RingRec] /\ ring[th[p].rq] \in RingRec
      /\ Slot(p) \in Cells
  BY Here DEF IInv, Shapes
<1>3. \A q \in Ring : ring'[q].head = ring[q].head /\ ring'[q].tail = ring[q].tail
  <2>1. PICK k : k = th[p].rq
    OBVIOUS
  <2>2. PICK s : s = Slot(p)
    OBVIOUS
  <2>3. PICK y : y = [ring[k] EXCEPT !.array = [ring[k].array EXCEPT ![s] = x]]
    OBVIOUS
  <2>4. ring' = [ring EXCEPT ![k] = y] /\ k \in Ring /\ ring[k] \in RingRec
    BY <1>2, <2>1, <2>2, <2>3 DEF SetCell
  <2>5. y.head = ring[k].head /\ y.tail = ring[k].tail
    BY <2>3, <2>4 DEF RingRec
  <2> QED BY <1>2, <2>4, <2>5
<1>4. /\ \A q \in Ring : ring'[q].next = ring[q].next
      /\ ring'[th[p].rq].array[Slot(p)] = x
      /\ \A q \in Ring, c \in Cells : q # th[p].rq \/ c # Slot(p) =>
           ring'[q].array[c] = ring[q].array[c]
  BY CellSet
<1> QED BY <1>1, <1>3, <1>4 DEF Strikes

(* The ticket invariants after p's compare-and-swap, if the new cell says  *)
(* enough: its index does not go back, and it tells of every ticket that   *)
(* nobody else holds.                                                      *)
LEMMA StrikeTickets ==
  ASSUME IInv, TInv, NEW p \in Thread, th[p].pc \notin NoRing, NEW x \in CellRec, Strikes(p, x),
         th'[p].pc \notin Reading \cup Hunting,
         x.idx >= Cell(p).idx, x.val # Empty \/ x.idx > Cell(p).idx,
         \A k \in 0..ring[th[p].rq].head - 1 : k % RING_SIZE = Slot(p) =>
           \/ \E o \in Thread \ {p} : Hunts(o, th[p].rq, k)
           \/ x.idx > k \/ x.unsafe,
         x.val # Empty =>
           \/ x.idx >= ring[th[p].rq].head
           \/ \E o \in Thread \ {p} : Hunts(o, th[p].rq, x.idx)
  PROVE  Sounds' /\ Clear' /\ Passed' /\ Ahead' /\ Chain'
<1>1. /\ \A o \in Thread \ {p} : th'[o] = th[o]
      /\ Live' = Live /\ Live \subseteq Ring
  BY RingsAreNumbers DEF Strikes, Alone, Live, IInv, Shapes
<1>2. PICK k : k = th[p].rq
  OBVIOUS
<1>3. PICK s : s = Slot(p)
  OBVIOUS
<1>4. /\ \A q \in Ring : ring'[q].next = ring[q].next /\ ring'[q].head = ring[q].head
      /\ ring'[k].array[s] = x /\ Cell(p) = ring[k].array[s]
      /\ \A q \in Ring, c \in Cells : q # k \/ c # s => ring'[q].array[c] = ring[q].array[c]
  BY <1>2, <1>3 DEF Strikes, Cell
<1>5. /\ k \in Live /\ k \in Ring /\ s \in Cells /\ x.idx \in Nat /\ Cell(p).idx \in Nat
      /\ th[p].n % RING_SIZE = s /\ ring[k].head \in Nat
  BY <1>2, <1>3, Here, RingNumbers DEF CellRec, Slot
<1>6. ASSUME NEW q, NEW i, NEW o \in Thread \ {p}, Hunts(o, q, i)
      PROVE  Hunted(q, i)'
  <2>1. Hunts(o, q, i)'
    BY <1>1, <1>6 DEF Hunts
  <2> QED BY <2>1 DEF Hunted
<1>7. ASSUME NEW q, NEW i, Hunted(q, i), q # k \/ i % RING_SIZE # s
      PROVE  Hunted(q, i)'
  <2>1. PICK o \in Thread : Hunts(o, q, i)
    BY <1>7 DEF Hunted
  <2>2. o # p
    BY <1>2, <1>5, <1>7, <2>1 DEF Hunts
  <2> QED BY <1>6, <2>1, <2>2
<1>8. ASSUME NEW o \in Thread \ {p}, th[o].pc \notin NoRing
      PROVE  /\ Slot(o)' = Slot(o) /\ Slot(o) \in Cells /\ th[o].rq \in Live /\ th[o].n \in Nat
             /\ Cell(o).idx \in Nat /\ th[o].idx \in Nat
             /\ \/ th[o].rq = k /\ Slot(o) = s /\ Cell(o) = Cell(p) /\ Cell(o)' = x
                \/ (th[o].rq # k \/ Slot(o) # s) /\ Cell(o)' = Cell(o)
  <2>1. /\ th[o] \in Locals /\ th[o].rq \in Live /\ th[o].rq \in Ring /\ th[o].n \in Nat
        /\ Slot(o) \in Cells /\ Cell(o) \in CellRec
    BY <1>8, Here
  <2>2. th'[o] = th[o]
    BY <1>1
  <2>3. Slot(o)' = Slot(o) /\ Cell(o)' = ring'[th[o].rq].array[Slot(o)]
    BY <2>2 DEF Slot, Cell
  <2>4. Cell(o).idx \in Nat /\ th[o].idx \in Nat
    BY <2>1 DEF CellRec, Locals
  <2> QED BY <1>4, <2>1, <2>3, <2>4 DEF Cell
<1>9. Sounds'
  <2>1. ASSUME NEW o \in Thread
        PROVE  Sound(th'[o], Cell(o)')
    <3>1. CASE th'[o].pc \notin Reading
      BY <3>1 DEF Sound, Reading, Asking, Hunting
    <3>2. CASE th'[o].pc \in Reading
      <4>1. o # p
        BY <3>2
      <4>2. th'[o] = th[o] /\ th[o].pc \in Reading /\ th[o].pc \notin NoRing
        BY <1>1, <3>2, <4>1 DEF Reading, Asking, Hunting, NoRing
      <4>3. Sound(th[o], Cell(o))
        BY DEF TInv, Sounds
      <4>4. CASE Cell(o)' = Cell(o)
        BY <4>2, <4>3, <4>4
      <4>5. CASE Cell(o) = Cell(p) /\ Cell(o)' = x
        <5>1. th[o].idx <= Cell(p).idx
          BY <4>2, <4>3, <4>5, Zenon DEF Sound
        <5>2. th[o].idx \in Nat
          BY <1>8, <4>1, <4>2
        <5>3. th[o].idx <= x.idx /\ (x.val = Empty => x.idx # th[o].idx)
          BY <1>5, <5>1, <5>2
        <5> QED BY <4>2, <4>3, <4>5, <5>3, Zenon DEF Sound
      <4> QED BY <1>8, <4>1, <4>2, <4>4, <4>5
    <3> QED BY <3>1, <3>2
  <2> QED BY <2>1 DEF Sounds
<1>10. Passed'
  <2>1. ASSUME NEW q \in Live, NEW i \in 0..ring[q].head - 1
        PROVE  \/ Hunted(q, i)' \/ ring'[q].array[i % RING_SIZE].idx > i
               \/ ring'[q].array[i % RING_SIZE].unsafe
    <3>1. i % RING_SIZE \in Cells
      BY <1>1, RingNumbers
    <3>2. CASE q = k /\ i % RING_SIZE = s
      <4>1. \/ \E o \in Thread \ {p} : Hunts(o, k, i)
            \/ x.idx > i \/ x.unsafe
        BY <1>2, <1>3, <3>2
      <4> QED BY <1>4, <1>6, <3>2, <4>1
    <3>3. CASE q # k \/ i % RING_SIZE # s
      <4>1. \/ Hunted(q, i) \/ ring[q].array[i % RING_SIZE].idx > i
            \/ ring[q].array[i % RING_SIZE].unsafe
        BY DEF TInv, Passed
      <4>2. ring'[q].array[i % RING_SIZE] = ring[q].array[i % RING_SIZE]
        BY <1>1, <1>4, <3>1, <3>3
      <4> QED BY <1>7, <3>3, <4>1, <4>2
    <3> QED BY <3>2, <3>3
  <2> QED BY <1>1, <1>4, <2>1 DEF Passed
<1>11. Ahead'
  <2>1. ASSUME NEW q \in Live, NEW c \in Cells, NEW i, i = ring'[q].array[c].idx,
               ring'[q].array[c].val # Empty
        PROVE  i >= ring[q].head \/ Hunted(q, i)'
    <3>1. CASE q = k /\ c = s
      <4>1. i = x.idx /\ x.val # Empty
        BY <1>4, <2>1, <3>1
      <4>2. i >= ring[k].head \/ \E o \in Thread \ {p} : Hunts(o, k, i)
        BY <1>2, <4>1
      <4> QED BY <1>6, <3>1, <4>2
    <3>2. CASE q # k \/ c # s
      <4>1. ring[q].array[c] = ring'[q].array[c] /\ i = ring[q].array[c].idx
        BY <1>1, <1>4, <2>1, <3>2
      <4>2. i >= ring[q].head \/ Hunted(q, i)
        BY <2>1, <4>1 DEF TInv, Ahead
      <4>3. i % RING_SIZE = c
        BY <1>1, <4>1 DEF IInv, Congruent
      <4> QED BY <1>7, <3>2, <4>2, <4>3
    <3> QED BY <3>1, <3>2
  <2>2. \A q \in Live : ring'[q].head = ring[q].head
    BY <1>1, <1>4
  <2> QED BY <1>1, <2>1, <2>2 DEF Ahead
<1>12. Clear'
  <2>1. ASSUME NEW o \in Thread, Free(o)', NEW i \in th'[o].n .. ring'[th'[o].rq].head - 1,
               i % RING_SIZE = Slot(o)', NEW r, r = th'[o].rq
        PROVE  Hunted(r, i)'
    <3>1. o # p /\ th'[o] = th[o] /\ th[o].pc = "put"
      BY <1>1, <2>1 DEF Free, Reading, Asking
    <3>2. th[o].pc \notin NoRing
      BY <3>1 DEF NoRing
    <3>3. /\ Slot(o)' = Slot(o) /\ th[o].rq \in Live /\ th[o].rq = r /\ th[o].n \in Nat
          /\ th[o].idx \in Nat
      BY <1>8, <2>1, <3>1, <3>2
    <3>4. CASE Cell(o)' = Cell(o) /\ (r # k \/ Slot(o) # s)
      <4>1. Free(o)
        BY <2>1, <3>1, <3>4 DEF Free
      <4>2. i \in th[o].n .. ring[r].head - 1 /\ i % RING_SIZE = Slot(o)
        BY <1>1, <1>4, <2>1, <3>1, <3>3
      <4>3. Hunted(r, i)
        BY <3>3, <4>1, <4>2 DEF TInv, Clear
      <4> QED BY <1>7, <3>4, <4>2, <4>3
    <3>5. CASE Cell(o) = Cell(p) /\ Cell(o)' = x
      <4>1. x.idx = th[o].idx /\ x.val = Empty
        BY <2>1, <3>1, <3>5 DEF Free
      <4>2. th[o].idx <= Cell(p).idx
        <5>1. Sound(th[o], Cell(o))
          BY DEF TInv, Sounds
        <5> QED BY <3>1, <3>5, <5>1, Zenon DEF Sound, Reading, Asking
      <4> QED BY <1>5, <3>3, <4>1, <4>2
    <3> QED BY <1>8, <3>1, <3>2, <3>3, <3>4, <3>5
  <2> QED BY <2>1 DEF Clear
<1>13. Chain'
  <2>1. \A q : Onward(q)' = Onward(q)
    BY <1>4, OnwardKept
  <2> QED BY <1>1, <1>4, <2>1 DEF TInv, Chain
<1> QED BY <1>9, <1>10, <1>11, <1>12, <1>13

(* A compare-and-swap that succeeds found what was read.                   *)
LEMMA UnmovedFields ==
  ASSUME NEW p \in Thread, Unmoved(p)
  PROVE  Cell(p).val = th[p].val /\ Cell(p).idx = th[p].idx /\ Cell(p).unsafe = th[p].unsafe
<1>1. Cell(p) = [val |-> th[p].val, idx |-> th[p].idx, unsafe |-> th[p].unsafe]
  BY DEF Unmoved
<1>2. Cell(p).val = th[p].val /\ Cell(p).idx = th[p].idx
  BY <1>1
<1>3. Cell(p).unsafe = th[p].unsafe
  <2>1. [val |-> th[p].val, idx |-> th[p].idx, unsafe |-> th[p].unsafe].unsafe = th[p].unsafe
    BY Zenon
  <2> QED BY <1>1, <2>1, Zenon
<1> QED BY <1>2, <1>3, Zenon

(* What is enqueued is a value, and not the mark of an empty cell.         *)
LEMMA EnqueuedValues ==
  ASSUME IInv
  PROVE  Enqueued \subseteq Values /\ Empty \notin Enqueued
<1>1. ASSUME NEW o \in Thread, th[o].pc = "publish"
      PROVE  th[o].arg \in Values
  <2>1. th[o].arg = <<o, ops[o]>> /\ ops[o] \in 1..MaxOps
    BY <1>1, RingsAreNumbers DEF IInv, Arguments, Shapes, Enq
  <2> QED BY <2>1 DEF Values
<1>2. Enqueued \subseteq Values
  BY <1>1 DEF Enqueued, IInv, Shapes
<1> QED BY <1>2, ValueAssumption

(* An item is put into p's cell.                                           *)
LEMMA PutStrikes ==
  ASSUME IInv, NEW p \in Thread, Put(p), Unmoved(p)
  PROVE  \E x \in CellRec :
           /\ x.val = th[p].arg /\ x.idx = th[p].n /\ Strikes(p, x)
           /\ th[p].pc = "put" /\ th'[p].pc = "idle" /\ th'[p].seen = {} /\ th'[p].older = {}
           /\ done' = done \cup {th[p].arg} /\ Enqueued' = Enqueued \cup {th[p].arg}
           /\ th[p].arg \in Values /\ th[p].arg \notin Enqueued
           /\ UNCHANGED <<head, tail, taken, prec>>
<1> DEFINE x == [val |-> th[p].arg, idx |-> th[p].n, unsafe |-> FALSE]
           v == th[p].arg
<1>1. /\ th[p].pc = "put" /\ SetCell(p, x) /\ done' = done \cup {v} /\ Return(p)
      /\ UNCHANGED <<used, head, tail, taken, prec>>
  BY DEF Put
<1>2. th[p].n \in Nat /\ v \in Values /\ v \notin Enqueued /\ th[p].pc \notin NoRing
  BY <1>1, Here, FreshArgument DEF NoRing, Enq
<1>3. x \in CellRec /\ x.idx % RING_SIZE = Slot(p) /\ x.val = v /\ x.idx = th[p].n
  BY <1>2 DEF CellRec, Slot
<1>4. /\ Alone(p) /\ th'[p].pc = "idle" /\ th'[p].nrq = th[p].nrq
      /\ th'[p].older = {} /\ th'[p].seen = {}
  BY <1>1, ReturnFields
<1>5. Strikes(p, x)
  <2> HIDE DEF x
  <2> QED BY <1>1, <1>2, <1>3, <1>4, StrikeStep
<1>6. Enqueued' = Enqueued \cup {v}
  <2>1. \A o \in Thread : th'[o].pc = "publish" => th[o].pc = "publish" /\ th'[o] = th[o]
    BY <1>4 DEF Alone
  <2>2. \A o \in Thread : th[o].pc = "publish" => th'[o].pc = "publish" /\ th'[o] = th[o]
    BY <1>1, <1>4 DEF Alone
  <2> QED BY <1>1, <2>1, <2>2 DEF Enqueued
<1> HIDE DEF x
<1> QED BY <1>1, <1>2, <1>3, <1>4, <1>5, <1>6

LEMMA PutTickets ==
  ASSUME IInv, TInv, NEW p \in Thread, Put(p), Unmoved(p)
  PROVE  TInv'
<1>1. PICK x \in CellRec :
        /\ x.val = th[p].arg /\ x.idx = th[p].n /\ Strikes(p, x)
        /\ th[p].pc = "put" /\ th'[p].pc = "idle"
        /\ Enqueued' = Enqueued \cup {th[p].arg} /\ th[p].arg \in Values /\ UNCHANGED taken
  BY PutStrikes
<1>2. /\ th[p].pc \notin NoRing /\ th[p].rq \in Live /\ th[p].rq \in Ring /\ Slot(p) \in Cells
      /\ th[p].n \in Nat /\ ring[th[p].rq].head \in Nat /\ th[p].n % RING_SIZE = Slot(p)
  BY <1>1, Here, RingNumbers DEF NoRing, Slot
<1>3. Cell(p).val = Empty /\ Cell(p).idx = th[p].idx /\ th[p].idx <= th[p].n
  <2>1. Sound(th[p], Cell(p)) /\ Cell(p).val = th[p].val /\ Cell(p).idx = th[p].idx
    BY UnmovedFields DEF TInv, Sounds
  <2> QED BY <1>1, <2>1, Zenon DEF Sound
<1>4. x.val # Empty /\ th'[p].pc \notin Reading \cup Hunting
  BY <1>1, ValueAssumption DEF Reading, Asking, Hunting
<1>5. \A k \in th[p].n .. ring[th[p].rq].head - 1 : k % RING_SIZE = Slot(p) =>
        \E o \in Thread \ {p} : Hunts(o, th[p].rq, k)
  <2>1. Free(p)
    BY <1>1, <1>3 DEF Free
  <2>2. ASSUME NEW k \in th[p].n .. ring[th[p].rq].head - 1, k % RING_SIZE = Slot(p)
        PROVE  \E o \in Thread \ {p} : Hunts(o, th[p].rq, k)
    <3>1. Hunted(th[p].rq, k)
      BY <2>1, <2>2 DEF TInv, Clear
    <3>2. ~Hunts(p, th[p].rq, k)
      BY <1>1 DEF Hunts
    <3> QED BY <3>1, <3>2 DEF Hunted
  <2> QED BY <2>2
<1>6. \A k \in 0..ring[th[p].rq].head - 1 : k % RING_SIZE = Slot(p) =>
        (\E o \in Thread \ {p} : Hunts(o, th[p].rq, k)) \/ x.idx > k
  <2>1. \A k \in 0..ring[th[p].rq].head - 1 :
          k \in th[p].n .. ring[th[p].rq].head - 1 \/ x.idx > k
    BY <1>1, <1>2
  <2> QED BY <1>5, <2>1
<1>7. x.idx >= ring[th[p].rq].head \/ \E o \in Thread \ {p} : Hunts(o, th[p].rq, x.idx)
  <2>1. x.idx >= ring[th[p].rq].head \/ x.idx \in th[p].n .. ring[th[p].rq].head - 1
    BY <1>1, <1>2
  <2> QED BY <1>1, <1>2, <1>5, <2>1
<1>8. Sounds' /\ Clear' /\ Passed' /\ Ahead' /\ Chain'
  <2>1. x.idx >= Cell(p).idx
    <3>1. Cell(p).idx \in Nat
      BY <1>2, Here DEF CellRec
    <3> QED BY <1>1, <1>2, <1>3, <3>1
  <2> QED BY <1>1, <1>2, <1>4, <1>6, <1>7, <2>1, StrikeTickets
<1>9. Stored'
  <2>1. Live' = Live /\ Live \subseteq Ring
    BY <1>1, RingsAreNumbers DEF Strikes, Live, IInv, Shapes
  <2>2. ASSUME NEW v \in Enqueued', v \notin ToSet(taken)
        PROVE  \E q \in Live, c \in Cells : ring'[q].array[c].val = v
    <3>1. CASE v = th[p].arg
      BY <1>1, <1>2, <3>1 DEF Strikes
    <3>2. CASE v \in Enqueued
      <4>1. PICK q \in Live, c \in Cells : ring[q].array[c].val = v
        BY <2>2, <3>2 DEF TInv, Stored
      <4>2. v # Empty
        BY <3>2, EnqueuedValues
      <4>3. q # th[p].rq \/ c # Slot(p)
        BY <1>3, <4>1, <4>2 DEF Cell
      <4>4. ring'[q].array[c] = ring[q].array[c]
        BY <1>1, <2>1, <4>3 DEF Strikes
      <4> QED BY <4>1, <4>4
    <3> QED BY <1>1, <2>2, <3>1, <3>2
  <2>3. ToSet(taken)' = ToSet(taken)
    BY <1>1 DEF ToSet
  <2> QED BY <2>1, <2>2, <2>3 DEF Stored
<1> QED BY <1>8, <1>9 DEF TInv

(* An item is taken from p's cell.                                         *)
LEMMA TakeStrikes ==
  ASSUME IInv, NEW p \in Thread, Take(p), Unmoved(p)
  PROVE  \E x \in CellRec :
           /\ x.val = Empty /\ x.idx = th[p].n + RING_SIZE /\ x.unsafe = th[p].unsafe
           /\ Strikes(p, x)
           /\ th[p].pc = "take" /\ th'[p].pc = "idle" /\ th'[p].seen = {} /\ th'[p].older = {}
           /\ Enqueued' = Enqueued /\ ToSet(taken)' = ToSet(taken) \cup {th[p].val}
           /\ UNCHANGED <<head, tail, done, prec>>
<1> DEFINE x == [val |-> Empty, idx |-> th[p].n + RING_SIZE, unsafe |-> th[p].unsafe]
<1>1. /\ th[p].pc = "take" /\ SetCell(p, x) /\ taken' = Append(taken, th[p].val) /\ Return(p)
      /\ UNCHANGED <<used, head, tail, done, prec>>
  BY DEF Take
<1>2. th[p] \in Locals /\ th[p].n \in Nat /\ th[p].pc \notin NoRing
  BY <1>1, Here DEF NoRing
<1>3. x \in CellRec /\ x.idx % RING_SIZE = Slot(p)
  <2>1. (th[p].n + RING_SIZE) % RING_SIZE = Slot(p)
    BY <1>2, RingsAreNumbers, NextRound DEF Slot
  <2>2. th[p].n + RING_SIZE \in Nat
    BY <1>2, RingsAreNumbers
  <2>3. th[p].unsafe \in BOOLEAN
    BY <1>2, Zenon DEF Locals
  <2> QED BY <2>1, <2>2, <2>3 DEF CellRec
<1>4. x.val = Empty /\ x.idx = th[p].n + RING_SIZE /\ x.unsafe = th[p].unsafe
  BY Zenon
<1>5. /\ Alone(p) /\ th'[p].pc = "idle" /\ th'[p].nrq = th[p].nrq
      /\ th'[p].older = {} /\ th'[p].seen = {}
  BY <1>1, ReturnFields
<1>6. Strikes(p, x)
  <2> HIDE DEF x
  <2> QED BY <1>1, <1>2, <1>3, <1>5, StrikeStep
<1>7. Enqueued' = Enqueued
  BY <1>1, <1>5, EnqueuedKept DEF Moves, Alone
<1>8. ToSet(taken)' = ToSet(taken) \cup {th[p].val}
  <2>1. th[p].val \in Values
    BY <1>1, <1>2 DEF IInv, Found, Locals
  <2>2. taken \in Seq(Values) /\ ToSet(taken)' = ToSet(Append(taken, th[p].val))
    BY <1>1 DEF IInv, Shapes, ToSet
  <2> QED BY <2>1, <2>2, Appended
<1> HIDE DEF x
<1> QED BY <1>1, <1>3, <1>4, <1>5, <1>6, <1>7, <1>8, Zenon

(* When p moves its cell on to the next round, it tells of p's ticket and  *)
(* of all that the cell told of before.                                    *)
LEMMA MovedOn ==
  ASSUME IInv, TInv, NEW p \in Thread, th[p].pc \notin NoRing, NEW x \in CellRec,
         x.idx = th[p].n + RING_SIZE, x.unsafe = Cell(p).unsafe, Cell(p).idx <= th[p].n
  PROVE  /\ x.idx > Cell(p).idx /\ x.idx >= Cell(p).idx
         /\ \A k \in 0..ring[th[p].rq].head - 1 : k % RING_SIZE = Slot(p) =>
              \/ \E o \in Thread \ {p} : Hunts(o, th[p].rq, k)
              \/ x.idx > k \/ x.unsafe
<1>1. /\ th[p].rq \in Live /\ th[p].rq \in Ring /\ th[p].n \in Nat /\ Cell(p).idx \in Nat
      /\ RING_SIZE \in Nat \ {0} /\ ring[th[p].rq].head \in Nat
  BY Here, RingNumbers, RingsAreNumbers DEF CellRec
<1>2. x.idx > Cell(p).idx /\ x.idx >= Cell(p).idx /\ x.idx > th[p].n /\ x.idx \in Nat
  BY <1>1
<1>3. ASSUME NEW k \in 0..ring[th[p].rq].head - 1, k % RING_SIZE = Slot(p)
      PROVE  (\E o \in Thread \ {p} : Hunts(o, th[p].rq, k)) \/ x.idx > k \/ x.unsafe
  <2>1. Hunted(th[p].rq, k) \/ Cell(p).idx > k \/ Cell(p).unsafe
    BY <1>1, <1>3, Zenon DEF TInv, Passed, Cell
  <2>2. Hunts(p, th[p].rq, k) => th[p].n = k
    BY DEF Hunts
  <2>3. Hunted(th[p].rq, k) => (\E o \in Thread \ {p} : Hunts(o, th[p].rq, k)) \/ x.idx > k
    BY <1>2, <2>2 DEF Hunted
  <2>4. Cell(p).idx > k => x.idx > k
    BY <1>1, <1>2
  <2> QED BY <2>1, <2>3, <2>4, Zenon
<1> QED BY <1>2, <1>3, Zenon

LEMMA TakeTickets ==
  ASSUME IInv, TInv, NEW p \in Thread, Take(p), Unmoved(p)
  PROVE  TInv'
<1>1. PICK x \in CellRec :
        /\ x.val = Empty /\ x.idx = th[p].n + RING_SIZE /\ x.unsafe = th[p].unsafe
        /\ Strikes(p, x) /\ th[p].pc = "take" /\ th'[p].pc = "idle"
        /\ Enqueued' = Enqueued /\ ToSet(taken)' = ToSet(taken) \cup {th[p].val}
  BY TakeStrikes
<1>2. th[p].pc \notin NoRing /\ th'[p].pc \notin Reading \cup Hunting
  BY <1>1 DEF NoRing, Reading, Asking, Hunting
<1>3. /\ Cell(p).val = th[p].val /\ Cell(p).idx = th[p].idx /\ Cell(p).unsafe = th[p].unsafe
      /\ th[p].idx = th[p].n /\ th[p].n \in Nat
  <2>1. Sound(th[p], Cell(p))
    BY DEF TInv, Sounds
  <2>2. th[p].idx = th[p].n
    BY <1>1, <2>1, Zenon DEF Sound
  <2> QED BY <1>2, <2>2, UnmovedFields, Here
<1>4. Cell(p).idx <= th[p].n /\ x.unsafe = Cell(p).unsafe
  <2>1. Cell(p).idx <= th[p].n
    BY <1>3
  <2> QED BY <1>1, <1>3, <2>1, Zenon
<1>5. Sounds' /\ Clear' /\ Passed' /\ Ahead' /\ Chain'
  BY <1>1, <1>2, <1>4, MovedOn, StrikeTickets
<1>6. Stored'
  <2>1. Live' = Live /\ Live \subseteq Ring
    BY <1>1, RingsAreNumbers DEF Strikes, Live, IInv, Shapes
  <2>2. ASSUME NEW v \in Enqueued, v \notin ToSet(taken)'
        PROVE  \E q \in Live, c \in Cells : ring'[q].array[c].val = v
    <3>1. PICK q \in Live, c \in Cells : ring[q].array[c].val = v
      BY <1>1, <2>2 DEF TInv, Stored
    <3>2. q # th[p].rq \/ c # Slot(p)
      BY <1>1, <1>3, <2>2, <3>1 DEF Cell
    <3>3. ring'[q].array[c] = ring[q].array[c]
      BY <1>1, <2>1, <3>2 DEF Strikes
    <3> QED BY <3>1, <3>3
  <2> QED BY <1>1, <2>1, <2>2 DEF Stored
<1> QED BY <1>5, <1>6 DEF TInv

(* A compare-and-swap that leaves the value: the cell is marked unsafe, or *)
(* moved on to the next round.                                             *)
LEMMA MarkStrikes ==
  ASSUME IInv, NEW p \in Thread, MarkUnsafe(p) \/ Advance(p), Unmoved(p)
  PROVE  \E x \in CellRec :
           /\ x.val = Cell(p).val /\ Strikes(p, x)
           /\ MarkUnsafe(p) => x.idx = Cell(p).idx /\ x.unsafe = TRUE /\ th[p].pc = "mark"
           /\ Advance(p) => /\ x.idx = th[p].n + RING_SIZE /\ x.unsafe = Cell(p).unsafe
                            /\ th[p].pc = "advance"
           /\ th[p].pc \in {"mark", "advance"} /\ th'[p].pc = "check" /\ SameTurn(th'[p], th[p])
           /\ Enqueued' = Enqueued /\ UNCHANGED <<head, tail, done, taken, prec>>
<1>1. /\ th[p].pc \in {"mark", "advance"} /\ Go(p, "check", th[p])
      /\ UNCHANGED <<used, head, tail, done, taken, prec>>
  BY DEF MarkUnsafe, Advance, hist
<1>2. th[p] \in Locals /\ th \in [Thread -> Locals] /\ th[p].n \in Nat /\ Cell(p) \in CellRec
      /\ th[p].pc \notin NoRing /\ Slot(p) \in Cells /\ th[p].rq \in Ring
  BY <1>1, Here DEF NoRing, IInv, Shapes
<1>3. Alone(p) /\ th'[p].pc = "check" /\ SameTurn(th'[p], th[p])
  BY <1>1, <1>2, GoFields DEF Pcs
<1>4. Enqueued' = Enqueued
  BY <1>1, <1>3, EnqueuedKept DEF Moves, Alone, SameTurn
<1>5. PICK y : y = Cell(p)
  OBVIOUS
<1>6. CASE MarkUnsafe(p)
  <2>1. PICK x : x = [y EXCEPT !.unsafe = TRUE]
    OBVIOUS
  <2>2. SetCell(p, x) /\ th[p].pc = "mark" /\ ~Advance(p)
    BY <1>5, <1>6, <2>1 DEF MarkUnsafe, Advance
  <2>3. x \in CellRec /\ x.val = y.val /\ x.idx = y.idx
    BY <1>2, <1>5, <2>1 DEF CellRec
  <2>4. x.unsafe = TRUE
    <3>1. y \in CellRec
      BY <1>2, <1>5
    <3> QED BY <2>1, <3>1 DEF CellRec
  <2>5. x.idx % RING_SIZE = Slot(p)
    BY <1>2, <1>5, <2>3 DEF IInv, Congruent, Cell
  <2>6. Strikes(p, x)
    BY <1>1, <1>2, <1>3, <2>2, <2>3, <2>5, StrikeStep DEF SameTurn
  <2> QED BY <1>1, <1>3, <1>4, <1>5, <2>2, <2>3, <2>4, <2>6, Zenon
<1>7. CASE Advance(p)
  <2>1. PICK x : x = [y EXCEPT !.idx = th[p].n + RING_SIZE]
    OBVIOUS
  <2>2. SetCell(p, x) /\ th[p].pc = "advance" /\ ~MarkUnsafe(p)
    BY <1>5, <1>7, <2>1 DEF MarkUnsafe, Advance
  <2>3. th[p].n + RING_SIZE \in Nat
    BY <1>2, RingsAreNumbers
  <2>4. x \in CellRec /\ x.val = y.val /\ x.idx = th[p].n + RING_SIZE
    BY <1>2, <1>5, <2>1, <2>3 DEF CellRec
  <2>5. x.unsafe = y.unsafe
    <3>1. y \in CellRec
      BY <1>2, <1>5
    <3> QED BY <2>1, <3>1, Zenon DEF CellRec
  <2>6. x.idx % RING_SIZE = Slot(p)
    BY <1>2, <2>4, RingsAreNumbers, NextRound DEF Slot
  <2>7. Strikes(p, x)
    BY <1>1, <1>2, <1>3, <2>2, <2>4, <2>6, StrikeStep DEF SameTurn
  <2> QED BY <1>1, <1>3, <1>4, <1>5, <2>2, <2>4, <2>5, <2>7, Zenon
<1> QED BY <1>6, <1>7

LEMMA MarkTickets ==
  ASSUME IInv, TInv, NEW p \in Thread, MarkUnsafe(p) \/ Advance(p), Unmoved(p)
  PROVE  TInv'
<1>1. PICK x \in CellRec :
        /\ x.val = Cell(p).val /\ Strikes(p, x)
        /\ MarkUnsafe(p) => x.idx = Cell(p).idx /\ x.unsafe = TRUE /\ th[p].pc = "mark"
        /\ Advance(p) => /\ x.idx = th[p].n + RING_SIZE /\ x.unsafe = Cell(p).unsafe
                         /\ th[p].pc = "advance"
        /\ th[p].pc \in {"mark", "advance"} /\ th'[p].pc = "check"
        /\ Enqueued' = Enqueued /\ UNCHANGED taken
  BY MarkStrikes, Zenon
<1>2. /\ th[p].pc \notin NoRing /\ th'[p].pc \notin Reading \cup Hunting
  BY <1>1 DEF NoRing, Reading, Asking, Hunting
<1>3. /\ th[p].rq \in Live /\ th[p].rq \in Ring /\ th[p].n \in Nat /\ Cell(p).idx \in Nat
      /\ Slot(p) \in Cells
  BY <1>2, Here DEF CellRec
<1>4. Sound(th[p], Cell(p)) /\ Cell(p).val = th[p].val /\ Cell(p).idx = th[p].idx
  BY UnmovedFields DEF TInv, Sounds
<1>5. Sounds' /\ Clear' /\ Passed' /\ Ahead' /\ Chain'
  <2>1. CASE MarkUnsafe(p)
    <3>1. Cell(p).val # Empty /\ Cell(p).idx < th[p].n
      BY <1>1, <1>4, <2>1, Zenon DEF Sound
    <3>2. Cell(p).idx >= ring[th[p].rq].head \/ Hunted(th[p].rq, Cell(p).idx)
      BY <1>3, <3>1 DEF TInv, Ahead, Cell
    <3>3. ~Hunts(p, th[p].rq, Cell(p).idx)
      <4>1. Cell(p).idx # th[p].n
        BY <1>3, <3>1
      <4> QED BY <4>1 DEF Hunts
    <3>4. x.idx >= ring[th[p].rq].head \/ \E o \in Thread \ {p} : Hunts(o, th[p].rq, x.idx)
      BY <1>1, <2>1, <3>2, <3>3 DEF Hunted
    <3>5. x.idx >= Cell(p).idx /\ x.val # Empty
      BY <1>1, <1>3, <2>1, <3>1
    <3> QED BY <1>1, <1>2, <2>1, <3>4, <3>5, StrikeTickets
  <2>2. CASE Advance(p)
    <3>1. Cell(p).val = Empty /\ Cell(p).idx <= th[p].n
      BY <1>1, <1>4, <2>2, Zenon DEF Sound
    <3>2. x.val = Empty /\ x.idx = th[p].n + RING_SIZE /\ x.unsafe = Cell(p).unsafe
      BY <1>1, <2>2, <3>1, Zenon
    <3> QED BY <1>1, <1>2, <3>1, <3>2, MovedOn, StrikeTickets
  <2> QED BY <2>1, <2>2
<1>6. Stored'
  <2>1. Live' = Live /\ Live \subseteq Ring /\ ToSet(taken)' = ToSet(taken)
    BY <1>1, RingsAreNumbers DEF Strikes, Live, IInv, Shapes, ToSet
  <2>2. \A q \in Live, c \in Cells : ring'[q].array[c].val = ring[q].array[c].val
    <3>1. ASSUME NEW q \in Live, NEW c \in Cells
          PROVE  ring'[q].array[c].val = ring[q].array[c].val
      <4>1. CASE q = th[p].rq /\ c = Slot(p)
        BY <1>1, <4>1 DEF Strikes, Cell
      <4>2. CASE q # th[p].rq \/ c # Slot(p)
        BY <1>1, <2>1, <4>2 DEF Strikes
      <4> QED BY <4>1, <4>2
    <3> QED BY <3>1
  <2> QED BY <1>1, <2>1, <2>2 DEF TInv, Stored
<1> QED BY <1>5, <1>6 DEF TInv

-----------------------------------------------------------------------------
(* The second invariant, a ticket drawn and a ring linked.                 *)

(* A ticket of a ring: the head moves on, and p holds what it was.         *)
Draws(p) ==
  LET k == th[p].rq IN
  /\ Alone(p) /\ Live' = Live /\ Enqueued' = Enqueued /\ SameEnds /\ k \in Live /\ Live \subseteq Ring
  /\ UNCHANGED <<head, tail, done, taken, prec>>
  /\ th[p].pc = "dfaa" /\ th'[p].pc = "didx" /\ th'[p].rq = k /\ th'[p].n = ring[k].head
  /\ th'[p].older = th[p].older /\ th'[p].seen = th[p].seen
  /\ ring'[k].head = ring[k].head + 1 /\ ring[k].head \in Nat
  /\ \A q \in Ring : q # k => ring'[q].head = ring[q].head
  /\ \A q \in Ring : ring'[q].tail = ring[q].tail

LEMMA DrawStep ==
  ASSUME IInv, NEW p \in Thread, DrawTicket(p)
  PROVE  Draws(p)
<1>1. th[p].pc = "dfaa" /\ UNCHANGED <<used, head, tail, done, taken, prec>>
  BY DEF DrawTicket, hist
<1>2. /\ Alone(p) /\ th'[p].rq = th[p].rq /\ th'[p].nrq = th[p].nrq
      /\ th'[p].older = th[p].older /\ th'[p].seen = th[p].seen /\ th[p].rq \in Live
      /\ SameEnds /\ \A q \in Ring : q # th[p].rq => ring'[q] = ring[q]
      /\ th'[p].pc = "didx" /\ th'[p].n = ring[th[p].rq].head
      /\ ring'[th[p].rq].head = ring[th[p].rq].head + 1
      /\ ring'[th[p].rq].tail = ring[th[p].rq].tail
  BY TicketFields DEF SameEnds
<1>3. Moves(p)
  BY <1>1, <1>2 DEF Moves, Alone
<1>4. Live' = Live /\ Enqueued' = Enqueued
  BY <1>1, <1>3, LiveKept, EnqueuedKept
<1>5. Live \subseteq Ring
  BY RingsAreNumbers DEF Live, IInv, Shapes
<1>6. ring[th[p].rq].head \in Nat
  BY <1>2, <1>5, RingNumbers
<1>7. \A q \in Ring : ring'[q].tail = ring[q].tail
  BY <1>2
<1> QED BY <1>1, <1>2, <1>4, <1>5, <1>6, <1>7 DEF Draws

LEMMA DrawTickets ==
  ASSUME IInv, TInv, NEW p \in Thread, Draws(p)
  PROVE  TInv'
<1>1. PICK k : k = th[p].rq
  OBVIOUS
<1>2. /\ \A o \in Thread \ {p} : th'[o] = th[o]
      /\ Live' = Live /\ Live \subseteq Ring /\ k \in Live /\ ring[k].head \in Nat
      /\ \A q \in Ring : ring'[q].array = ring[q].array /\ ring'[q].next = ring[q].next
      /\ th[p].pc = "dfaa" /\ th'[p].pc = "didx" /\ th'[p].rq = k /\ th'[p].n = ring[k].head
      /\ ring'[k].head = ring[k].head + 1
      /\ \A q \in Ring : q # k => ring'[q].head = ring[q].head
  BY <1>1 DEF Draws, Alone, SameEnds
<1>3. \A q, i : Hunted(q, i) => Hunted(q, i)'
  <2>1. ASSUME NEW q, NEW i, NEW o \in Thread, Hunts(o, q, i)
        PROVE  Hunts(o, q, i)'
    BY <1>2, <2>1 DEF Hunts
  <2> QED BY <2>1 DEF Hunted
<1>4. \A i : i = ring[k].head => Hunted(k, i)'
  <2>1. \A i : i = ring[k].head => Hunts(p, k, i)'
    BY <1>2 DEF Hunts
  <2> QED BY <2>1 DEF Hunted
<1>5. \A o \in Thread \ {p} : th[o].pc \notin NoRing => Cell(o)' = Cell(o) /\ Slot(o)' = Slot(o)
  BY <1>2, CellKept DEF SameEnds
<1>6. Sounds'
  <2>1. ASSUME NEW o \in Thread
        PROVE  Sound(th'[o], Cell(o)')
    <3>1. CASE th'[o].pc \notin Reading
      BY <3>1 DEF Sound, Reading, Asking, Hunting
    <3>2. CASE th'[o].pc \in Reading
      <4>1. th[o].pc \notin NoRing /\ th'[o] = th[o] /\ o # p
        BY <1>2, <3>2 DEF Reading, Asking, Hunting, NoRing
      <4>2. Sound(th[o], Cell(o))
        BY DEF TInv, Sounds
      <4> QED BY <1>5, <4>1, <4>2
    <3> QED BY <3>1, <3>2
  <2> QED BY <2>1 DEF Sounds
<1>7. Clear'
  <2>1. ASSUME NEW o \in Thread, Free(o)', NEW i \in th'[o].n .. ring'[th'[o].rq].head - 1,
               i % RING_SIZE = Slot(o)', NEW r, r = th'[o].rq
        PROVE  Hunted(r, i)'
    <3>1. th'[o] = th[o] /\ th[o].pc = "put" /\ o # p
      BY <1>2, <2>1 DEF Free
    <3>2. /\ Cell(o)' = Cell(o) /\ Slot(o)' = Slot(o) /\ r \in Live /\ th[o].n \in Nat
          /\ r = th[o].rq /\ ring[r].head \in Nat
      BY <1>2, <1>5, <2>1, <3>1, Here, RingNumbers DEF NoRing
    <3>3. Free(o)
      BY <2>1, <3>1, <3>2 DEF Free
    <3>4. i \in th[o].n .. ring[r].head - 1 \/ (r = k /\ i = ring[k].head)
      <4>1. i \in th[o].n .. ring'[r].head - 1
        BY <2>1, <3>1
      <4>2. ring'[r].head = ring[r].head \/ (r = k /\ ring'[r].head = ring[r].head + 1)
        BY <1>2, <3>2
      <4> QED BY <3>2, <4>1, <4>2
    <3>5. CASE i \in th[o].n .. ring[r].head - 1
      <4>1. Hunted(r, i)
        BY <2>1, <3>2, <3>3, <3>5 DEF TInv, Clear
      <4> QED BY <1>3, <4>1
    <3> QED BY <1>4, <3>4, <3>5
  <2> QED BY <2>1 DEF Clear
<1>8. Passed'
  <2>1. ASSUME NEW q \in Live, NEW i \in 0..ring'[q].head - 1
        PROVE  Hunted(q, i)' \/ ring[q].array[i % RING_SIZE].idx > i
               \/ ring[q].array[i % RING_SIZE].unsafe
    <3>1. i \in 0..ring[q].head - 1 \/ (q = k /\ i = ring[k].head)
      <4>1. ring'[q].head = ring[q].head \/ (q = k /\ ring'[q].head = ring[q].head + 1)
        BY <1>2
      <4>2. ring[q].head \in Nat
        BY <1>2, RingNumbers
      <4> QED BY <2>1, <4>1, <4>2
    <3>2. CASE i \in 0..ring[q].head - 1
      <4>1. Hunted(q, i) \/ ring[q].array[i % RING_SIZE].idx > i
            \/ ring[q].array[i % RING_SIZE].unsafe
        BY <3>2 DEF TInv, Passed
      <4> QED BY <1>3, <4>1
    <3> QED BY <1>4, <3>1, <3>2
  <2> QED BY <1>2, <2>1 DEF Passed
<1>9. Ahead'
  <2>1. ASSUME NEW q \in Live, NEW c \in Cells, NEW i, i = ring[q].array[c].idx,
               ring[q].array[c].val # Empty
        PROVE  i >= ring'[q].head \/ Hunted(q, i)'
    <3>1. i >= ring[q].head \/ Hunted(q, i)
      BY <2>1 DEF TInv, Ahead
    <3>2. i \in Nat /\ ring[q].head \in Nat
      BY <1>2, <2>1, RingNumbers
    <3>3. ring'[q].head = ring[q].head \/ (q = k /\ ring'[q].head = ring[q].head + 1)
      BY <1>2
    <3>4. i >= ring[q].head => i >= ring'[q].head \/ (q = k /\ i = ring[k].head)
      BY <3>2, <3>3
    <3> QED BY <1>3, <1>4, <3>1, <3>4
  <2> QED BY <1>2, <2>1 DEF Ahead
<1>10. Stored'
  <2>1. Enqueued' = Enqueued /\ ToSet(taken)' = ToSet(taken)
    BY DEF Draws, ToSet
  <2>2. \A q \in Live : ring'[q].array = ring[q].array
    BY <1>2
  <2> QED BY <1>2, <2>1, <2>2 DEF TInv, Stored
<1>11. Chain'
  <2>1. \A q : Onward(q)' = Onward(q)
    BY <1>2, OnwardKept
  <2> QED BY <1>2, <2>1 DEF TInv, Chain
<1> QED BY <1>6, <1>7, <1>8, <1>9, <1>10, <1>11 DEF TInv

(* A ring linked behind the last one: the chain only grows.                *)
LEMMA LinkOnward ==
  ASSUME IInv, Chain, NEW p \in Thread, NEW m \in Ring, Attaches(p, m), m \notin Live
  PROVE  \A q : Onward(q) \subseteq Onward(q)'
<1>1. ASSUME NEW S \in SUBSET Ring, Closed(S)'
      PROVE  Closed(S)
  <2>1. ASSUME NEW r \in S, ring[r].next # Null
        PROVE  ring[r].next \in S
    <3>1. r # m
      BY <2>1 DEF Chain
    <3>2. ring'[r].next = IF r = th[p].rq /\ ring[th[p].rq].next = Null THEN m ELSE ring[r].next
      BY <1>1, <2>1, <3>1 DEF Attaches
    <3>3. ring'[r].next = ring[r].next
      BY <2>1, <3>2
    <3> QED BY <1>1, <2>1, <3>3 DEF Closed
  <2> QED BY <2>1 DEF Closed
<1> QED BY <1>1 DEF Onward

LEMMA LinkTickets ==
  ASSUME IInv, TInv, NEW p \in Thread, Link(p)
  PROVE  TInv'
<1>1. PICK m \in Ring : Attaches(p, m) /\ m \notin Live
  BY LinkFields
<1>2. PICK k : k = th[p].rq
  OBVIOUS
<1>3. PICK v : v = th[p].arg
  OBVIOUS
<1>4. /\ th[p].pc = "link" /\ k \in Live /\ Live \subseteq Ring /\ v \in Values /\ taken' = taken
  BY <1>2, <1>3, LinkFields
<1>5. /\ \A o \in Thread \ {p} : th'[o] = th[o]
      /\ th'[p].pc \in {"publish", "tail"}
      /\ \A q \in Live : ring'[q].array = ring[q].array /\ ring'[q].head = ring[q].head
      /\ ring'[m].head = 0 /\ ring'[m].next = Null
      /\ \A c \in Cells : ring'[m].array[c].idx = c
      /\ ring'[m].array[0].val = v
  <2>1. 0 \in Cells
    BY RingsAreNumbers DEF Cells
  <2>2. ring'[m].array[0].val = v
    BY <1>1, <1>3, <2>1 DEF Attaches
  <2>3. \A q \in Live : q \in Ring /\ q # m
    BY <1>1, <1>4
  <2>4. \A q \in Live : ring'[q].array = ring[q].array /\ ring'[q].head = ring[q].head
    BY <1>1, <2>3 DEF Attaches
  <2>5. th'[p].pc \in {"publish", "tail"}
    BY <1>1 DEF Attaches
  <2> QED BY <1>1, <2>2, <2>4, <2>5 DEF Attaches
<1>6. \A q \in Live' : q \in Live \/ (q = m /\ ring[k].next = Null)
  BY <1>1, <1>2 DEF Attaches
<1>7. \A q, i : Hunted(q, i) => Hunted(q, i)'
  <2>1. ASSUME NEW q, NEW i, NEW o \in Thread, Hunts(o, q, i)
        PROVE  Hunts(o, q, i)'
    BY <1>4, <1>5, <2>1 DEF Hunts
  <2> QED BY <2>1 DEF Hunted
<1>8. ASSUME NEW o \in Thread, th'[o].pc \in Reading
      PROVE  /\ th'[o] = th[o] /\ th[o].rq \in Live /\ th[o].n \in Nat /\ Slot(o) \in Cells
             /\ Cell(o)' = Cell(o) /\ Slot(o)' = Slot(o)
  <2>1. o # p /\ th'[o] = th[o] /\ th[o].pc \notin NoRing
    BY <1>5, <1>8 DEF Reading, Asking, Hunting, NoRing
  <2>2. th[o].rq \in Live /\ th[o].n \in Nat /\ Slot(o) \in Cells
    BY <2>1, Here
  <2> QED BY <1>5, <2>1, <2>2 DEF Cell, Slot
<1>9. Sounds'
  <2>1. ASSUME NEW o \in Thread
        PROVE  Sound(th'[o], Cell(o)')
    <3>1. CASE th'[o].pc \notin Reading
      BY <3>1 DEF Sound, Reading, Asking, Hunting
    <3>2. CASE th'[o].pc \in Reading
      <4>1. Sound(th[o], Cell(o))
        BY DEF TInv, Sounds
      <4> QED BY <1>8, <3>2, <4>1
    <3> QED BY <3>1, <3>2
  <2> QED BY <2>1 DEF Sounds
<1>10. Clear'
  <2>1. ASSUME NEW o \in Thread, Free(o)', NEW i \in th'[o].n .. ring'[th'[o].rq].head - 1,
               i % RING_SIZE = Slot(o)', NEW r, r = th'[o].rq
        PROVE  Hunted(r, i)'
    <3>1. th'[o].pc \in Reading /\ th'[o].pc = "put"
      BY <2>1 DEF Free, Reading, Asking
    <3>2. /\ th'[o] = th[o] /\ th[o].rq \in Live /\ Cell(o)' = Cell(o) /\ Slot(o)' = Slot(o)
      BY <1>8, <3>1
    <3>3. Free(o) /\ r = th[o].rq /\ i \in th[o].n .. ring[r].head - 1 /\ i % RING_SIZE = Slot(o)
      BY <1>5, <2>1, <3>2 DEF Free
    <3>4. Hunted(r, i)
      BY <3>3 DEF TInv, Clear
    <3> QED BY <1>7, <3>4
  <2> QED BY <2>1 DEF Clear
<1>11. Passed'
  <2>1. ASSUME NEW q \in Live', NEW i \in 0..ring'[q].head - 1
        PROVE  Hunted(q, i)' \/ ring'[q].array[i % RING_SIZE].idx > i
               \/ ring'[q].array[i % RING_SIZE].unsafe
    <3>1. q \in Live
      BY <1>5, <1>6, <2>1
    <3>2. Hunted(q, i) \/ ring[q].array[i % RING_SIZE].idx > i
          \/ ring[q].array[i % RING_SIZE].unsafe
      BY <1>5, <2>1, <3>1 DEF TInv, Passed
    <3> QED BY <1>5, <1>7, <3>1, <3>2
  <2> QED BY <2>1 DEF Passed
<1>12. Ahead'
  <2>1. ASSUME NEW q \in Live', NEW c \in Cells, NEW i, i = ring'[q].array[c].idx,
               ring'[q].array[c].val # Empty
        PROVE  i >= ring'[q].head \/ Hunted(q, i)'
    <3>1. CASE q \in Live
      <4>1. i >= ring[q].head \/ Hunted(q, i)
        BY <1>5, <2>1, <3>1 DEF TInv, Ahead
      <4> QED BY <1>5, <1>7, <3>1, <4>1
    <3>2. CASE q = m
      BY <1>5, <2>1, <3>2, RingsAreNumbers DEF Cells
    <3> QED BY <1>6, <2>1, <3>1, <3>2
  <2> QED BY <2>1 DEF Ahead
<1>13. Stored'
  <2>1. ToSet(taken)' = ToSet(taken) /\ 0 \in Cells
    BY <1>4, RingsAreNumbers DEF ToSet, Cells
  <2>2. Live \subseteq Live' /\ (v \in Enqueued' /\ v \notin Enqueued => m \in Live')
        /\ Enqueued' \subseteq Enqueued \cup {v}
    BY <1>1, <1>3 DEF Attaches
  <2>3. ASSUME NEW w \in Enqueued', w \notin ToSet(taken)
        PROVE  \E q \in Live', c \in Cells : ring'[q].array[c].val = w
    <3>1. CASE w \in Enqueued
      <4>1. PICK q \in Live, c \in Cells : ring[q].array[c].val = w
        BY <2>3, <3>1 DEF TInv, Stored
      <4> QED BY <1>5, <2>2, <4>1
    <3>2. CASE w \notin Enqueued
      BY <1>5, <2>1, <2>2, <2>3, <3>2
    <3> QED BY <3>1, <3>2
  <2> QED BY <2>1, <2>3 DEF Stored
<1>14. Chain'
  <2>1. Chain
    BY DEF TInv
  <2>2. \A q : Onward(q) \subseteq Onward(q)'
    BY <1>1, <2>1, LinkOnward
  <2>3. \A q \in Ring : q # m =>
          ring'[q].next = IF q = k /\ ring[k].next = Null THEN m ELSE ring[q].next
    BY <1>1, <1>2 DEF Attaches
  <2>4. Live' = IF ring[k].next = Null THEN Live \cup {m} ELSE Live
    BY <1>1, <1>2 DEF Attaches
  <2>5. \A q \in Ring \ Live' : ring'[q].next = Null
    BY <1>4, <1>5, <2>1, <2>3, <2>4 DEF Chain
  <2>6. ASSUME NEW q \in Live', NEW r \in Live', ring'[q].next = Null
        PROVE  q \in Onward(r)'
    <3>1. CASE ring[k].next # Null
      <4>1. q \in Live /\ r \in Live /\ q # m
        BY <1>1, <2>4, <2>6, <3>1
      <4>2. ring[q].next = Null
        BY <1>4, <2>3, <2>6, <3>1, <4>1
      <4> QED BY <2>1, <2>2, <4>1, <4>2 DEF Chain
    <3>2. CASE ring[k].next = Null
      <4>1. m # Null
        BY RingsAreNumbers
      <4>2. q = m
        <5>1. SUFFICES ASSUME q # m PROVE FALSE
          OBVIOUS
        <5>2. q \in Live /\ q # k /\ ring[q].next = Null
          BY <1>4, <2>3, <2>4, <2>6, <3>2, <4>1, <5>1
        <5>3. q \in Onward(k)
          BY <1>4, <2>1, <5>2 DEF Chain
        <5>4. Closed({k}) /\ {k} \in SUBSET Ring
          BY <1>4, <3>2 DEF Closed
        <5> QED BY <5>2, <5>3, <5>4 DEF Onward
      <4>3. ASSUME NEW S \in SUBSET Ring, r \in S, Closed(S)'
            PROVE  m \in S
        <5>1. CASE r = m
          BY <4>3, <5>1
        <5>2. CASE r \in Live
          <6>1. k \in Onward(r)'
            BY <1>4, <2>1, <2>2, <3>2, <5>2 DEF Chain
          <6>2. k \in S
            BY <4>3, <6>1 DEF Onward
          <6>3. ring'[k].next = m
            BY <1>1, <1>4, <2>3, <3>2
          <6> QED BY <4>1, <4>3, <6>2, <6>3 DEF Closed
        <5> QED BY <2>4, <2>6, <5>1, <5>2
      <4> QED BY <4>2, <4>3 DEF Onward
    <3> QED BY <3>1, <3>2
  <2> QED BY <2>5, <2>6 DEF Chain
<1> QED BY <1>9, <1>10, <1>11, <1>12, <1>13, <1>14 DEF TInv

-----------------------------------------------------------------------------
(* The second invariant holds.                                             *)

LEMMA InitTInv ==
  ASSUME Init
  PROVE  TInv
<1>1. PICK m : Starts(m)
  BY InitFields
<1>2. \A p \in Thread : th[p].pc = "idle"
  BY <1>1 DEF Starts, Idle
<1>3. Sounds /\ Clear
  BY <1>2 DEF Sounds, Sound, Clear, Free, Reading, Asking, Hunting
<1>4. Live = {1} /\ 1 \in Ring /\ \A q \in Ring : ring[q].next = Null /\ ring[q].head = 0
  BY <1>1, RingsAreNumbers DEF Starts
<1>5. Passed
  BY <1>4 DEF Passed
<1>6. Ahead
  <2>1. \A c \in Cells : ring[1].array[c].idx >= 0
    BY <1>1, <1>4, RingsAreNumbers DEF Starts, Cells
  <2> QED BY <1>4, <2>1 DEF Ahead
<1>7. Stored
  <2>1. Enqueued = done
    BY <1>2 DEF Enqueued
  <2>2. \A i \in 0..m-1 : ring[1].array[i].val = Filled(i) /\ i \in Cells
    BY <1>1 DEF Starts
  <2> QED BY <1>1, <1>4, <2>1, <2>2 DEF Stored, Starts
<1>8. Chain
  BY <1>4 DEF Chain, Onward
<1> QED BY <1>3, <1>5, <1>6, <1>7, <1>8 DEF TInv

LEMMA StutterTInv ==
  ASSUME TInv, UNCHANGED vars
  PROVE  TInv'
<1>1. /\ Live' = Live /\ Enqueued' = Enqueued /\ ToSet(taken)' = ToSet(taken)
      /\ ring' = ring /\ th' = th
  BY DEF vars, Live, Enqueued, ToSet
<1>2. /\ \A q, k : Hunted(q, k)' <=> Hunted(q, k)
      /\ \A p : Cell(p)' = Cell(p) /\ Slot(p)' = Slot(p)
  BY <1>1 DEF Hunted, Hunts, Cell, Slot
<1>3. Sounds' /\ Clear'
  BY <1>1, <1>2 DEF TInv, Sounds, Clear, Free
<1>4. Passed' /\ Ahead'
  BY <1>1, <1>2 DEF TInv, Passed, Ahead
<1>5. Stored'
  BY <1>1 DEF TInv, Stored
<1>6. Chain'
  BY <1>1, OnwardKept DEF TInv, Chain
<1> QED BY <1>3, <1>4, <1>5, <1>6 DEF TInv

(* The steps away from the cells.                                          *)
LEMMA EnqueuerAway ==
  ASSUME IInv, TInv, NEW p \in Thread,
         BeginEnqueue(p) \/ ReadTailPtr(p) \/ ReadNext(p) \/ SwingTail(p) \/ TakeTicket(p)
           \/ CheckFull(p) \/ Close(p) \/ Publish(p)
  PROVE  TInv'
<1>1. /\ Calm(p)
      /\ th[p].pc \in {"idle", "tail", "head", "enext", "dnext", "eswing", "dswing", "efaa",
                       "full", "close", "publish"}
      /\ th'[p].pc \in {"tail", "enext", "dfaa", "efaa", "eswing", "dswing", "head", "link",
                        "eidx", "close", "idle"}
  BY BeginEnqueueCalm, PointerCalm, TakeTicketCalm, PlainFull, ClosePlain, PublishCalm DEF Plain
<1> QED BY <1>1, AwayTickets DEF Hunting, Reading, Asking

LEMMA DequeuerAway ==
  ASSUME IInv, TInv, NEW p \in Thread,
         BeginDequeue(p) \/ ReadHeadPtr(p) \/ CheckEmpty(p) \/ FixRead(p) \/ FixHead(p)
           \/ FixCheck(p) \/ FixTail(p) \/ ReturnEmpty(p) \/ ReadNextRing(p) \/ SwingHead(p)
  PROVE  TInv'
<1>1. /\ Calm(p)
      /\ th[p].pc \in {"idle", "tail", "head", "enext", "dnext", "eswing", "dswing", "check",
                       "fix", "fixh", "fixt", "fixcas"}
      /\ th'[p].pc \in {"tail", "enext", "dfaa", "efaa", "eswing", "dswing", "head", "idle"}
                         \cup Fixing
  BY BeginDequeueCalm, PointerCalm, CheckEmptyCalm, FixCalm, ReturnEmptyPlain DEF Plain, Fixing
<1> QED BY <1>1, AwayTickets DEF Hunting, Reading, Asking, Fixing

LEMMA NextTInv == IInv /\ TInv /\ [Next]_vars => TInv'
<1> SUFFICES ASSUME IInv, TInv, [Next]_vars PROVE TInv'
  OBVIOUS
<1>1. CASE UNCHANGED vars
  BY <1>1, StutterTInv
<1>2. CASE Terminated
  BY <1>2, StutterTInv DEF Terminated
<1>3. ASSUME NEW p \in Thread, Put(p)
      PROVE  TInv'
  <2>1. Unmoved(p) \/ UNCHANGED ring
    BY <1>3 DEF Put
  <2> QED BY <1>3, <2>1, PutTickets, FailureTickets
<1>4. ASSUME NEW p \in Thread, Take(p)
      PROVE  TInv'
  <2>1. Unmoved(p) \/ UNCHANGED ring
    BY <1>4 DEF Take
  <2> QED BY <1>4, <2>1, TakeTickets, FailureTickets
<1>5. ASSUME NEW p \in Thread, MarkUnsafe(p) \/ Advance(p)
      PROVE  TInv'
  <2>1. Unmoved(p) \/ UNCHANGED ring
    BY <1>5 DEF MarkUnsafe, Advance
  <2> QED BY <1>5, <2>1, MarkTickets, FailureTickets
<1>6. ASSUME NEW p \in Thread, CheckHead(p)
      PROVE  TInv'
  BY <1>6, FailureTickets DEF CheckHead
<1>7. ASSUME NEW p \in Thread, Enqueue(p)
      PROVE  TInv'
  BY <1>3, <1>6, <1>7, EnqueuerAway, ReadIdxTickets, JudgeTickets, LinkTickets DEF Enqueue
<1>8. ASSUME NEW p \in Thread, Dequeue(p)
      PROVE  TInv'
  BY <1>4, <1>5, <1>8, DequeuerAway, DrawStep, DrawTickets, ExamineTickets, WaitTickets
     DEF Dequeue
<1> QED BY <1>1, <1>2, <1>7, <1>8 DEF Next

LEMMA TicketsHold == Spec => [](IInv /\ TInv)
<1>1. Init => IInv /\ TInv
  BY InitIInv, InitTInv
<1>2. (IInv /\ TInv) /\ [Next]_vars => (IInv /\ TInv)'
  BY NextIInv, NextTInv
<1> QED BY <1>1, <1>2, PTL DEF Spec

(* An item whose enqueue has returned (lines 288-290) and that no dequeue  *)
(* has taken is held by a dequeuer's ticket or will be drawn, unless the   *)
(* head went past its ring (line 371): no enqueuer puts an item under a    *)
(* ticket that the dequeuers gave up (lines 340, 357).                     *)
THEOREM EveryItemIsAwaited == Spec => []NothingIsLost
<1>1. IInv /\ TInv => NothingIsLost
  <2> SUFFICES ASSUME IInv, TInv, NEW v \in done \ ToSet(taken)
               PROVE  Awaited(v) \/ LeftBehind(v)
    BY DEF NothingIsLost
  <2>1. PICK q \in Live, c \in Cells : ring[q].array[c].val = v
    BY DEF TInv, Stored, Enqueued
  <2>2. q \in Ring /\ v # Empty
    BY EnqueuedValues, RingsAreNumbers DEF Live, IInv, Shapes, Enqueued
  <2>3. ring[q].array[c].idx >= ring[q].head \/ Hunted(q, ring[q].array[c].idx)
    BY <2>1, <2>2 DEF TInv, Ahead
  <2>4. CASE Hunted(q, ring[q].array[c].idx)
    BY <2>1, <2>2, <2>4 DEF Hunted, Awaited
  <2>5. CASE ring[q].array[c].idx >= ring[q].head /\ q \in Reachable
    BY <2>1, <2>2, <2>5 DEF Awaited
  <2>6. CASE q \notin Reachable
    <3>1. ring[q].next # Null
      BY <2>1, <2>6 DEF TInv, Chain, Reachable, IInv, Pointers
    <3> QED BY <2>1, <2>2, <2>6, <3>1 DEF LeftBehind
  <2> QED BY <2>3, <2>4, <2>5, <2>6
<1> QED BY <1>1, TicketsHold, PTL

-----------------------------------------------------------------------------
(* The way onward along the links.                                         *)

LEMMA OnwardSelf ==
  ASSUME NEW q \in Ring
  PROVE  q \in Onward(q)
BY DEF Onward

LEMMA OnwardTrans ==
  ASSUME NEW q, NEW r \in Onward(q), NEW s \in Onward(r)
  PROVE  s \in Onward(q)
BY DEF Onward

LEMMA OnwardNext ==
  ASSUME IInv, NEW q \in Ring, ring[q].next # Null
  PROVE  ring[q].next \in Onward(q)
<1>1. ring[q].next \in Ring
  BY RingsAreNumbers DEF IInv, Pointers, Live, Shapes
<1> QED BY <1>1 DEF Onward, Closed

(* Who leaves q goes through the next ring.                                *)
LEMMA OnwardSplit ==
  ASSUME IInv, NEW q \in Ring, NEW r \in Onward(q), r # q
  PROVE  ring[q].next # Null /\ r \in Onward(ring[q].next)
<1>1. PICK n : n = ring[q].next
  OBVIOUS
<1>2. CASE n = Null
  <2>1. Closed({q}) /\ {q} \in SUBSET Ring
    BY <1>1, <1>2 DEF Closed
  <2> QED BY <2>1 DEF Onward
<1>3. CASE n # Null
  <2>1. n \in Ring
    BY <1>1, <1>3, RingsAreNumbers DEF IInv, Pointers, Live, Shapes
  <2>2. PICK S : S = {q} \cup Onward(n)
    OBVIOUS
  <2>3. S \in SUBSET Ring /\ q \in S
    BY <2>2 DEF Onward
  <2>4. Closed(S)
    <3>1. ASSUME NEW s \in S, ring[s].next # Null
          PROVE  ring[s].next \in S
      <4>1. CASE s = q
        BY <1>1, <2>1, <2>2, <4>1, OnwardSelf
      <4>2. CASE s \in Onward(n)
        <5>1. s \in Ring
          BY <4>2 DEF Onward
        <5>2. ring[s].next \in Onward(s)
          BY <3>1, <5>1, OnwardNext
        <5>3. ring[s].next \in Onward(n)
          BY <4>2, <5>2, OnwardTrans
        <5> QED BY <2>2, <5>3
      <4> QED BY <2>2, <3>1, <4>1, <4>2
    <3> QED BY <3>1 DEF Closed
  <2>5. r \in S
    BY <2>3, <2>4 DEF Onward
  <2> QED BY <1>1, <1>3, <2>2, <2>5
<1> QED BY <1>2, <1>3

-----------------------------------------------------------------------------
(* The third invariant, as far as the other threads are concerned.         *)

(* A step of p: nothing that was enqueued moves, no number of a ring goes  *)
(* back, and the pointers only move along the links.                       *)
Steady(p) ==
  /\ Alone(p) /\ Live \subseteq Live' /\ Live \subseteq Ring
  /\ \A q \in Live :
       /\ ring[q].head <= ring'[q].head /\ ring[q].tail <= ring'[q].tail
       /\ ring'[q].head \in Nat /\ ring'[q].tail \in Nat
       /\ ring[q].next # Null => ring'[q].next = ring[q].next
  /\ \A q \in Live', c \in Cells : ring'[q].array[c].val \in done =>
       /\ q \in Live /\ ring'[q].array[c].val = ring[q].array[c].val
       /\ ring'[q].array[c].idx = ring[q].array[c].idx
  /\ \A q : Onward(q) \subseteq Onward(q)'
  /\ head' \in Onward(head) /\ tail' \in Onward(tail)
  /\ done \subseteq done' /\ ToSet(taken) \subseteq ToSet(taken)'

(* What a thread o keeps in a steady step.                                 *)
LEMMA KeepTicketed ==
  ASSUME IInv, NEW p \in Thread, Steady(p), NEW o \in Thread, Ticketed(o),
         th'[o].pc \in Drawn =>
           th[o].pc \in Drawn /\ th'[o].rq = th[o].rq /\ th'[o].n = th[o].n,
         th'[o].pc \in Issued =>
           th[o].pc \in Issued /\ th'[o].rq = th[o].rq /\ th'[o].n = th[o].n,
         th'[o].pc = "fixcas" => th'[o].fixt < th'[o].tt
  PROVE  Ticketed(o)'
<1>1. PICK t \in Locals : t = th[o]
  BY DEF IInv, Shapes
<1>2. t.pc \notin NoRing => t.rq \in Live /\ t.rq \in Ring /\ t.n \in Nat
                            /\ ring[t.rq].head \in Nat /\ ring[t.rq].tail \in Nat
  BY <1>1, Here, RingNumbers
<1>3. t.pc \in Drawn => t.n < ring'[t.rq].head
  <2>1. ASSUME t.pc \in Drawn
        PROVE  t.n < ring'[t.rq].head
    <3>1. t.pc \notin NoRing
      BY <2>1 DEF Drawn, Hunting, Fixing, NoRing
    <3>2. ring[t.rq].head <= ring'[t.rq].head /\ ring'[t.rq].head \in Nat
      BY <1>2, <3>1 DEF Steady
    <3>3. t.n < ring[t.rq].head
      BY <1>1, <2>1 DEF Ticketed
    <3> QED BY <1>2, <3>1, <3>2, <3>3
  <2> QED BY <2>1
<1>4. t.pc \in Issued => t.n < ring'[t.rq].tail
  <2>1. ASSUME t.pc \in Issued
        PROVE  t.n < ring'[t.rq].tail
    <3>1. t.pc \notin NoRing
      BY <2>1 DEF Issued, Asking, NoRing
    <3>2. ring[t.rq].tail <= ring'[t.rq].tail /\ ring'[t.rq].tail \in Nat
      BY <1>2, <3>1 DEF Steady
    <3>3. t.n < ring[t.rq].tail
      BY <1>1, <2>1 DEF Ticketed
    <3> QED BY <1>2, <3>1, <3>2, <3>3
  <2> QED BY <2>1
<1> QED BY <1>1, <1>3, <1>4 DEF Ticketed

LEMMA KeepRemembers ==
  ASSUME NEW p \in Thread, Steady(p), NEW o \in Thread, Remembers(o),
         th'[o].seen \subseteq th[o].seen, th'[o].older \subseteq th[o].older
  PROVE  Remembers(o)'
BY DEF Remembers, Steady

LEMMA KeepUsedUp ==
  ASSUME IInv, NEW p \in Thread, Steady(p), NEW o \in Thread, Remembers(o), UsedUp(o),
         th'[o].seen \subseteq th[o].seen,
         th'[o].pc \in Fixing =>
           th[o].pc \in Fixing /\ th'[o].rq = th[o].rq /\ th'[o].n = th[o].n
  PROVE  UsedUp(o)'
<1>1. PICK t \in Locals : t = th[o]
  BY DEF IInv, Shapes
<1>2. ASSUME t.pc \in Fixing, NEW c \in Cells, ring'[t.rq].array[c].val \in t.seen
      PROVE  ring'[t.rq].array[c].idx <= t.n
  <2>1. t.rq \in Live' /\ t.seen \subseteq done
    BY <1>1, <1>2, Here DEF Fixing, NoRing, Remembers, Steady
  <2>2. /\ ring'[t.rq].array[c].val = ring[t.rq].array[c].val
        /\ ring'[t.rq].array[c].idx = ring[t.rq].array[c].idx
    BY <1>2, <2>1 DEF Steady
  <2> QED BY <1>1, <1>2, <2>2 DEF UsedUp
<1> QED BY <1>1, <1>2 DEF UsedUp

LEMMA KeepLed ==
  ASSUME IInv, NEW p \in Thread, Steady(p), NEW o \in Thread, Led(o),
         th'[o].pc \notin NoRing => th[o].pc \notin NoRing /\ th'[o].rq = th[o].rq
                                   /\ (th'[o].pc \in Enq <=> th[o].pc \in Enq),
         th'[o].pc \in {"eswing", "dswing"} =>
           th[o].pc \in {"eswing", "dswing"} /\ th'[o].next = th[o].next,
         th'[o].pc = "publish" => th[o].pc = "publish" /\ th'[o].nrq = th[o].nrq
  PROVE  Led(o)'
<1>1. PICK t \in Locals : t = th[o]
  BY DEF IInv, Shapes
<1>2. t.pc \notin NoRing => t.rq \in Live /\ t.rq \in Ring
  BY <1>1, Here
<1>3. ASSUME t.pc \notin NoRing \cup Enq
      PROVE  head' \in Onward(t.rq)'
  <2>1. head \in Onward(t.rq) /\ head' \in Onward(head)
    BY <1>1, <1>3 DEF Led, Steady
  <2>2. head' \in Onward(t.rq)
    BY <2>1, OnwardTrans
  <2> QED BY <2>2 DEF Steady
<1>4. ASSUME t.pc \in Enq \ {"tail"}
      PROVE  tail' \in Onward(t.rq)'
  <2>1. tail \in Onward(t.rq) /\ tail' \in Onward(tail)
    BY <1>1, <1>4 DEF Led, Steady
  <2>2. tail' \in Onward(t.rq)
    BY <2>1, OnwardTrans
  <2> QED BY <2>2 DEF Steady
<1>5. ASSUME t.pc \in {"eswing", "dswing"}
      PROVE  t.next = ring'[t.rq].next
  <2>1. t.next = ring[t.rq].next /\ t.next \in Live /\ t.rq \in Live
    BY <1>1, <1>2, <1>5 DEF Led, IInv, Pointers, NoRing
  <2>2. t.next # Null
    BY <2>1, RingsAreNumbers DEF Steady
  <2> QED BY <2>1, <2>2 DEF Steady
<1>6. ASSUME t.pc = "publish"
      PROVE  t.nrq = ring'[t.rq].next
  <2>1. t.nrq = ring[t.rq].next /\ t.nrq \in Live /\ t.rq \in Live
    BY <1>1, <1>2, <1>6 DEF Led, IInv, Pointers, NoRing
  <2>2. t.nrq # Null
    BY <2>1, RingsAreNumbers DEF Steady
  <2> QED BY <2>1, <2>2 DEF Steady
<1>7. CASE th'[o].pc \in NoRing
  BY <1>7 DEF Led, NoRing, Enq
<1>8. CASE th'[o].pc \notin NoRing
  <2>1. t.pc \notin NoRing /\ th'[o].rq = t.rq /\ (th'[o].pc \in Enq <=> t.pc \in Enq)
    BY <1>1, <1>8
  <2>2. th'[o].pc \notin Enq => t.pc \notin NoRing \cup Enq
    BY <2>1
  <2>3. th'[o].pc \in Enq \ {"tail"} => t.pc \in Enq \ {"tail"}
    BY <2>1 DEF NoRing
  <2> QED BY <1>1, <1>3, <1>4, <1>5, <1>6, <2>1, <2>2, <2>3 DEF Led
<1> QED BY <1>7, <1>8

(* The others keep all of it; so does p if it keeps its turn or ends it.   *)
LEMMA OthersFit ==
  ASSUME IInv, NEW p \in Thread, Steady(p), NEW o \in Thread, o # p, Fit(o)
  PROVE  Fit(o)'
<1>1. th'[o] = th[o]
  BY DEF Steady, Alone
<1>2. Ticketed(o) /\ Remembers(o) /\ UsedUp(o) /\ Led(o)
  BY DEF Fit
<1>3. th[o].pc = "fixcas" => th[o].fixt < th[o].tt
  BY <1>2 DEF Ticketed
<1> QED BY <1>1, <1>2, <1>3, KeepTicketed, KeepRemembers, KeepUsedUp, KeepLed DEF Fit

LEMMA TurnFit ==
  ASSUME IInv, NEW p \in Thread, Steady(p), Fit(p),
         th'[p].seen \subseteq th[p].seen, th'[p].older \subseteq th[p].older,
         th'[p].pc \notin NoRing =>
           /\ th[p].pc \notin NoRing /\ th'[p].rq = th[p].rq /\ th'[p].n = th[p].n
           /\ th'[p].pc \in Enq <=> th[p].pc \in Enq
           /\ th'[p].pc \in Drawn => th[p].pc \in Drawn
           /\ th'[p].pc \in Issued => th[p].pc \in Issued
           /\ th'[p].pc \in Fixing => th[p].pc \in Fixing,
         th'[p].pc \notin {"eswing", "dswing", "publish"},
         th'[p].pc = "fixcas" => th'[p].fixt < th'[p].tt
  PROVE  Fit(p)'
<1>1. Ticketed(p) /\ Remembers(p) /\ UsedUp(p) /\ Led(p)
  BY DEF Fit
<1>2. th'[p].pc \in Drawn \cup Issued \cup Fixing => th'[p].pc \notin NoRing
  BY DEF Drawn, Issued, Fixing, Hunting, Asking, NoRing
<1>3. Ticketed(p)'
  BY <1>1, <1>2, KeepTicketed
<1>4. Remembers(p)'
  BY <1>1, KeepRemembers
<1>5. UsedUp(p)'
  BY <1>1, <1>2, KeepUsedUp
<1>6. Led(p)'
  BY <1>1, KeepLed
<1> QED BY <1>3, <1>4, <1>5, <1>6 DEF Fit

-----------------------------------------------------------------------------
(* Every step is steady.                                                   *)

LEMMA NextNumbers ==
  ASSUME IInv', NEW q \in Ring
  PROVE  ring'[q].head \in Nat /\ ring'[q].tail \in Nat
<1>1. ring'[q] \in RingRec
  BY DEF IInv, Shapes
<1>2. ring'[q].head \in 0..MaxIndex /\ ring'[q].tail \in 0..MaxIndex
  BY <1>1 DEF RingRec
<1> QED BY <1>2, RingsAreNumbers

LEMMA CalmSteady ==
  ASSUME IInv, IInv', NEW p \in Thread, Calm(p), TailsRise,
         head' \in Onward(head), tail' \in Onward(tail), done \subseteq done'
  PROVE  Steady(p) /\ (Below => Below')
<1>1. Live \subseteq Ring
  BY RingsAreNumbers DEF Live, IInv, Shapes
<1>2. /\ Alone(p) /\ Live' = Live /\ ToSet(taken)' = ToSet(taken)
      /\ \A q \in Ring : /\ ring'[q].array = ring[q].array /\ ring'[q].next = ring[q].next
                         /\ ring'[q].head = ring[q].head /\ ring[q].tail <= ring'[q].tail
  BY DEF Calm, SameEnds, TailsRise, ToSet
<1>3. \A q : Onward(q)' = Onward(q)
  BY <1>2, OnwardKept
<1>4. \A q \in Live : /\ ring[q].head <= ring'[q].head
                      /\ ring'[q].head \in Nat /\ ring'[q].tail \in Nat
                      /\ ring[q].tail \in Nat
                      /\ \A c \in Cells : ring[q].array[c].idx \in Nat
  BY <1>1, <1>2, RingNumbers, NextNumbers
<1>5. Steady(p)
  BY <1>1, <1>2, <1>3, <1>4 DEF Steady
<1>6. ASSUME Below
      PROVE  Below'
  <2>1. ASSUME NEW q \in Live, NEW c \in Cells, ring[q].array[c].val # Empty
        PROVE  ring[q].array[c].idx < ring'[q].tail
    <3>1. ring[q].array[c].idx < ring[q].tail
      BY <1>6, <2>1 DEF Below
    <3>2. ring[q].tail <= ring'[q].tail
      BY <1>1, <1>2
    <3> QED BY <1>4, <3>1, <3>2
  <2> QED BY <1>1, <1>2, <2>1 DEF Below
<1> QED BY <1>5, <1>6

LEMMA StrikeSteady ==
  ASSUME IInv, IInv', NEW p \in Thread, th[p].pc \notin NoRing, NEW x \in CellRec, Strikes(p, x),
         UNCHANGED <<head, tail>>, done \subseteq done', ToSet(taken) \subseteq ToSet(taken)',
         x.val \in done => x.val = Cell(p).val /\ x.idx = Cell(p).idx,
         x.val # Empty => x.idx < ring[th[p].rq].tail
  PROVE  Steady(p) /\ (Below => Below')
<1>1. Live \subseteq Ring /\ head \in Ring /\ tail \in Ring
  BY RingsAreNumbers DEF Live, IInv, Shapes, Pointers
<1>2. PICK k : k = th[p].rq
  OBVIOUS
<1>3. PICK s : s = Slot(p)
  OBVIOUS
<1>4. /\ Alone(p) /\ Live' = Live
      /\ \A q \in Ring : /\ ring'[q].next = ring[q].next /\ ring'[q].head = ring[q].head
                         /\ ring'[q].tail = ring[q].tail
      /\ ring'[k].array[s] = x /\ Cell(p) = ring[k].array[s]
      /\ \A q \in Ring, c \in Cells : q # k \/ c # s => ring'[q].array[c] = ring[q].array[c]
  BY <1>2, <1>3 DEF Strikes, Cell
<1>5. \A q : Onward(q)' = Onward(q)
  BY <1>4, OnwardKept
<1>6. \A q \in Live : /\ ring[q].head <= ring'[q].head /\ ring[q].tail <= ring'[q].tail
                      /\ ring'[q].head \in Nat /\ ring'[q].tail \in Nat
  BY <1>1, <1>4, RingNumbers
<1>7. ASSUME NEW q \in Live, NEW c \in Cells, ring'[q].array[c].val \in done
      PROVE  /\ ring'[q].array[c].val = ring[q].array[c].val
             /\ ring'[q].array[c].idx = ring[q].array[c].idx
  <2>1. CASE q = k /\ c = s
    BY <1>4, <1>7, <2>1
  <2>2. CASE q # k \/ c # s
    BY <1>1, <1>4, <2>2
  <2> QED BY <2>1, <2>2
<1>8. Steady(p)
  <2>1. head' \in Onward(head) /\ tail' \in Onward(tail)
    BY <1>1, OnwardSelf
  <2> QED BY <1>1, <1>4, <1>5, <1>6, <1>7, <2>1 DEF Steady
<1>9. ASSUME Below
      PROVE  Below'
  <2>1. ASSUME NEW q \in Live, NEW c \in Cells, ring'[q].array[c].val # Empty
        PROVE  ring'[q].array[c].idx < ring'[q].tail
    <3>1. CASE q = k /\ c = s
      BY <1>1, <1>2, <1>4, <2>1, <3>1
    <3>2. CASE q # k \/ c # s
      BY <1>1, <1>4, <1>9, <2>1, <3>2 DEF Below
    <3> QED BY <3>1, <3>2
  <2> QED BY <1>4, <2>1 DEF Below
<1> QED BY <1>8, <1>9

LEMMA DrawSteady ==
  ASSUME IInv, IInv', NEW p \in Thread, Draws(p)
  PROVE  Steady(p) /\ (Below => Below')
<1>1. PICK k : k = th[p].rq
  OBVIOUS
<1>2. /\ Alone(p) /\ Live' = Live /\ Live \subseteq Ring /\ ToSet(taken)' = ToSet(taken)
      /\ UNCHANGED <<head, tail, done>>
      /\ \A q \in Ring : ring'[q].array = ring[q].array /\ ring'[q].next = ring[q].next
      /\ ring'[k].head = ring[k].head + 1
      /\ \A q \in Ring : q # k => ring'[q].head = ring[q].head
      /\ \A q \in Ring : ring'[q].tail = ring[q].tail
  BY <1>1 DEF Draws, SameEnds, ToSet
<1>3. \A q : Onward(q)' = Onward(q)
  BY <1>2, OnwardKept
<1>4. \A q \in Live : /\ ring[q].head <= ring'[q].head /\ ring[q].tail <= ring'[q].tail
                      /\ ring'[q].head \in Nat /\ ring'[q].tail \in Nat
  <2>1. \A q \in Live : ring'[q].head = ring[q].head \/ ring'[q].head = ring[q].head + 1
    BY <1>2
  <2>2. \A q \in Live : ring[q].head \in Nat /\ ring[q].tail \in Nat
    BY <1>2, RingNumbers
  <2> QED BY <1>2, <2>1, <2>2
<1>5. head' \in Onward(head) /\ tail' \in Onward(tail)
  BY <1>2, OnwardSelf DEF IInv, Pointers
<1>6. Below => Below'
  BY <1>2 DEF Below
<1> QED BY <1>2, <1>3, <1>4, <1>5, <1>6 DEF Steady

LEMMA LinkSteady ==
  ASSUME IInv, IInv', Chain, NEW p \in Thread, Link(p)
  PROVE  Steady(p) /\ (Below => Below')
<1>1. PICK m \in Ring : Attaches(p, m) /\ m \notin Live
  BY LinkFields
<1>2. /\ Live \subseteq Ring /\ UNCHANGED <<head, tail, done>> /\ ToSet(taken)' = ToSet(taken)
  BY LinkFields DEF ToSet
<1>3. Alone(p) /\ Live \subseteq Live' /\ Live' \subseteq Live \cup {m}
  BY <1>1 DEF Attaches, Alone
<1>4. \A q \in Live :
        /\ ring'[q].array = ring[q].array /\ ring'[q].head = ring[q].head
        /\ ring'[q].tail = ring[q].tail /\ (ring[q].next # Null => ring'[q].next = ring[q].next)
  <2>1. \A q \in Live : q \in Ring /\ q # m
    BY <1>1, <1>2
  <2> QED BY <1>1, <2>1 DEF Attaches
<1>5. \A q : Onward(q) \subseteq Onward(q)'
  BY <1>1, LinkOnward
<1>6. head' \in Onward(head) /\ tail' \in Onward(tail)
  BY <1>2, OnwardSelf DEF IInv, Pointers
<1>7. \A q \in Live : /\ ring[q].head <= ring'[q].head /\ ring[q].tail <= ring'[q].tail
                      /\ ring'[q].head \in Nat /\ ring'[q].tail \in Nat
  BY <1>2, <1>4, RingNumbers
<1>8. Steady(p)
  <2>1. ASSUME NEW q \in Live', NEW c \in Cells, ring'[q].array[c].val \in done
        PROVE  q \in Live
    <3>1. Empty \notin done /\ th[p].arg \notin done
      BY LinkFields, EnqueuedValues DEF Enqueued
    <3>2. ring'[m].array[c].val \in {th[p].arg, Empty}
      BY <1>1 DEF Attaches
    <3> QED BY <1>3, <2>1, <3>1, <3>2
  <2> QED BY <1>2, <1>3, <1>4, <1>5, <1>6, <1>7, <2>1 DEF Steady
<1>9. ASSUME Below
      PROVE  Below'
  <2>1. \A c \in Cells : ring'[m].array[c].val # Empty => ring'[m].array[c].idx < ring'[m].tail
    BY <1>1 DEF Attaches
  <2> QED BY <1>3, <1>4, <1>9, <2>1 DEF Below
<1> QED BY <1>8, <1>9

-----------------------------------------------------------------------------
(* The third invariant, step by step.                                      *)

LEMMA FitStep ==
  ASSUME IInv, EInv, NEW p \in Thread, Steady(p) /\ (Below => Below'), Fit(p)'
  PROVE  Steady(p) /\ EInv'
<1>1. \A o \in Thread : Fit(o) /\ (o # p => Fit(o)')
  BY OthersFit DEF EInv
<1> QED BY <1>1 DEF EInv

LEMMA PlainFit ==
  ASSUME IInv, IInv', EInv, NEW p \in Thread, Plain(p)
  PROVE  Steady(p) /\ EInv'
<1>1. head \in Ring /\ tail \in Ring
  BY RingsAreNumbers DEF Live, IInv, Shapes, Pointers
<1>2. Steady(p) /\ (Below => Below')
  BY <1>1, CalmSteady, OnwardSelf DEF Plain
<1>3. Fit(p)
  BY DEF EInv
<1>4. Fit(p)'
  BY <1>2, <1>3, TurnFit DEF Plain, SameTurn
<1> QED BY <1>2, <1>4, FitStep

LEMMA CheckEmptyFit ==
  ASSUME IInv, IInv', EInv, NEW p \in Thread, CheckEmpty(p)
  PROVE  Steady(p) /\ EInv'
<1>1. CASE Plain(p)
  BY <1>1, PlainFit
<1>2. CASE /\ Calm(p) /\ TailsRise /\ th[p].pc = "check" /\ th'[p].pc = "fix"
           /\ SameTurn(th'[p], th[p]) /\ PredLeq(ring[th[p].rq].tail, th[p].n)
  <2>1. head \in Ring /\ tail \in Ring /\ UNCHANGED <<head, tail, done>>
    BY RingsAreNumbers DEF Live, IInv, Shapes, Pointers, CheckEmpty, hist
  <2>2. Steady(p) /\ (Below => Below')
    BY <1>2, <2>1, CalmSteady, OnwardSelf
  <2>3. Ticketed(p) /\ Remembers(p) /\ Led(p) /\ Below
    BY DEF EInv, Fit
  <2>4. Ticketed(p)'
    BY <1>2, <2>2, <2>3, KeepTicketed DEF SameTurn, Drawn, Issued, Asking
  <2>5. Remembers(p)'
    BY <1>2, <2>2, <2>3, KeepRemembers DEF SameTurn
  <2>6. Led(p)'
    BY <1>2, <2>2, <2>3, KeepLed DEF SameTurn, NoRing, Enq
  <2>7. UsedUp(p)'
    <3>1. /\ th[p].rq \in Live /\ th[p].rq \in Ring /\ th[p].n \in Nat
          /\ ring[th[p].rq].tail \in Nat
          /\ \A c \in Cells : ring[th[p].rq].array[c].idx \in Nat
      BY <1>2, Here, RingNumbers DEF NoRing
    <3>2. ASSUME NEW c \in Cells, ring[th[p].rq].array[c].val \in th[p].seen
          PROVE  ring[th[p].rq].array[c].idx <= th[p].n
      <4>1. ring[th[p].rq].array[c].val # Empty
        BY <2>3, <3>2, EnqueuedValues DEF Remembers, Enqueued
      <4>2. ring[th[p].rq].array[c].idx < ring[th[p].rq].tail
        BY <2>3, <3>1, <4>1 DEF Below
      <4> QED BY <1>2, <3>1, <4>2 DEF PredLeq
    <3>3. ring'[th[p].rq].array = ring[th[p].rq].array
      BY <1>2, <3>1 DEF Calm, SameEnds
    <3> QED BY <1>2, <3>2, <3>3 DEF UsedUp, SameTurn
  <2>8. Fit(p)'
    BY <2>4, <2>5, <2>6, <2>7 DEF Fit
  <2> QED BY <2>2, <2>8, FitStep
<1> QED BY <1>1, <1>2, CheckEmptyCalm

LEMMA FixFit ==
  ASSUME IInv, IInv', EInv, NEW p \in Thread, FixRead(p) \/ FixHead(p) \/ FixCheck(p) \/ FixTail(p)
  PROVE  Steady(p) /\ EInv'
<1>1. /\ Calm(p) /\ SameTurn(th'[p], th[p]) /\ UNCHANGED <<head, tail, done, prec>>
      /\ th[p].pc \in {"fix", "fixh", "fixt", "fixcas"} /\ th'[p].pc \in Fixing
      /\ th'[p].pc = "fixcas" => th'[p].fixt < th'[p].tt
      /\ (th[p].pc = "fixcas" => th[p].fixt < th[p].tt) => TailsRise
  BY FixCalm
<1>2. Fit(p)
  BY DEF EInv
<1>3. TailsRise /\ head \in Ring /\ tail \in Ring
  BY <1>1, <1>2, RingsAreNumbers DEF Fit, Ticketed, Live, IInv, Shapes, Pointers
<1>4. Steady(p) /\ (Below => Below')
  BY <1>1, <1>3, CalmSteady, OnwardSelf
<1>5. /\ th[p].pc \notin NoRing \cup Enq /\ th'[p].pc \notin NoRing \cup Enq
      /\ th[p].pc \in Drawn \cap Fixing /\ th'[p].pc \notin Issued
      /\ th'[p].pc \notin {"eswing", "dswing", "publish"}
  BY <1>1 DEF NoRing, Enq, Fixing, Drawn, Issued, Asking
<1>6. Fit(p)'
  BY <1>1, <1>2, <1>4, <1>5, TurnFit DEF SameTurn
<1> QED BY <1>4, <1>6, FitStep

LEMMA BeginFit ==
  ASSUME IInv, IInv', EInv, NEW p \in Thread, BeginEnqueue(p) \/ BeginDequeue(p)
  PROVE  Steady(p) /\ EInv'
<1>1. head \in Ring /\ tail \in Ring /\ UNCHANGED <<head, tail, done>>
  <2>1. head \in Ring /\ tail \in Ring
    BY RingsAreNumbers DEF Live, IInv, Shapes, Pointers
  <2> QED BY <2>1 DEF BeginEnqueue, BeginDequeue
<1>2. Calm(p) /\ TailsRise /\ th'[p].pc \in {"tail", "head"}
  BY BeginEnqueueCalm, BeginDequeueCalm
<1>3. Steady(p) /\ (Below => Below')
  BY <1>1, <1>2, CalmSteady, OnwardSelf
<1>4. Ticketed(p)' /\ UsedUp(p)' /\ Led(p)'
  BY <1>2 DEF Ticketed, UsedUp, Led, Drawn, Issued, Fixing, Hunting, Asking, NoRing, Enq
<1>5. Remembers(p)'
  <2>1. CASE BeginEnqueue(p)
    BY <1>3, <2>1, BeginEnqueueCalm, KeepRemembers DEF EInv, Fit
  <2>2. CASE BeginDequeue(p)
    BY <1>3, <2>2, BeginDequeueCalm DEF Remembers, Steady
  <2> QED BY <2>1, <2>2
<1>6. Fit(p)'
  BY <1>4, <1>5 DEF Fit
<1> QED BY <1>3, <1>6, FitStep

LEMMA PointerFit ==
  ASSUME IInv, IInv', EInv, NEW p \in Thread, ReadTailPtr(p) \/ ReadHeadPtr(p)
  PROVE  Steady(p) /\ EInv'
<1>1. head \in Ring /\ tail \in Ring /\ UNCHANGED <<head, tail, done>>
  BY RingsAreNumbers DEF Live, IInv, Shapes, Pointers, ReadTailPtr, ReadHeadPtr, hist
<1>2. /\ Calm(p) /\ TailsRise /\ th'[p].seen = th[p].seen /\ th'[p].older = th[p].older
      /\ \/ th'[p].pc = "enext" /\ th'[p].rq = tail
         \/ th'[p].pc = "dfaa" /\ th'[p].rq = head
  BY PointerCalm, PointerFields
<1>3. Steady(p) /\ (Below => Below')
  BY <1>1, <1>2, CalmSteady, OnwardSelf
<1>4. Ticketed(p)' /\ UsedUp(p)'
  BY <1>2 DEF Ticketed, UsedUp, Drawn, Issued, Fixing, Hunting, Asking
<1>5. Remembers(p)'
  BY <1>2, <1>3, KeepRemembers DEF EInv, Fit
<1>6. Led(p)'
  <2>1. \A q \in Ring : q \in Onward(q)'
    BY <1>3, OnwardSelf DEF Steady
  <2>2. PICK r : r = th'[p].rq
    OBVIOUS
  <2>3. r \in Onward(r)'
    BY <1>1, <1>2, <2>1, <2>2
  <2> QED BY <1>1, <1>2, <2>2, <2>3 DEF Led, NoRing, Enq
<1>7. Fit(p)'
  BY <1>4, <1>5, <1>6 DEF Fit
<1> QED BY <1>3, <1>7, FitStep

LEMMA NextFit ==
  ASSUME IInv, IInv', EInv, NEW p \in Thread, ReadNext(p) \/ ReadNextRing(p)
  PROVE  Steady(p) /\ EInv'
<1>1. /\ head \in Ring /\ tail \in Ring /\ UNCHANGED <<head, tail, done>>
      /\ th[p].pc \in {"enext", "dnext"} /\ ring' = ring
      /\ ReadNext(p) => th[p].pc = "enext"
      /\ ReadNextRing(p) => th[p].pc = "dnext"
  BY RingsAreNumbers DEF Live, IInv, Shapes, Pointers, ReadNext, ReadNextRing, hist
<1>2. /\ Calm(p) /\ TailsRise /\ SameTurn(th'[p], th[p]) /\ th'[p].next = ring[th[p].rq].next
      /\ ReadNext(p) => th'[p].pc \in {"efaa", "eswing"}
      /\ ReadNextRing(p) => th'[p].pc = "dswing"
  BY PointerCalm, NextFields
<1>3. Steady(p) /\ (Below => Below')
  BY <1>1, <1>2, CalmSteady, OnwardSelf
<1>4. Ticketed(p)' /\ UsedUp(p)'
  BY <1>2 DEF Ticketed, UsedUp, Drawn, Issued, Fixing, Hunting, Asking
<1>5. Remembers(p)'
  BY <1>2, <1>3, KeepRemembers DEF EInv, Fit, SameTurn
<1>6. Led(p)'
  <2>1. Led(p)
    BY DEF EInv, Fit
  <2>2. \A q : Onward(q) \subseteq Onward(q)'
    BY <1>3 DEF Steady
  <2>3. CASE ReadNext(p)
    <3>1. tail \in Onward(th[p].rq)
      BY <1>1, <2>1, <2>3 DEF Led, Enq
    <3>2. PICK r : r = th'[p].rq
      OBVIOUS
    <3>3. tail' \in Onward(r)'
      BY <1>1, <1>2, <2>2, <3>1, <3>2 DEF SameTurn
    <3> QED BY <1>1, <1>2, <2>3, <3>2, <3>3 DEF Led, NoRing, Enq, SameTurn
  <2>4. CASE ReadNextRing(p)
    <3>1. head \in Onward(th[p].rq)
      BY <1>1, <2>1, <2>4 DEF Led, NoRing, Enq
    <3>2. PICK r : r = th'[p].rq
      OBVIOUS
    <3>3. head' \in Onward(r)'
      BY <1>1, <1>2, <2>2, <3>1, <3>2 DEF SameTurn
    <3> QED BY <1>1, <1>2, <2>4, <3>2, <3>3 DEF Led, NoRing, Enq, SameTurn
  <2> QED BY <2>3, <2>4
<1>7. Fit(p)'
  BY <1>4, <1>5, <1>6 DEF Fit
<1> QED BY <1>3, <1>7, FitStep

LEMMA SwingFit ==
  ASSUME IInv, IInv', EInv, NEW p \in Thread, SwingTail(p) \/ SwingHead(p)
  PROVE  Steady(p) /\ EInv'
<1>1. /\ head \in Ring /\ tail \in Ring /\ UNCHANGED done /\ th[p].pc \in {"eswing", "dswing"}
  BY RingsAreNumbers DEF Live, IInv, Shapes, Pointers, SwingTail, SwingHead, hist
<1>2. /\ Calm(p) /\ TailsRise /\ th'[p].seen = th[p].seen /\ th'[p].older = th[p].older
      /\ th'[p].pc \in {"tail", "head"}
  BY PointerCalm
<1>3. /\ th[p].rq \in Ring /\ th[p].next = ring[th[p].rq].next /\ th[p].next # Null
  <2>1. th[p].next \in Live /\ Live \subseteq Ring
    <3>1. Live \subseteq Ring
      BY RingsAreNumbers DEF Live, IInv, Shapes
    <3>2. th[p].next \in Live
      BY <1>1 DEF IInv, Pointers
    <3> QED BY <3>1, <3>2
  <2>2. th[p].rq \in Ring
    BY <1>1, Here DEF NoRing
  <2>3. Led(p)
    BY DEF EInv, Fit
  <2>4. th[p].next = ring[th[p].rq].next
    BY <1>1, <2>3 DEF Led
  <2> QED BY <2>1, <2>2, <2>4, RingsAreNumbers
<1>4. th[p].next \in Onward(th[p].rq)
  BY <1>3, OnwardNext
<1>5. head' \in Onward(head) /\ tail' \in Onward(tail)
  BY <1>1, <1>4, OnwardSelf DEF SwingTail, SwingHead
<1>6. Steady(p) /\ (Below => Below')
  BY <1>1, <1>2, <1>5, CalmSteady
<1>7. Fit(p)
  BY DEF EInv
<1>8. Fit(p)'
  BY <1>2, <1>6, <1>7, TurnFit DEF NoRing
<1> QED BY <1>6, <1>8, FitStep

LEMMA TakeTicketFit ==
  ASSUME IInv, IInv', EInv, NEW p \in Thread, TakeTicket(p)
  PROVE  Steady(p) /\ EInv'
<1>1. head \in Ring /\ tail \in Ring /\ UNCHANGED <<head, tail, done>>
  BY RingsAreNumbers DEF Live, IInv, Shapes, Pointers, TakeTicket, hist
<1>2. /\ Calm(p) /\ TailsRise /\ th[p].pc = "efaa" /\ th'[p].pc \in {"link", "eidx"}
      /\ th'[p].rq = th[p].rq /\ th'[p].older = th[p].older /\ th'[p].seen = th[p].seen
      /\ th'[p].n = ring[th[p].rq].tail /\ ring'[th[p].rq].tail = ring[th[p].rq].tail + 1
  BY TakeTicketCalm, TicketFields
<1>3. Steady(p) /\ (Below => Below')
  BY <1>1, <1>2, CalmSteady, OnwardSelf
<1>4. Ticketed(p)'
  <2>1. ring[th[p].rq].tail \in Nat
    BY <1>2, Here, RingNumbers DEF NoRing
  <2>2. th'[p].n < ring'[th'[p].rq].tail
    BY <1>2, <2>1
  <2> QED BY <1>2, <2>2 DEF Ticketed, Drawn, Hunting, Fixing
<1>5. UsedUp(p)'
  BY <1>2 DEF UsedUp, Fixing
<1>6. Remembers(p)'
  BY <1>2, <1>3, KeepRemembers DEF EInv, Fit
<1>7. Led(p)'
  BY <1>2, <1>3, KeepLed DEF EInv, Fit, NoRing, Enq
<1>8. Fit(p)'
  BY <1>4, <1>5, <1>6, <1>7 DEF Fit
<1> QED BY <1>3, <1>8, FitStep

LEMMA PublishFit ==
  ASSUME IInv, IInv', EInv, NEW p \in Thread, Publish(p)
  PROVE  Steady(p) /\ EInv'
<1>1. /\ head \in Ring /\ tail \in Ring /\ head' = head /\ done \subseteq done'
  BY RingsAreNumbers DEF Live, IInv, Shapes, Pointers, Publish
<1>2. /\ Calm(p) /\ TailsRise /\ th[p].pc = "publish" /\ th'[p].pc = "idle"
      /\ th'[p].seen = {} /\ th'[p].older = {}
  BY PublishCalm
<1>3. /\ th[p].rq \in Ring /\ th[p].nrq = ring[th[p].rq].next /\ th[p].nrq # Null
  <2>1. th[p].nrq \in Live /\ Live \subseteq Ring
    <3>1. Live \subseteq Ring
      BY RingsAreNumbers DEF Live, IInv, Shapes
    <3>2. th[p].nrq \in Live
      BY <1>2 DEF IInv, Pointers
    <3> QED BY <3>1, <3>2
  <2>2. th[p].rq \in Ring
    BY <1>2, Here DEF NoRing
  <2>3. Led(p)
    BY DEF EInv, Fit
  <2>4. th[p].nrq = ring[th[p].rq].next
    BY <1>2, <2>3 DEF Led
  <2> QED BY <2>1, <2>2, <2>4, RingsAreNumbers
<1>4. th[p].nrq \in Onward(th[p].rq)
  BY <1>3, OnwardNext
<1>5. head' \in Onward(head) /\ tail' \in Onward(tail)
  BY <1>1, <1>4, OnwardSelf DEF Publish
<1>6. Steady(p) /\ (Below => Below')
  BY <1>1, <1>2, <1>5, CalmSteady
<1>7. Fit(p)
  BY DEF EInv
<1>8. Fit(p)'
  BY <1>2, <1>6, <1>7, TurnFit DEF NoRing
<1> QED BY <1>6, <1>8, FitStep

LEMMA PutFit ==
  ASSUME IInv, IInv', EInv, NEW p \in Thread, Put(p), Unmoved(p)
  PROVE  Steady(p) /\ EInv'
<1>1. PICK x \in CellRec :
        /\ x.val = th[p].arg /\ x.idx = th[p].n /\ Strikes(p, x)
        /\ th[p].pc = "put" /\ th'[p].pc = "idle" /\ th'[p].seen = {} /\ th'[p].older = {}
        /\ done' = done \cup {th[p].arg} /\ th[p].arg \notin Enqueued
        /\ UNCHANGED <<head, tail, taken>>
  BY PutStrikes
<1>2. Fit(p)
  BY DEF EInv
<1>3. x.idx < ring[th[p].rq].tail
  BY <1>1, <1>2 DEF Fit, Ticketed, Issued, Asking
<1>4. th[p].pc \notin NoRing /\ ToSet(taken)' = ToSet(taken) /\ x.val \notin done
  BY <1>1 DEF NoRing, ToSet, Enqueued
<1>5. Steady(p) /\ (Below => Below')
  BY <1>1, <1>3, <1>4, StrikeSteady
<1>6. Fit(p)'
  BY <1>1, <1>2, <1>5, TurnFit DEF NoRing
<1> QED BY <1>5, <1>6, FitStep

LEMMA TakeFit ==
  ASSUME IInv, IInv', EInv, NEW p \in Thread, Take(p), Unmoved(p)
  PROVE  Steady(p) /\ EInv'
<1>1. PICK x \in CellRec :
        /\ x.val = Empty /\ Strikes(p, x)
        /\ th[p].pc = "take" /\ th'[p].pc = "idle" /\ th'[p].seen = {} /\ th'[p].older = {}
        /\ ToSet(taken)' = ToSet(taken) \cup {th[p].val}
        /\ UNCHANGED <<head, tail, done>>
  BY TakeStrikes
<1>2. th[p].pc \notin NoRing /\ x.val \notin done
  BY <1>1, EnqueuedValues DEF NoRing, Enqueued
<1>3. Steady(p) /\ (Below => Below')
  BY <1>1, <1>2, StrikeSteady
<1>4. Fit(p)
  BY DEF EInv
<1>5. Fit(p)'
  BY <1>1, <1>3, <1>4, TurnFit DEF NoRing
<1> QED BY <1>3, <1>5, FitStep

LEMMA MarkFit ==
  ASSUME IInv, IInv', TInv, EInv, NEW p \in Thread, MarkUnsafe(p) \/ Advance(p), Unmoved(p)
  PROVE  Steady(p) /\ EInv'
<1>1. PICK x \in CellRec :
        /\ x.val = Cell(p).val /\ Strikes(p, x)
        /\ MarkUnsafe(p) => x.idx = Cell(p).idx
        /\ Advance(p) => th[p].pc = "advance"
        /\ th[p].pc \in {"mark", "advance"} /\ th'[p].pc = "check" /\ SameTurn(th'[p], th[p])
        /\ UNCHANGED <<head, tail, done, taken>>
  BY MarkStrikes, Zenon
<1>2. th[p].pc \notin NoRing /\ ToSet(taken)' = ToSet(taken) /\ Empty \notin done
  BY <1>1, EnqueuedValues DEF NoRing, ToSet, Enqueued
<1>3. Advance(p) => x.val = Empty
  <2>1. Sound(th[p], Cell(p)) /\ Cell(p).val = th[p].val
    BY UnmovedFields DEF TInv, Sounds
  <2>2. th[p].pc = "advance" => th[p].val = Empty
    BY <2>1, Zenon DEF Sound
  <2> QED BY <1>1, <2>1, <2>2
<1>4. x.val # Empty => x.idx < ring[th[p].rq].tail
  <2>1. th[p].rq \in Live /\ Slot(p) \in Cells
    BY <1>2, Here
  <2> QED BY <1>1, <1>3, <2>1 DEF EInv, Below, Cell
<1>5. Steady(p) /\ (Below => Below')
  BY <1>1, <1>2, <1>3, <1>4, StrikeSteady
<1>6. Fit(p)
  BY DEF EInv
<1>7. Fit(p)'
  BY <1>1, <1>5, <1>6, TurnFit DEF SameTurn, NoRing, Enq, Drawn, Hunting, Issued, Asking, Fixing
<1> QED BY <1>5, <1>7, FitStep

LEMMA DrawFit ==
  ASSUME IInv, IInv', EInv, NEW p \in Thread, Draws(p)
  PROVE  Steady(p) /\ EInv'
<1>1. Steady(p) /\ (Below => Below')
  BY DrawSteady
<1>2. /\ th[p].pc = "dfaa" /\ th'[p].pc = "didx" /\ th'[p].rq = th[p].rq
      /\ th'[p].n = ring[th[p].rq].head /\ ring[th[p].rq].head \in Nat
      /\ ring'[th[p].rq].head = ring[th[p].rq].head + 1
      /\ th'[p].older = th[p].older /\ th'[p].seen = th[p].seen
  BY DEF Draws
<1>3. Ticketed(p)'
  <2>1. th'[p].n < ring'[th'[p].rq].head
    BY <1>2
  <2> QED BY <1>2, <2>1 DEF Ticketed, Issued, Asking
<1>4. UsedUp(p)'
  BY <1>2 DEF UsedUp, Fixing
<1>5. Remembers(p)'
  BY <1>1, <1>2, KeepRemembers DEF EInv, Fit
<1>6. Led(p)'
  BY <1>1, <1>2, KeepLed DEF EInv, Fit, NoRing, Enq
<1>7. Fit(p)'
  BY <1>3, <1>4, <1>5, <1>6 DEF Fit
<1> QED BY <1>1, <1>7, FitStep

LEMMA LinkFit ==
  ASSUME IInv, IInv', TInv, EInv, NEW p \in Thread, Link(p)
  PROVE  Steady(p) /\ EInv'
<1>1. PICK m \in Ring : Attaches(p, m) /\ m \notin Live
  BY LinkFields
<1>2. th[p].pc = "link" /\ th[p].rq \in Live /\ Live \subseteq Ring /\ UNCHANGED tail
  BY LinkFields
<1>3. Steady(p) /\ (Below => Below')
  BY LinkSteady DEF TInv
<1>4. /\ th'[p].older \subseteq th[p].older /\ th'[p].seen \subseteq th[p].seen
      /\ th'[p].pc \in {"publish", "tail"}
      /\ th'[p].pc = "publish" => /\ th'[p].rq = th[p].rq /\ th'[p].nrq = m
                                  /\ ring'[th[p].rq].next = m
  <2>1. th[p].rq \in Ring /\ th[p].rq # m
    BY <1>1, <1>2
  <2> QED BY <1>1, <2>1 DEF Attaches
<1>5. Ticketed(p)' /\ UsedUp(p)'
  BY <1>4 DEF Ticketed, UsedUp, Drawn, Issued, Fixing, Hunting, Asking
<1>6. Remembers(p)'
  BY <1>3, <1>4, KeepRemembers DEF EInv, Fit
<1>7. Led(p)'
  <2>1. tail \in Onward(th[p].rq)
    BY <1>2 DEF EInv, Fit, Led, Enq
  <2>2. PICK r : r = th'[p].rq
    OBVIOUS
  <2>3. th'[p].pc = "publish" => tail' \in Onward(r)'
    BY <1>2, <1>3, <1>4, <2>1, <2>2 DEF Steady
  <2> QED BY <1>4, <2>2, <2>3 DEF Led, NoRing, Enq
<1>8. Fit(p)'
  BY <1>5, <1>6, <1>7 DEF Fit
<1> QED BY <1>3, <1>8, FitStep

-----------------------------------------------------------------------------
(* The third invariant holds.                                              *)

LEMMA InitEInv ==
  ASSUME Init
  PROVE  EInv
<1>1. PICK m : Starts(m)
  BY InitFields
<1>2. \A p \in Thread : th[p].pc = "idle" /\ th[p].seen = {} /\ th[p].older = {}
  BY <1>1 DEF Starts, Idle
<1>3. \A p \in Thread : Fit(p)
  BY <1>2 DEF Fit, Ticketed, Remembers, UsedUp, Led, Drawn, Issued, Fixing, Hunting, Asking,
               NoRing, Enq
<1>4. Below
  <2>1. Live = {1} /\ 1 \in Ring /\ ring[1].tail = m
    BY <1>1, RingsAreNumbers DEF Starts
  <2>2. \A c \in Cells : ring[1].array[c].val # Empty => c < m
    BY <1>1 DEF Starts
  <2>3. \A c \in Cells : ring[1].array[c].idx = c
    BY <1>1, <2>1 DEF Starts
  <2> QED BY <2>1, <2>2, <2>3 DEF Below
<1> QED BY <1>3, <1>4 DEF EInv

LEMMA StutterEInv ==
  ASSUME EInv, UNCHANGED vars
  PROVE  EInv'
<1>1. /\ Live' = Live /\ ToSet(taken)' = ToSet(taken)
      /\ ring' = ring /\ th' = th /\ UNCHANGED <<head, tail, done>>
  BY DEF vars, Live, ToSet
<1>2. \A q : Onward(q)' = Onward(q)
  BY <1>1, OnwardKept
<1>3. Below'
  BY <1>1 DEF EInv, Below
<1>4. ASSUME NEW p \in Thread
      PROVE  Fit(p)'
  <2>1. Fit(p)
    BY DEF EInv
  <2>2. Ticketed(p)' /\ Remembers(p)' /\ UsedUp(p)'
    BY <1>1, <2>1 DEF Fit, Ticketed, Remembers, UsedUp
  <2>3. Led(p)'
    BY <1>1, <1>2, <2>1 DEF Fit, Led
  <2> QED BY <2>2, <2>3 DEF Fit
<1> QED BY <1>3, <1>4 DEF EInv

(* Every step of a thread is steady and keeps the invariant.               *)
LEMMA ThreadFit ==
  ASSUME IInv, IInv', TInv, EInv, NEW p \in Thread, Enqueue(p) \/ Dequeue(p)
  PROVE  Steady(p) /\ EInv'
<1>1. ASSUME Put(p) \/ Take(p) \/ MarkUnsafe(p) \/ Advance(p) \/ CheckHead(p)
      PROVE  Steady(p) /\ EInv'
  <2>1. CASE Unmoved(p) /\ ~CheckHead(p)
    BY <1>1, <2>1, PutFit, TakeFit, MarkFit
  <2>2. CASE ~Unmoved(p) \/ CheckHead(p)
    <3>1. UNCHANGED ring
      BY <1>1, <2>2 DEF Put, Take, MarkUnsafe, Advance, CheckHead
    <3>2. Plain(p)
      BY <1>1, <2>2, <3>1, PlainFailures
    <3> QED BY <3>2, PlainFit
  <2> QED BY <2>1, <2>2
<1>2. CASE Enqueue(p)
  BY <1>1, <1>2, BeginFit, PointerFit, NextFit, SwingFit, TakeTicketFit, PlainReads, PlainFull,
     ClosePlain, PlainFit, LinkFit, PublishFit DEF Enqueue
<1>3. CASE Dequeue(p)
  BY <1>1, <1>3, BeginFit, PointerFit, DrawStep, DrawFit, PlainReads, PlainFit, CheckEmptyFit,
     FixFit, ReturnEmptyPlain, NextFit, SwingFit DEF Dequeue
<1> QED BY <1>2, <1>3

LEMMA NextEInv == IInv /\ IInv' /\ TInv /\ EInv /\ [Next]_vars => EInv'
<1> SUFFICES ASSUME IInv, IInv', TInv, EInv, [Next]_vars PROVE EInv'
  OBVIOUS
<1>1. CASE UNCHANGED vars
  BY <1>1, StutterEInv
<1>2. CASE Terminated
  BY <1>2, StutterEInv DEF Terminated
<1> QED BY <1>1, <1>2, ThreadFit DEF Next

LEMMA FitHolds == Spec => [](IInv /\ TInv /\ EInv)
<1>1. Init => IInv /\ TInv /\ EInv
  BY InitIInv, InitTInv, InitEInv
<1>2. (IInv /\ TInv /\ EInv) /\ [Next]_vars => (IInv /\ TInv /\ EInv)'
  BY NextIInv, NextTInv, NextEInv
<1> QED BY <1>1, <1>2, PTL DEF Spec

(* What a dequeuer does when it found the ring used up.                    *)
LEMMA AtNext ==
  ASSUME NEW p \in Thread, th[p].pc = "dnext", Enqueue(p) \/ Dequeue(p)
  PROVE  ReturnEmpty(p) \/ ReadNextRing(p)
<1>1. ~Enqueue(p)
  BY DEF Enqueue, BeginEnqueue, ReadTailPtr, ReadNext, SwingTail, TakeTicket, ReadIdx, Judge,
         CheckHead, Put, CheckFull, Close, Link, Publish
<1>2. /\ ~BeginDequeue(p) /\ ~ReadHeadPtr(p) /\ ~DrawTicket(p) /\ ~Examine(p) /\ ~Take(p)
      /\ ~MarkUnsafe(p) /\ ~Wait(p) /\ ~Advance(p) /\ ~CheckEmpty(p) /\ ~FixRead(p)
      /\ ~FixHead(p) /\ ~FixCheck(p) /\ ~FixTail(p) /\ ~SwingHead(p)
  BY DEF BeginDequeue, ReadHeadPtr, DrawTicket, Examine, Take, MarkUnsafe, Wait, Advance,
         CheckEmpty, FixRead, FixHead, FixCheck, FixTail, SwingHead
<1> QED BY <1>1, <1>2 DEF Dequeue

(* A dequeuer at the end of the chain of rings that found the ring used up *)
(* missed no item that it had to see.                                      *)
LEMMA NothingMissed ==
  ASSUME IInv, TInv, EInv, NEW p \in Thread, th[p].pc = "dnext", ring[th[p].rq].next = Null,
         NEW v \in th[p].seen, v \notin ToSet(taken)
  PROVE  \/ LeftBehind(v)
         \/ \E q \in Ring, c \in Cells, o \in Thread \ {p} :
              ring[q].array[c].val = v /\ Hunts(o, q, ring[q].array[c].idx)
<1>1. PICK k : k = th[p].rq
  OBVIOUS
<1>2. k \in Live /\ k \in Ring /\ th[p].n \in Nat /\ Live \subseteq Ring
  <2>1. k \in Live /\ k \in Ring /\ th[p].n \in Nat
    BY <1>1, Here DEF NoRing
  <2>2. Live \subseteq Ring
    BY RingsAreNumbers DEF Live, IInv, Shapes
  <2> QED BY <2>1, <2>2
<1>3. Fit(p)
  BY DEF EInv
<1>4. \A q \in Onward(k) : q = k
  BY <1>1, <1>2, OnwardSplit
<1>5. Reachable = {k}
  <2>1. head \in Onward(k)
    BY <1>1, <1>3 DEF Fit, Led, NoRing, Enq
  <2>2. head = k
    BY <1>4, <2>1
  <2>3. k \in Onward(k)
    BY <1>2, OnwardSelf
  <2> QED BY <1>4, <2>2, <2>3 DEF Reachable
<1>6. v \in Enqueued /\ v # Empty
  BY <1>3, EnqueuedValues DEF Fit, Remembers, Enqueued
<1>7. PICK q \in Live, c \in Cells : ring[q].array[c].val = v
  BY <1>6 DEF TInv, Stored
<1>8. ring[q].array[c].idx >= ring[q].head \/ Hunted(q, ring[q].array[c].idx)
  BY <1>6, <1>7 DEF TInv, Ahead
<1>9. CASE Hunted(q, ring[q].array[c].idx)
  <2>1. PICK o \in Thread : Hunts(o, q, ring[q].array[c].idx)
    BY <1>9 DEF Hunted
  <2>2. o # p
    BY <2>1 DEF Hunts
  <2> QED BY <1>2, <1>7, <2>1, <2>2
<1>10. CASE q = k /\ ring[q].array[c].idx >= ring[q].head
  <2>1. ring[k].array[c].idx <= th[p].n /\ th[p].n < ring[k].head
    BY <1>1, <1>3, <1>7, <1>10 DEF Fit, UsedUp, Ticketed, Fixing, Drawn
  <2>2. ring[k].array[c].idx \in Nat /\ ring[k].head \in Nat
    BY <1>2, RingNumbers
  <2> QED BY <1>2, <1>10, <2>1, <2>2
<1>11. CASE q # k
  <2>1. q \notin Reachable
    BY <1>5, <1>11
  <2>2. ring[q].next # Null
    BY <1>2, <1>4, <1>7, <1>11 DEF TInv, Chain
  <2> QED BY <1>2, <1>7, <2>1, <2>2 DEF LeftBehind
<1> QED BY <1>8, <1>9, <1>10, <1>11

(* EMPTY (line 370) is returned only when every item that was in the queue *)
(* when the call began is dequeued, is another dequeuer's by its ticket,   *)
(* or was left behind with its ring.                                       *)
THEOREM EmptyMissesNothing == Spec => EmptyIsHonest
<1>1. ASSUME IInv, IInv', TInv, EInv, [Next]_vars, NEW p \in Thread,
             th[p].pc = "dnext", th'[p].pc = "idle"
      PROVE  ring[th[p].rq].next = Null
  <2>1. PICK o \in Thread : Enqueue(o) \/ Dequeue(o)
    BY <1>1 DEF Next, Terminated, vars
  <2>2. o = p
    BY <1>1, <2>1, ThreadFit DEF Steady, Alone
  <2>3. ReturnEmpty(p) \/ ReadNextRing(p)
    BY <1>1, <2>1, <2>2, AtNext
  <2>4. ReadNextRing(p) => th'[p].pc = "dswing"
    BY <1>1, NextFields
  <2> QED BY <1>1, <2>3, <2>4 DEF ReturnEmpty
<1>2. (IInv /\ TInv /\ EInv) /\ (IInv /\ TInv /\ EInv)' /\ [Next]_vars =>
        [\A p \in Thread :
           th[p].pc = "dnext" /\ th'[p].pc = "idle"
             => \A v \in th[p].seen \ ToSet(taken) :
                  \/ LeftBehind(v)
                  \/ \E q \in Ring, c \in Cells, o \in Thread \ {p} :
                       ring[q].array[c].val = v /\ Hunts(o, q, ring[q].array[c].idx)]_vars
  BY <1>1, NothingMissed
<1> QED BY <1>2, FitHolds, PTL DEF Spec, EmptyIsHonest

-----------------------------------------------------------------------------
(* The fourth invariant, as far as the other threads are concerned.        *)

(* A step of p: the order among what is enqueued, and what the others      *)
(* enqueue, does not change.                                               *)
Pairs(p) ==
  \A a, b : <<a, b>> \in prec' =>
    /\ a \in done
    /\ <<a, b>> \in prec \/ (b \notin Enqueued /\ \A o \in Thread \ {p} :
                               th[o].pc \in Enq => th[o].arg # b)

(* An item that is before another one was there already.                   *)
LEMMA OlderItem ==
  ASSUME NEW p \in Thread, Steady(p), Pairs(p), NEW q \in Live', NEW c \in Cells, NEW b,
         <<ring'[q].array[c].val, b>> \in prec'
  PROVE  /\ q \in Live /\ ring'[q].array[c].val = ring[q].array[c].val
         /\ ring'[q].array[c].idx = ring[q].array[c].idx
         /\ \/ <<ring[q].array[c].val, b>> \in prec
            \/ b \notin Enqueued /\ \A o \in Thread \ {p} : th[o].pc \in Enq => th[o].arg # b
<1>1. /\ ring'[q].array[c].val \in done
      /\ \/ <<ring'[q].array[c].val, b>> \in prec
         \/ b \notin Enqueued /\ \A o \in Thread \ {p} : th[o].pc \in Enq => th[o].arg # b
  BY DEF Pairs
<1>2. /\ q \in Live /\ ring'[q].array[c].val = ring[q].array[c].val
      /\ ring'[q].array[c].idx = ring[q].array[c].idx
  BY <1>1 DEF Steady
<1> QED BY <1>1, <1>2

(* What a thread o keeps.                                                  *)
LEMMA KeepFollows ==
  ASSUME NEW p \in Thread, Steady(p), Pairs(p), NEW o \in Thread, Follows(o),
         o # p \/ prec' = prec,
         th'[o].pc \in Enq \ {"tail", "publish"} =>
           /\ th[o].pc \in Enq \ {"tail", "publish"}
           /\ th'[o].arg = th[o].arg /\ th'[o].rq = th[o].rq,
         th'[o].pc \in Issued => th[o].pc \in Issued /\ th'[o].n = th[o].n
  PROVE  Follows(o)'
<1>1. ASSUME NEW q \in Live', NEW c \in Cells, th'[o].pc \in Enq \ {"tail", "publish"},
             ring'[q].array[c].val # Empty, <<ring'[q].array[c].val, th'[o].arg>> \in prec'
      PROVE  /\ th'[o].rq \in Onward(q)'
             /\ th'[o].rq = q /\ th'[o].pc \in Issued => ring'[q].array[c].idx < th'[o].n
  <2>1. /\ q \in Live /\ ring'[q].array[c].val = ring[q].array[c].val
        /\ ring'[q].array[c].idx = ring[q].array[c].idx
        /\ <<ring[q].array[c].val, th[o].arg>> \in prec
    BY <1>1, OlderItem
  <2>2. /\ th[o].rq \in Onward(q)
        /\ th[o].rq = q /\ th[o].pc \in Issued => ring[q].array[c].idx < th[o].n
    BY <1>1, <2>1 DEF Follows
  <2>3. th'[o].rq \in Onward(q)'
    BY <1>1, <2>2 DEF Steady
  <2> QED BY <1>1, <2>1, <2>2, <2>3
<1> QED BY <1>1 DEF Follows

LEMMA KeepLater ==
  ASSUME IInv, NEW p \in Thread, Steady(p), Pairs(p), NEW o \in Thread, Later(o), Remembers(o),
         th'[o].older \subseteq th[o].older,
         th'[o].pc \notin NoRing \cup Enq =>
           th[o].pc \notin NoRing \cup Enq /\ th'[o].rq = th[o].rq,
         th'[o].pc = "dfaa" => th[o].pc = "dfaa",
         th'[o].pc \in Hunting => th[o].pc \in Hunting /\ th'[o].n = th[o].n
  PROVE  Later(o)'
<1>1. ASSUME NEW q \in Live', NEW c \in Cells, NEW b \in th'[o].older,
             th'[o].pc \notin NoRing \cup Enq,
             ring'[q].array[c].val # Empty, <<ring'[q].array[c].val, b>> \in prec'
      PROVE  /\ th'[o].rq \in Onward(q)'
             /\ th'[o].rq = q /\ th'[o].pc = "dfaa" => ring'[q].array[c].idx < ring'[q].head
             /\ th'[o].rq = q /\ th'[o].pc \in Hunting => ring'[q].array[c].idx < th'[o].n
  <2>1. b \in Enqueued /\ b \in th[o].older
    BY DEF Remembers, IInv, TakenEnqueued
  <2>2. /\ q \in Live /\ ring'[q].array[c].val = ring[q].array[c].val
        /\ ring'[q].array[c].idx = ring[q].array[c].idx
        /\ <<ring[q].array[c].val, b>> \in prec
    BY <1>1, <2>1, OlderItem
  <2>3. /\ th[o].rq \in Onward(q)
        /\ th[o].rq = q /\ th[o].pc = "dfaa" => ring[q].array[c].idx < ring[q].head
        /\ th[o].rq = q /\ th[o].pc \in Hunting => ring[q].array[c].idx < th[o].n
    BY <1>1, <2>1, <2>2 DEF Later
  <2>4. th'[o].rq \in Onward(q)'
    BY <1>1, <2>3 DEF Steady
  <2>5. q \in Ring /\ ring[q].head <= ring'[q].head /\ ring'[q].head \in Nat
    BY <2>2 DEF Steady
  <2>6. ring[q].array[c].idx \in Nat /\ ring[q].head \in Nat
    BY <2>5, RingNumbers
  <2>7. th'[o].rq = q /\ th'[o].pc = "dfaa" => ring'[q].array[c].idx < ring'[q].head
    BY <1>1, <2>2, <2>3, <2>5, <2>6
  <2> QED BY <1>1, <2>2, <2>3, <2>4, <2>7
<1> QED BY <1>1 DEF Later

LEMMA OthersOrdered ==
  ASSUME IInv, EInv, NEW p \in Thread, Steady(p), Pairs(p), NEW o \in Thread, o # p,
         Follows(o), Later(o)
  PROVE  Follows(o)' /\ Later(o)'
<1>1. th'[o] = th[o]
  BY DEF Steady, Alone
<1>2. Remembers(o)
  BY DEF EInv, Fit
<1>3. Follows(o)'
  BY <1>1, KeepFollows
<1>4. Later(o)'
  BY <1>1, <1>2, KeepLater
<1> QED BY <1>3, <1>4

(* So does p in most of its steps.                                         *)
LEMMA TurnOrdered ==
  ASSUME IInv, EInv, NEW p \in Thread, Steady(p), Pairs(p), Follows(p), Later(p),
         th[p].pc # "publish", th'[p].pc # "dfaa",
         th'[p].pc \notin NoRing =>
           /\ prec' = prec /\ th'[p].older \subseteq th[p].older
           /\ th[p].pc \notin NoRing /\ th'[p].arg = th[p].arg /\ th'[p].rq = th[p].rq
           /\ th'[p].pc \in Enq <=> th[p].pc \in Enq,
         th'[p].pc \in Issued => th[p].pc \in Issued /\ th'[p].n = th[p].n,
         th'[p].pc \in Hunting => th[p].pc \in Hunting /\ th'[p].n = th[p].n
  PROVE  Follows(p)' /\ Later(p)'
<1>1. Remembers(p)
  BY DEF EInv, Fit
<1>2. CASE th'[p].pc \in NoRing
  BY <1>2 DEF Follows, Later, NoRing, Enq
<1>3. CASE th'[p].pc \notin NoRing
  <2>1. th'[p].pc \in Enq \ {"tail", "publish"} => th[p].pc \in Enq \ {"tail", "publish"}
    BY <1>3 DEF NoRing
  <2>2. Follows(p)'
    BY <1>3, <2>1, KeepFollows
  <2>3. Later(p)'
    BY <1>1, <1>3, KeepLater
  <2> QED BY <2>2, <2>3
<1> QED BY <1>2, <1>3

-----------------------------------------------------------------------------
(* The fourth invariant, as far as the items are concerned.                *)

LEMMA KeepEarlier ==
  ASSUME NEW p \in Thread, Steady(p), Pairs(p)
  PROVE  Earlier'
BY DEF Earlier, Pairs, Steady

LEMMA KeepTailAhead ==
  ASSUME NEW p \in Thread, Steady(p), TailAhead, th[p].pc # "publish",
         \A q \in Live', c \in Cells : ring'[q].array[c].val # Empty =>
           \/ q \in Live /\ ring'[q].array[c].val = ring[q].array[c].val
           \/ tail' \in Onward(q)'
           \/ /\ th'[p].pc = "publish" /\ th'[p].nrq = q
              /\ th'[p].arg = ring'[q].array[c].val
  PROVE  TailAhead'
<1>1. ASSUME NEW q \in Live', NEW c \in Cells, ring'[q].array[c].val # Empty
      PROVE  \/ tail' \in Onward(q)'
             \/ \E o \in Thread : /\ th'[o].pc = "publish" /\ th'[o].nrq = q
                                  /\ th'[o].arg = ring'[q].array[c].val
  <2>1. CASE q \in Live /\ ring'[q].array[c].val = ring[q].array[c].val
    <3>1. CASE tail \in Onward(q)
      <4>1. tail' \in Onward(q)
        BY <3>1, OnwardTrans DEF Steady
      <4> QED BY <4>1 DEF Steady
    <3>2. ASSUME NEW o \in Thread, th[o].pc = "publish", th[o].nrq = q,
                 th[o].arg = ring[q].array[c].val
          PROVE  /\ th'[o].pc = "publish" /\ th'[o].nrq = q
                 /\ th'[o].arg = ring'[q].array[c].val
      BY <2>1, <3>2 DEF Steady, Alone
    <3> QED BY <1>1, <2>1, <3>1, <3>2 DEF TailAhead
  <2> QED BY <1>1, <2>1
<1> QED BY <1>1 DEF TailAhead

LEMMA KeepInOrder ==
  ASSUME IInv, NEW p \in Thread, Steady(p), Pairs(p), InOrder,
         \A r \in Live', d \in Cells : ring'[r].array[d].val # Empty =>
           \/ /\ r \in Live /\ ring'[r].array[d].val = ring[r].array[d].val
              /\ ring'[r].array[d].idx = ring[r].array[d].idx
           \/ \A q \in Live, c \in Cells :
                /\ ring[q].array[c].val # Empty
                /\ <<ring[q].array[c].val, ring'[r].array[d].val>> \in prec'
                => /\ r \in Onward(q)'
                   /\ r = q => ring[q].array[c].idx < ring'[r].array[d].idx
  PROVE  InOrder'
<1>1. ASSUME NEW q \in Live', NEW r \in Live', NEW c \in Cells, NEW d \in Cells,
             ring'[q].array[c].val # Empty, ring'[r].array[d].val # Empty,
             <<ring'[q].array[c].val, ring'[r].array[d].val>> \in prec'
      PROVE  /\ r \in Onward(q)'
             /\ r = q => ring'[q].array[c].idx < ring'[r].array[d].idx
  <2>1. PICK b : b = ring'[r].array[d].val
    OBVIOUS
  <2>2. /\ q \in Live /\ ring'[q].array[c].val = ring[q].array[c].val
        /\ ring'[q].array[c].idx = ring[q].array[c].idx
        /\ \/ <<ring[q].array[c].val, b>> \in prec
           \/ b \notin Enqueued
    BY <1>1, <2>1, OlderItem
  <2>3. CASE /\ r \in Live /\ ring'[r].array[d].val = ring[r].array[d].val
             /\ ring'[r].array[d].idx = ring[r].array[d].idx
    <3>1. b \in Enqueued
      BY <1>1, <2>1, <2>3 DEF IInv, CellsHold
    <3>2. r \in Onward(q) /\ (r = q => ring[q].array[c].idx < ring[r].array[d].idx)
      BY <1>1, <2>1, <2>2, <2>3, <3>1 DEF InOrder
    <3>3. r \in Onward(q)'
      BY <3>2 DEF Steady
    <3> QED BY <2>2, <2>3, <3>2, <3>3
  <2> QED BY <1>1, <2>2, <2>3
<1> QED BY <1>1 DEF InOrder

LEMMA KeepHeadAhead ==
  ASSUME IInv, NEW p \in Thread, Steady(p), Pairs(p), OneWay, HeadAhead,
         \A b \in ToSet(taken)' :
           \/ b \in ToSet(taken)
           \/ \A q \in Live, c \in Cells :
                /\ ring[q].array[c].val # Empty
                /\ <<ring[q].array[c].val, b>> \in prec'
                => /\ head \in Onward(q)
                   /\ head = q => ring[q].array[c].idx < ring[q].head
  PROVE  HeadAhead'
<1>1. ASSUME NEW q \in Live', NEW c \in Cells, NEW b \in ToSet(taken)',
             ring'[q].array[c].val # Empty, <<ring'[q].array[c].val, b>> \in prec'
      PROVE  /\ head' \in Onward(q)'
             /\ head' = q => ring'[q].array[c].idx < ring'[q].head
  <2>1. /\ q \in Live /\ ring'[q].array[c].val = ring[q].array[c].val
        /\ ring'[q].array[c].idx = ring[q].array[c].idx
        /\ <<ring[q].array[c].val, b>> \in prec \/ b \notin Enqueued
    BY <1>1, OlderItem
  <2>2. b \in ToSet(taken) => b \in Enqueued
    BY DEF IInv, TakenEnqueued
  <2>3. head \in Onward(q) /\ (head = q => ring[q].array[c].idx < ring[q].head)
    BY <1>1, <2>1, <2>2 DEF HeadAhead
  <2>4. head' \in Onward(q)
    BY <2>3, OnwardTrans DEF Steady
  <2>5. head' = q => head = q
    BY <2>1, <2>3 DEF Steady, OneWay, IInv, Pointers
  <2>6. q \in Ring /\ ring[q].head <= ring'[q].head /\ ring'[q].head \in Nat
    BY <2>1 DEF Steady
  <2>7. ring[q].array[c].idx \in Nat /\ ring[q].head \in Nat
    BY <2>6, RingNumbers
  <2>8. head' \in Onward(q)'
    BY <2>4 DEF Steady
  <2> QED BY <2>1, <2>3, <2>5, <2>6, <2>7, <2>8
<1> QED BY <1>1 DEF HeadAhead

(* A step that puts no item anywhere and links no ring.                    *)
Quiet(p) ==
  /\ Live' = Live /\ \A q : Onward(q)' = Onward(q)
  /\ \A q \in Live, c \in Cells : ring'[q].array[c].val # Empty =>
       /\ ring'[q].array[c].val = ring[q].array[c].val
       /\ ring'[q].array[c].idx = ring[q].array[c].idx

LEMMA OrderStep ==
  ASSUME IInv, EInv, FInv, NEW p \in Thread, Steady(p), Pairs(p),
         OneWay', TailAhead', InOrder', HeadAhead', Follows(p)', Later(p)'
  PROVE  FInv'
<1>1. Earlier'
  BY KeepEarlier
<1>2. ASSUME NEW o \in Thread
      PROVE  Follows(o)' /\ Later(o)'
  BY OthersOrdered DEF FInv
<1> QED BY <1>1, <1>2 DEF FInv

LEMMA QuietOrder ==
  ASSUME IInv, EInv, FInv, NEW p \in Thread, Steady(p), Pairs(p), Quiet(p),
         th[p].pc # "publish", ToSet(taken)' = ToSet(taken), Follows(p)', Later(p)'
  PROVE  FInv'
<1>1. OneWay'
  BY DEF FInv, OneWay, Quiet
<1>2. TailAhead'
  BY KeepTailAhead DEF FInv, Quiet
<1>3. InOrder'
  BY KeepInOrder DEF FInv, Quiet
<1>4. HeadAhead'
  BY KeepHeadAhead DEF FInv
<1> QED BY <1>1, <1>2, <1>3, <1>4, OrderStep

(* Where nothing is enqueued, the order stays.                             *)
LEMMA SamePairs ==
  ASSUME FInv, prec' = prec, NEW p \in Thread
  PROVE  Pairs(p)
BY DEF FInv, Earlier, Pairs

LEMMA CalmQuiet ==
  ASSUME IInv, NEW p \in Thread, Calm(p) \/ Draws(p)
  PROVE  Quiet(p) /\ ToSet(taken)' = ToSet(taken)
<1>1. Live \subseteq Ring
  BY RingsAreNumbers DEF Live, IInv, Shapes
<1>2. Live' = Live /\ SameEnds /\ taken' = taken
  BY DEF Calm, Draws
<1>3. \A q : Onward(q)' = Onward(q)
  BY <1>2, OnwardKept DEF SameEnds
<1> QED BY <1>1, <1>2, <1>3 DEF Quiet, SameEnds, ToSet

LEMMA StrikeQuiet ==
  ASSUME IInv, NEW p \in Thread, th[p].pc \notin NoRing, NEW x \in CellRec, Strikes(p, x),
         x.val # Empty => x.val = Cell(p).val /\ x.idx = Cell(p).idx
  PROVE  Quiet(p)
<1>1. Live \subseteq Ring
  BY RingsAreNumbers DEF Live, IInv, Shapes
<1>2. \A q : Onward(q)' = Onward(q)
  BY OnwardKept DEF Strikes
<1>3. ASSUME NEW q \in Live, NEW c \in Cells, ring'[q].array[c].val # Empty
      PROVE  /\ ring'[q].array[c].val = ring[q].array[c].val
             /\ ring'[q].array[c].idx = ring[q].array[c].idx
  <2>1. CASE q = th[p].rq /\ c = Slot(p)
    BY <1>3, <2>1 DEF Strikes, Cell
  <2>2. CASE q # th[p].rq \/ c # Slot(p)
    BY <1>1, <2>2 DEF Strikes
  <2> QED BY <2>1, <2>2
<1> QED BY <1>2, <1>3 DEF Quiet, Strikes

-----------------------------------------------------------------------------
(* The fourth invariant, step by step.                                     *)

(* The steps in which p keeps its turn or ends it.                         *)
LEMMA TurnOrder ==
  ASSUME IInv, EInv, FInv, NEW p \in Thread, Steady(p), Calm(p), prec' = prec,
         th[p].pc # "publish", th'[p].pc # "dfaa", th'[p].older \subseteq th[p].older,
         th'[p].pc \notin NoRing =>
           /\ SameTurn(th'[p], th[p]) /\ th[p].pc \notin NoRing
           /\ th'[p].pc \in Enq <=> th[p].pc \in Enq,
         th'[p].pc \in Issued => th[p].pc \in Issued,
         th'[p].pc \in Hunting => th[p].pc \in Hunting
  PROVE  FInv'
<1>1. Pairs(p) /\ Quiet(p) /\ ToSet(taken)' = ToSet(taken)
  BY SamePairs, CalmQuiet
<1>2. th'[p].pc \in Issued \cup Hunting => th'[p].n = th[p].n
  BY DEF SameTurn, Issued, Asking, Hunting, NoRing
<1>3. Follows(p) /\ Later(p)
  BY DEF FInv
<1>4. Follows(p)' /\ Later(p)'
  BY <1>1, <1>2, <1>3, TurnOrdered DEF SameTurn
<1> QED BY <1>1, <1>4, QuietOrder

LEMMA PlainOrder ==
  ASSUME IInv, EInv, FInv, NEW p \in Thread, Steady(p), Plain(p), th[p].pc # "publish"
  PROVE  FInv'
BY TurnOrder DEF Plain

LEMMA CheckEmptyOrder ==
  ASSUME IInv, EInv, FInv, NEW p \in Thread, Steady(p), CheckEmpty(p)
  PROVE  FInv'
<1>1. th[p].pc = "check" /\ prec' = prec
  BY DEF CheckEmpty, hist
<1>2. CASE Plain(p)
  BY <1>1, <1>2, PlainOrder
<1>3. CASE Calm(p) /\ th'[p].pc = "fix" /\ SameTurn(th'[p], th[p])
  BY <1>1, <1>3, TurnOrder DEF SameTurn, NoRing, Enq, Issued, Asking, Hunting
<1> QED BY <1>2, <1>3, CheckEmptyCalm

LEMMA FixOrder ==
  ASSUME IInv, EInv, FInv, NEW p \in Thread, Steady(p),
         FixRead(p) \/ FixHead(p) \/ FixCheck(p) \/ FixTail(p)
  PROVE  FInv'
<1>1. /\ Calm(p) /\ SameTurn(th'[p], th[p]) /\ prec' = prec
      /\ th[p].pc \in {"fix", "fixh", "fixt", "fixcas"} /\ th'[p].pc \in Fixing
  BY FixCalm
<1> QED BY <1>1, TurnOrder DEF SameTurn, NoRing, Enq, Issued, Asking, Hunting, Fixing

LEMMA NextOrder ==
  ASSUME IInv, EInv, FInv, NEW p \in Thread, Steady(p), ReadNext(p) \/ ReadNextRing(p)
  PROVE  FInv'
<1>1. /\ ReadNext(p) => th[p].pc = "enext"
      /\ ReadNextRing(p) => th[p].pc = "dnext"
  BY DEF ReadNext, ReadNextRing
<1>2. /\ Calm(p) /\ SameTurn(th'[p], th[p]) /\ prec' = prec
      /\ ReadNext(p) => th'[p].pc \in {"efaa", "eswing"}
      /\ ReadNextRing(p) => th'[p].pc = "dswing"
  BY PointerCalm, NextFields
<1> QED BY <1>1, <1>2, TurnOrder DEF SameTurn, NoRing, Enq, Issued, Asking, Hunting

LEMMA SwingOrder ==
  ASSUME IInv, EInv, FInv, NEW p \in Thread, Steady(p), SwingTail(p) \/ SwingHead(p)
  PROVE  FInv'
<1>1. /\ Calm(p) /\ prec' = prec /\ th'[p].older = th[p].older /\ th[p].pc # "publish"
      /\ th'[p].pc \in {"tail", "head"}
  BY PointerCalm
<1> QED BY <1>1, TurnOrder DEF NoRing, Issued, Asking, Hunting

(* A new value is after all that are enqueued, and before none.            *)
LEMMA BeginEnqueueOrder ==
  ASSUME IInv, EInv, FInv, NEW p \in Thread, Steady(p), BeginEnqueue(p)
  PROVE  FInv'
<1>1. PICK v : v = <<p, ops[p] + 1>>
  OBVIOUS
<1>2. /\ prec' = prec \cup {<<a, v>> : a \in done} /\ ops[p] \in Nat /\ ops[p] + 1 \in 1..MaxOps
  BY <1>1, RingsAreNumbers DEF BeginEnqueue, IInv, Shapes
<1>3. v \notin Enqueued
  <2>1. v \notin done
    BY <1>1, <1>2 DEF IInv, Arguments
  <2>2. \A o \in Thread : th[o].pc = "publish" => th[o].arg # v
    <3>1. ASSUME NEW o \in Thread, th[o].pc = "publish", th[o].arg = v
          PROVE  FALSE
      <4>1. <<o, ops[o]>> = <<p, ops[p] + 1>>
        BY <1>1, <3>1 DEF IInv, Arguments, Enq
      <4>2. o = p /\ ops[p] = ops[p] + 1
        BY <4>1
      <4> QED BY <1>2, <4>2
    <3> QED BY <3>1
  <2> QED BY <2>1, <2>2 DEF Enqueued
<1>4. ASSUME NEW o \in Thread \ {p}, th[o].pc \in Enq
      PROVE  th[o].arg # v
  BY <1>1, <1>4 DEF IInv, Arguments
<1>5. Pairs(p)
  <2>1. ASSUME NEW a, NEW b, <<a, b>> \in prec'
        PROVE  <<a, b>> \in prec \/ (a \in done /\ b = v)
    BY <1>2, <2>1
  <2> QED BY <1>3, <1>4, <2>1 DEF Pairs, FInv, Earlier
<1>6. Calm(p) /\ th[p].pc = "idle" /\ th'[p].pc = "tail"
  BY BeginEnqueueCalm
<1>7. Quiet(p) /\ ToSet(taken)' = ToSet(taken)
  BY <1>6, CalmQuiet
<1>8. Follows(p)' /\ Later(p)'
  BY <1>6 DEF Follows, Later, NoRing, Enq
<1> QED BY <1>5, <1>6, <1>7, <1>8, QuietOrder

LEMMA BeginDequeueOrder ==
  ASSUME IInv, EInv, FInv, NEW p \in Thread, Steady(p), BeginDequeue(p)
  PROVE  FInv'
<1>1. Calm(p) /\ th[p].pc = "idle" /\ th'[p].pc = "head" /\ prec' = prec
  BY BeginDequeueCalm DEF BeginDequeue
<1>2. Pairs(p) /\ Quiet(p) /\ ToSet(taken)' = ToSet(taken)
  BY <1>1, SamePairs, CalmQuiet
<1>3. Follows(p)' /\ Later(p)'
  BY <1>1 DEF Follows, Later, NoRing, Enq
<1> QED BY <1>1, <1>2, <1>3, QuietOrder

(* An enqueuer that reads the global tail is behind every item whose       *)
(* enqueue has returned.                                                   *)
LEMMA ReadTailOrder ==
  ASSUME IInv, EInv, FInv, NEW p \in Thread, Steady(p), ReadTailPtr(p)
  PROVE  FInv'
<1>1. /\ Calm(p) /\ prec' = prec /\ th[p].pc = "tail" /\ th'[p].pc = "enext"
      /\ th'[p].rq = tail /\ th'[p].arg = th[p].arg
  BY PointerCalm, PointerFields DEF ReadTailPtr
<1>2. Pairs(p) /\ Quiet(p) /\ ToSet(taken)' = ToSet(taken)
  BY <1>1, SamePairs, CalmQuiet
<1>3. ASSUME NEW q \in Live', NEW c \in Cells, ring'[q].array[c].val # Empty,
             <<ring'[q].array[c].val, th'[p].arg>> \in prec'
      PROVE  th'[p].rq \in Onward(q)'
  <2>1. PICK v : v = ring[q].array[c].val
    OBVIOUS
  <2>2. q \in Live /\ ring'[q].array[c].val = v /\ v \in done
    BY <1>1, <1>2, <1>3, <2>1, OlderItem DEF Pairs
  <2>3. ASSUME NEW o \in Thread, th[o].pc = "publish", th[o].arg = v
        PROVE  FALSE
    <3>1. v = <<o, ops[o]>> /\ ops[o] >= 1 /\ ops[o] \in 0..MaxOps
      BY <2>3 DEF IInv, Arguments, Shapes, Enq
    <3>2. ops[o] \in 1..MaxOps
      BY <3>1, RingsAreNumbers
    <3>3. ops[o] < ops[o]
      BY <2>2, <2>3, <3>1, <3>2 DEF IInv, Arguments, Enq
    <3> QED BY <3>2, <3>3
  <2>4. tail \in Onward(q)
    BY <1>3, <2>1, <2>2, <2>3 DEF FInv, TailAhead
  <2> QED BY <1>1, <2>4 DEF Steady
<1>4. Follows(p)' /\ Later(p)'
  BY <1>1, <1>3 DEF Follows, Later, Issued, Asking, Enq
<1> QED BY <1>1, <1>2, <1>4, QuietOrder

(* Its ticket is higher than those of the items that are in the ring.      *)
LEMMA TakeTicketOrder ==
  ASSUME IInv, EInv, FInv, NEW p \in Thread, Steady(p), TakeTicket(p)
  PROVE  FInv'
<1>1. /\ Calm(p) /\ th[p].pc = "efaa" /\ th'[p].pc \in {"link", "eidx"}
      /\ th'[p].rq = th[p].rq /\ th'[p].arg = th[p].arg /\ th'[p].n = ring[th[p].rq].tail
      /\ prec' = prec
  BY TakeTicketCalm, TicketFields DEF TakeTicket, hist
<1>2. Pairs(p) /\ Quiet(p) /\ ToSet(taken)' = ToSet(taken)
  BY <1>1, SamePairs, CalmQuiet
<1>3. ASSUME NEW q \in Live', NEW c \in Cells, ring'[q].array[c].val # Empty,
             <<ring'[q].array[c].val, th'[p].arg>> \in prec'
      PROVE  /\ th'[p].rq \in Onward(q)'
             /\ th'[p].rq = q => ring'[q].array[c].idx < th'[p].n
  <2>1. /\ q \in Live /\ ring'[q].array[c].val = ring[q].array[c].val
        /\ ring'[q].array[c].idx = ring[q].array[c].idx
    BY <1>2, <1>3, OlderItem
  <2>2. th[p].rq \in Onward(q)
    BY <1>1, <1>3, <2>1 DEF FInv, Follows, Enq
  <2>3. ring[q].array[c].idx < ring[q].tail
    BY <1>3, <2>1 DEF EInv, Below
  <2> QED BY <1>1, <2>1, <2>2, <2>3 DEF Steady
<1>4. Follows(p)' /\ Later(p)'
  BY <1>1, <1>3 DEF Follows, Later, Enq
<1> QED BY <1>1, <1>2, <1>4, QuietOrder

(* A dequeuer that reads the global head is past what is older than the    *)
(* items that were taken.                                                  *)
LEMMA ReadHeadOrder ==
  ASSUME IInv, EInv, FInv, NEW p \in Thread, Steady(p), ReadHeadPtr(p)
  PROVE  FInv'
<1>1. /\ Calm(p) /\ prec' = prec /\ th[p].pc = "head" /\ th'[p].pc = "dfaa"
      /\ th'[p].rq = head /\ th'[p].older = th[p].older
  BY PointerCalm, PointerFields DEF ReadHeadPtr
<1>2. Pairs(p) /\ Quiet(p) /\ ToSet(taken)' = ToSet(taken)
  BY <1>1, SamePairs, CalmQuiet
<1>3. ASSUME NEW q \in Live', NEW c \in Cells, NEW b \in th'[p].older,
             ring'[q].array[c].val # Empty, <<ring'[q].array[c].val, b>> \in prec'
      PROVE  /\ th'[p].rq \in Onward(q)'
             /\ th'[p].rq = q => ring'[q].array[c].idx < ring'[q].head
  <2>1. /\ q \in Live /\ ring'[q].array[c].val = ring[q].array[c].val
        /\ ring'[q].array[c].idx = ring[q].array[c].idx
    BY <1>2, <1>3, OlderItem
  <2>2. b \in ToSet(taken)
    BY <1>1, <1>3 DEF EInv, Fit, Remembers
  <2>3. head \in Onward(q) /\ (head = q => ring[q].array[c].idx < ring[q].head)
    BY <1>1, <1>3, <2>1, <2>2 DEF FInv, HeadAhead
  <2>4. q \in Ring
    BY <2>1 DEF Steady
  <2>5. ring'[q].head = ring[q].head
    BY <1>1, <2>4 DEF Calm
  <2> QED BY <1>1, <2>1, <2>3, <2>5 DEF Steady
<1>4. Follows(p)' /\ Later(p)'
  BY <1>1, <1>3 DEF Follows, Later, Enq, Hunting
<1> QED BY <1>1, <1>2, <1>4, QuietOrder

(* So is its ticket.                                                       *)
LEMMA DrawOrder ==
  ASSUME IInv, EInv, FInv, NEW p \in Thread, Steady(p), Draws(p)
  PROVE  FInv'
<1>1. /\ th[p].pc = "dfaa" /\ th'[p].pc = "didx" /\ th'[p].rq = th[p].rq
      /\ th'[p].n = ring[th[p].rq].head /\ th'[p].older = th[p].older /\ prec' = prec
  BY DEF Draws
<1>2. Pairs(p) /\ Quiet(p) /\ ToSet(taken)' = ToSet(taken)
  BY <1>1, SamePairs, CalmQuiet
<1>3. ASSUME NEW q \in Live', NEW c \in Cells, NEW b \in th'[p].older,
             ring'[q].array[c].val # Empty, <<ring'[q].array[c].val, b>> \in prec'
      PROVE  /\ th'[p].rq \in Onward(q)'
             /\ th'[p].rq = q => ring'[q].array[c].idx < th'[p].n
  <2>1. /\ q \in Live /\ ring'[q].array[c].val = ring[q].array[c].val
        /\ ring'[q].array[c].idx = ring[q].array[c].idx
    BY <1>2, <1>3, OlderItem
  <2>2. /\ th[p].rq \in Onward(q)
        /\ th[p].rq = q => ring[q].array[c].idx < ring[q].head
    BY <1>1, <1>3, <2>1 DEF FInv, Later, NoRing, Enq
  <2> QED BY <1>1, <2>1, <2>2 DEF Steady
<1>4. Follows(p)' /\ Later(p)'
  BY <1>1, <1>3 DEF Follows, Later, Enq
<1> QED BY <1>1, <1>2, <1>4, QuietOrder

(* When p publishes its ring, the global tail is not behind it.            *)
LEMMA PublishOrder ==
  ASSUME IInv, EInv, FInv, NEW p \in Thread, Steady(p), Publish(p)
  PROVE  FInv'
<1>1. /\ Calm(p) /\ th[p].pc = "publish" /\ th'[p].pc = "idle" /\ prec' = prec
      /\ tail' = IF tail = th[p].rq THEN th[p].nrq ELSE tail
  BY PublishCalm DEF Publish
<1>2. Pairs(p) /\ Quiet(p) /\ ToSet(taken)' = ToSet(taken)
  BY <1>1, SamePairs, CalmQuiet
<1>3. PICK m : m = th[p].nrq
  OBVIOUS
<1>4. tail' \in Onward(m)
  <2>1. /\ th[p].rq \in Ring /\ m \in Live /\ m = ring[th[p].rq].next
        /\ tail \in Onward(th[p].rq)
    BY <1>1, <1>3, Here DEF NoRing, Enq, IInv, Pointers, EInv, Fit, Led
  <2>2. m \in Ring
    BY <2>1 DEF Steady
  <2>3. m \in Onward(m)
    BY <2>2, OnwardSelf
  <2>4. tail # th[p].rq => tail \in Onward(m)
    BY <2>1, OnwardSplit
  <2> QED BY <1>1, <1>3, <2>3, <2>4
<1>5. ASSUME NEW q \in Live', NEW c \in Cells, ring'[q].array[c].val # Empty
      PROVE  \/ tail' \in Onward(q)'
             \/ \E o \in Thread : /\ th'[o].pc = "publish" /\ th'[o].nrq = q
                                  /\ th'[o].arg = ring'[q].array[c].val
  <2>1. q \in Live /\ ring'[q].array[c].val = ring[q].array[c].val
    BY <1>2, <1>5 DEF Quiet
  <2>2. CASE tail \in Onward(q)
    <3>1. tail' \in Onward(q)
      BY <2>2, OnwardTrans DEF Steady
    <3> QED BY <3>1 DEF Steady
  <2>3. ASSUME NEW o \in Thread, th[o].pc = "publish", th[o].nrq = q,
               th[o].arg = ring[q].array[c].val
        PROVE  \/ tail' \in Onward(q)'
               \/ /\ th'[o].pc = "publish" /\ th'[o].nrq = q
                  /\ th'[o].arg = ring'[q].array[c].val
    <3>1. CASE o = p
      BY <1>3, <1>4, <2>3, <3>1 DEF Steady
    <3>2. CASE o # p
      BY <2>1, <2>3, <3>2 DEF Steady, Alone
    <3> QED BY <3>1, <3>2
  <2> QED BY <1>5, <2>1, <2>2, <2>3 DEF FInv, TailAhead
<1>6. TailAhead'
  BY <1>5 DEF TailAhead
<1>7. OneWay'
  BY <1>2 DEF FInv, OneWay, Quiet
<1>8. InOrder'
  BY <1>2, KeepInOrder DEF FInv, Quiet
<1>9. HeadAhead'
  BY <1>2, KeepHeadAhead DEF FInv
<1>10. Follows(p)' /\ Later(p)'
  BY <1>1 DEF Follows, Later, NoRing, Enq
<1> QED BY <1>2, <1>6, <1>7, <1>8, <1>9, <1>10, OrderStep

(* An item that is put into p's cell follows what was enqueued before.     *)
LEMMA PutOrder ==
  ASSUME IInv, EInv, FInv, NEW p \in Thread, Steady(p), Put(p), Unmoved(p)
  PROVE  FInv'
<1>1. PICK x \in CellRec :
        /\ x.val = th[p].arg /\ x.idx = th[p].n /\ Strikes(p, x)
        /\ th[p].pc = "put" /\ th'[p].pc = "idle"
        /\ UNCHANGED <<head, tail, taken, prec>>
  BY PutStrikes
<1>2. PICK k : k = th[p].rq
  OBVIOUS
<1>3. PICK s : s = Slot(p)
  OBVIOUS
<1>4. /\ Live' = Live /\ \A q : Onward(q)' = Onward(q)
      /\ ring'[k].array[s] = x
      /\ \A q \in Live, c \in Cells : q # k \/ c # s => ring'[q].array[c] = ring[q].array[c]
  BY <1>1, <1>2, <1>3, OnwardKept DEF Strikes, Steady
<1>5. Pairs(p) /\ ToSet(taken)' = ToSet(taken)
  BY <1>1, SamePairs DEF ToSet
<1>6. OneWay'
  BY <1>4 DEF FInv, OneWay
<1>7. TailAhead'
  <2>1. tail' \in Onward(k)'
    BY <1>1, <1>2, <1>4 DEF EInv, Fit, Led, Enq
  <2>2. ASSUME NEW q \in Live', NEW c \in Cells
        PROVE  \/ q \in Live /\ ring'[q].array[c].val = ring[q].array[c].val
               \/ tail' \in Onward(q)'
    BY <1>4, <2>1
  <2> QED BY <1>1, <2>2, KeepTailAhead DEF FInv
<1>8. InOrder'
  <2>1. ASSUME NEW q \in Live, NEW c \in Cells, ring[q].array[c].val # Empty,
               <<ring[q].array[c].val, x.val>> \in prec'
        PROVE  k \in Onward(q)' /\ (k = q => ring[q].array[c].idx < x.idx)
    <3>1. th[p].pc \in Enq \ {"tail", "publish"} /\ th[p].pc \in Issued
      BY <1>1 DEF Enq, Issued, Asking
    <3>2. th[p].rq \in Onward(q) /\ (th[p].rq = q => ring[q].array[c].idx < th[p].n)
      BY <1>1, <2>1, <3>1 DEF FInv, Follows
    <3> QED BY <1>1, <1>2, <1>4, <3>2
  <2>2. ASSUME NEW r \in Live', NEW d \in Cells
        PROVE  \/ r \in Live /\ ring'[r].array[d] = ring[r].array[d]
               \/ r = k /\ ring'[r].array[d] = x
    BY <1>4
  <2> QED BY <1>5, <2>1, <2>2, KeepInOrder DEF FInv
<1>9. HeadAhead'
  BY <1>5, KeepHeadAhead DEF FInv
<1>10. Follows(p)' /\ Later(p)'
  BY <1>1 DEF Follows, Later, NoRing, Enq
<1> QED BY <1>5, <1>6, <1>7, <1>8, <1>9, <1>10, OrderStep

(* When p takes an item, the global head or p's ticket is past what was    *)
(* enqueued before it.                                                     *)
LEMMA TakeOrder ==
  ASSUME IInv, TInv, EInv, FInv, NEW p \in Thread, Steady(p), Take(p), Unmoved(p)
  PROVE  FInv'
<1>1. PICK x \in CellRec :
        /\ x.val = Empty /\ Strikes(p, x) /\ th[p].pc = "take" /\ th'[p].pc = "idle"
        /\ ToSet(taken)' = ToSet(taken) \cup {th[p].val} /\ prec' = prec
  BY TakeStrikes
<1>2. th[p].pc \notin NoRing /\ th[p].pc # "publish"
  BY <1>1 DEF NoRing
<1>3. Pairs(p) /\ Quiet(p)
  BY <1>1, <1>2, SamePairs, StrikeQuiet
<1>4. PICK k : k = th[p].rq
  OBVIOUS
<1>5. PICK s : s = Slot(p)
  OBVIOUS
<1>6. /\ k \in Live /\ k \in Ring /\ s \in Cells /\ th[p].n \in Nat
      /\ ring[k].array[s].val = th[p].val /\ th[p].val # Empty
      /\ ring[k].array[s].idx = th[p].n
  <2>1. k \in Live /\ k \in Ring /\ s \in Cells /\ th[p].n \in Nat
    BY <1>2, <1>4, <1>5, Here
  <2>2. Cell(p).val = th[p].val /\ Cell(p).idx = th[p].idx
    BY UnmovedFields
  <2>3. th[p].val # Empty /\ th[p].idx = th[p].n
    BY <1>1, Zenon DEF TInv, Sounds, Sound
  <2> QED BY <1>4, <1>5, <2>1, <2>2, <2>3 DEF Cell
<1>7. head \in Onward(k) /\ th[p].n < ring[k].head
  BY <1>1, <1>4 DEF EInv, Fit, Led, Ticketed, NoRing, Enq, Drawn, Hunting
<1>8. ASSUME NEW q \in Live, NEW c \in Cells, ring[q].array[c].val # Empty,
             <<ring[q].array[c].val, th[p].val>> \in prec'
      PROVE  head \in Onward(q) /\ (head = q => ring[q].array[c].idx < ring[q].head)
  <2>1. k \in Onward(q) /\ (k = q => ring[q].array[c].idx < th[p].n)
    BY <1>1, <1>6, <1>8 DEF FInv, InOrder
  <2>2. head \in Onward(q)
    BY <1>7, <2>1, OnwardTrans
  <2>3. head = q => k = q
    BY <1>6, <1>7, <2>1 DEF FInv, OneWay
  <2>4. ring[k].array[c].idx \in Nat /\ ring[k].head \in Nat
    BY <1>6, RingNumbers
  <2> QED BY <1>6, <1>7, <2>1, <2>2, <2>3, <2>4
<1>9. HeadAhead'
  BY <1>1, <1>3, <1>8, KeepHeadAhead DEF FInv
<1>10. OneWay'
  BY <1>3 DEF FInv, OneWay, Quiet
<1>11. TailAhead'
  BY <1>2, <1>3, KeepTailAhead DEF FInv, Quiet
<1>12. InOrder'
  BY <1>3, KeepInOrder DEF FInv, Quiet
<1>13. Follows(p)' /\ Later(p)'
  BY <1>1 DEF Follows, Later, NoRing, Enq
<1> QED BY <1>3, <1>9, <1>10, <1>11, <1>12, <1>13, OrderStep

LEMMA MarkOrder ==
  ASSUME IInv, TInv, EInv, FInv, NEW p \in Thread, Steady(p), MarkUnsafe(p) \/ Advance(p),
         Unmoved(p)
  PROVE  FInv'
<1>1. PICK x \in CellRec :
        /\ x.val = Cell(p).val /\ Strikes(p, x)
        /\ MarkUnsafe(p) => x.idx = Cell(p).idx
        /\ Advance(p) => th[p].pc = "advance"
        /\ th[p].pc \in {"mark", "advance"} /\ th'[p].pc = "check" /\ SameTurn(th'[p], th[p])
        /\ taken' = taken /\ prec' = prec
  BY MarkStrikes, Zenon
<1>2. th[p].pc \notin NoRing /\ th[p].pc # "publish" /\ ToSet(taken)' = ToSet(taken)
  BY <1>1 DEF NoRing, ToSet
<1>3. Advance(p) => x.val = Empty
  <2>1. Sound(th[p], Cell(p)) /\ Cell(p).val = th[p].val
    BY UnmovedFields DEF TInv, Sounds
  <2>2. th[p].pc = "advance" => th[p].val = Empty
    BY <2>1, Zenon DEF Sound
  <2> QED BY <1>1, <2>1, <2>2
<1>4. Pairs(p)
  BY <1>1, SamePairs
<1>5. Quiet(p)
  BY <1>1, <1>2, <1>3, StrikeQuiet
<1>6. Follows(p) /\ Later(p)
  BY DEF FInv
<1>7. Follows(p)' /\ Later(p)'
  BY <1>1, <1>2, <1>4, <1>6, TurnOrdered
     DEF SameTurn, NoRing, Enq, Issued, Asking, Hunting
<1> QED BY <1>2, <1>4, <1>5, <1>7, QuietOrder

(* A ring that is linked is the last one of the chain.                     *)
LEMMA LinkEnd ==
  ASSUME IInv, NEW p \in Thread, NEW m \in Ring, Attaches(p, m)
  PROVE  /\ \A q \in Ring : Onward(q)' \subseteq Onward(q) \cup {m}
         /\ Onward(m)' \subseteq {m}
<1>1. ASSUME NEW q \in Ring
      PROVE  Onward(q)' \subseteq Onward(q) \cup {m}
  <2>1. PICK S : S = Onward(q) \cup {m}
    OBVIOUS
  <2>2. S \in SUBSET Ring /\ q \in S
    BY <2>1, OnwardSelf DEF Onward
  <2>3. ASSUME NEW r \in S, ring'[r].next # Null
        PROVE  ring'[r].next \in S
    <3>1. r # m
      BY <2>3 DEF Attaches
    <3>2. r \in Onward(q) /\ r \in Ring
      BY <2>1, <2>2, <3>1
    <3>3. ring'[r].next \in {m, ring[r].next}
      BY <3>1, <3>2 DEF Attaches
    <3>4. ring[r].next # Null => ring[r].next \in Onward(q)
      BY <3>2, OnwardNext, OnwardTrans
    <3> QED BY <2>1, <2>3, <3>3, <3>4
  <2>4. Closed(S)'
    BY <2>3 DEF Closed
  <2>5. \A r \in Onward(q)' : r \in S
    BY <2>2, <2>4 DEF Onward
  <2> QED BY <2>1, <2>5
<1>2. Onward(m)' \subseteq {m}
  <2>1. Closed({m})'
    BY DEF Closed, Attaches
  <2> QED BY <2>1 DEF Onward
<1> QED BY <1>1, <1>2

(* The item in a new ring follows what was enqueued before.                *)
LEMMA LinkOrder ==
  ASSUME IInv, IInv', EInv, FInv, NEW p \in Thread, Steady(p), Link(p)
  PROVE  FInv'
<1>1. PICK m \in Ring : Attaches(p, m) /\ m \notin Live
  BY LinkFields
<1>2. PICK k : k = th[p].rq
  OBVIOUS
<1>3. PICK v : v = th[p].arg
  OBVIOUS
<1>4. /\ th[p].pc = "link" /\ k \in Live /\ Live \subseteq Ring /\ taken' = taken /\ prec' = prec
  BY <1>2, LinkFields
<1>5. /\ Live \subseteq Live' /\ Live' \subseteq Live \cup {m}
      /\ m \in Live' => th'[p].pc = "publish" /\ ring'[k].next = m
      /\ th'[p].nrq = m /\ th'[p].arg = v
      /\ th'[p].pc \in {"publish", "tail"}
      /\ \A c \in Cells : ring'[m].array[c].val \in {v, Empty}
      /\ \A q \in Live : ring'[q].array = ring[q].array
  <2>1. \A q \in Live : q \in Ring /\ q # m
    BY <1>1, <1>4
  <2>2. k \in Ring /\ k # m
    BY <1>4, <2>1
  <2> QED BY <1>1, <1>2, <1>3, <2>1, <2>2 DEF Attaches
<1>6. Pairs(p) /\ ToSet(taken)' = ToSet(taken)
  BY <1>4, SamePairs DEF ToSet
<1>7. OneWay'
  <2>1. /\ \A q \in Ring : Onward(q)' \subseteq Onward(q) \cup {m}
        /\ Onward(m)' \subseteq {m}
    BY <1>1, LinkEnd
  <2>2. ASSUME NEW q \in Live', NEW r \in Live', r \in Onward(q)', q \in Onward(r)'
        PROVE  q = r
    <3>1. CASE q = m \/ r = m
      BY <2>1, <2>2, <3>1
    <3>2. CASE q # m /\ r # m
      <4>1. q \in Live /\ r \in Live /\ q \in Ring /\ r \in Ring
        BY <1>4, <1>5, <3>2
      <4>2. r \in Onward(q) /\ q \in Onward(r)
        BY <2>1, <2>2, <3>2, <4>1
      <4> QED BY <4>1, <4>2 DEF FInv, OneWay
    <3> QED BY <3>1, <3>2
  <2> QED BY <2>2 DEF OneWay
<1>8. TailAhead'
  <2>1. ASSUME NEW q \in Live', NEW c \in Cells, ring'[q].array[c].val # Empty
        PROVE  \/ q \in Live /\ ring'[q].array[c].val = ring[q].array[c].val
               \/ /\ th'[p].pc = "publish" /\ th'[p].nrq = q
                  /\ th'[p].arg = ring'[q].array[c].val
    BY <1>5, <2>1
  <2> QED BY <1>4, <2>1, KeepTailAhead DEF FInv
<1>9. InOrder'
  <2>1. ASSUME m \in Live', NEW q \in Live, NEW c \in Cells, ring[q].array[c].val # Empty,
               <<ring[q].array[c].val, v>> \in prec'
        PROVE  m \in Onward(q)' /\ m # q
    <3>1. th[p].pc \in Enq \ {"tail", "publish"}
      BY <1>4 DEF Enq
    <3>2. k \in Onward(q)
      BY <1>2, <1>3, <1>4, <2>1, <3>1 DEF FInv, Follows
    <3>3. k \in Onward(q)'
      BY <3>2 DEF Steady
    <3>4. k \in Ring /\ ring'[k].next = m /\ m # Null
      BY <1>4, <1>5, <2>1, RingsAreNumbers
    <3>5. m \in Onward(q)'
      BY <3>3, <3>4 DEF Onward, Closed
    <3> QED BY <1>1, <3>5
  <2>2. ASSUME NEW r \in Live', NEW d \in Cells, ring'[r].array[d].val # Empty
        PROVE  \/ r \in Live /\ ring'[r].array[d] = ring[r].array[d]
               \/ r = m /\ ring'[r].array[d].val = v
    BY <1>5, <2>2
  <2> QED BY <1>6, <2>1, <2>2, KeepInOrder DEF FInv
<1>10. HeadAhead'
  BY <1>6, KeepHeadAhead DEF FInv
<1>11. Follows(p)' /\ Later(p)'
  BY <1>5 DEF Follows, Later, NoRing, Enq
<1> QED BY <1>6, <1>7, <1>8, <1>9, <1>10, <1>11, OrderStep

-----------------------------------------------------------------------------
(* The fourth invariant holds.                                             *)

LEMMA InitFInv ==
  ASSUME Init
  PROVE  FInv
<1>1. PICK m : Starts(m)
  BY InitFields
<1>2. /\ Live = {1} /\ 1 \in Ring /\ tail = 1 /\ taken = << >>
      /\ \A p \in Thread : th[p].pc = "idle"
      /\ \A c \in Cells : ring[1].array[c].val # Empty => ring[1].array[c].val = Filled(c)
      /\ \A c \in Cells : ring[1].array[c].idx = c
      /\ m \in 0..RING_SIZE
      /\ done = {Filled(i) : i \in 0..m-1}
      /\ prec = {<<Filled(ij[1]), Filled(ij[2])>> :
                   ij \in {p \in (0..m-1) \X (0..m-1) : p[1] < p[2]}}
  BY <1>1, RingsAreNumbers DEF Starts, Idle
<1>3. ASSUME NEW a, NEW b, <<a, b>> \in prec
      PROVE  \E i, j \in 0..m-1 : a = Filled(i) /\ b = Filled(j) /\ i < j
  <2>1. PICK ij \in (0..m-1) \X (0..m-1) :
          ij[1] < ij[2] /\ <<a, b>> = <<Filled(ij[1]), Filled(ij[2])>>
    BY <1>2, <1>3
  <2>2. ij[1] \in 0..m-1 /\ ij[2] \in 0..m-1 /\ a = Filled(ij[1]) /\ b = Filled(ij[2])
    BY <2>1
  <2> QED BY <2>1, <2>2
<1>4. \A i, j : Filled(i) = Filled(j) => i = j
  BY DEF Filled
<1>5. 1 \in Onward(1)
  BY <1>2, OnwardSelf
<1>6. OneWay /\ TailAhead
  BY <1>2, <1>5 DEF OneWay, TailAhead
<1>7. Earlier
  BY <1>2, <1>3 DEF Earlier
<1>8. InOrder
  <2>1. ASSUME NEW c \in Cells, NEW d \in Cells,
               ring[1].array[c].val # Empty, ring[1].array[d].val # Empty,
               <<ring[1].array[c].val, ring[1].array[d].val>> \in prec
        PROVE  ring[1].array[c].idx < ring[1].array[d].idx
    <3>1. PICK i \in 0..m-1, j \in 0..m-1 :
            ring[1].array[c].val = Filled(i) /\ ring[1].array[d].val = Filled(j) /\ i < j
      BY <1>3, <2>1
    <3>2. i = c /\ j = d
      BY <1>2, <1>4, <2>1, <3>1
    <3> QED BY <1>2, <3>1, <3>2
  <2> QED BY <1>2, <1>5, <2>1 DEF InOrder
<1>9. HeadAhead
  BY <1>2 DEF HeadAhead, ToSet
<1>10. \A p \in Thread : Follows(p) /\ Later(p)
  BY <1>2 DEF Follows, Later, NoRing, Enq
<1> QED BY <1>6, <1>7, <1>8, <1>9, <1>10 DEF FInv

LEMMA StutterFInv ==
  ASSUME FInv, UNCHANGED vars
  PROVE  FInv'
<1>1. /\ Live' = Live /\ ToSet(taken)' = ToSet(taken)
      /\ ring' = ring /\ th' = th /\ UNCHANGED <<head, tail, done, prec>>
  BY DEF vars, Live, ToSet
<1>2. \A q : Onward(q)' = Onward(q)
  BY <1>1, OnwardKept
<1>3. OneWay' /\ Earlier' /\ TailAhead' /\ InOrder' /\ HeadAhead'
  BY <1>1, <1>2 DEF FInv, OneWay, Earlier, TailAhead, InOrder, HeadAhead
<1>4. \A p \in Thread : Follows(p)' /\ Later(p)'
  BY <1>1, <1>2 DEF FInv, Follows, Later
<1> QED BY <1>3, <1>4 DEF FInv

LEMMA AtPublish ==
  ASSUME NEW p \in Thread, th[p].pc = "publish", Enqueue(p) \/ Dequeue(p)
  PROVE  Publish(p)
<1>1. ~Dequeue(p)
  BY DEF Dequeue, BeginDequeue, ReadHeadPtr, DrawTicket, Examine, Take, MarkUnsafe, Wait,
         Advance, CheckEmpty, FixRead, FixHead, FixCheck, FixTail, ReturnEmpty, ReadNextRing,
         SwingHead
<1> QED BY <1>1 DEF Enqueue, BeginEnqueue, ReadTailPtr, ReadNext, SwingTail, TakeTicket, ReadIdx,
                    Judge, CheckHead, Put, CheckFull, Close, Link

LEMMA ThreadOrder ==
  ASSUME IInv, IInv', TInv, EInv, FInv, NEW p \in Thread, Enqueue(p) \/ Dequeue(p)
  PROVE  FInv'
<1>1. Steady(p)
  BY ThreadFit
<1>2. CASE th[p].pc = "publish"
  BY <1>1, <1>2, AtPublish, PublishOrder
<1>3. CASE th[p].pc # "publish"
  <2>1. ~Publish(p)
    BY <1>3 DEF Publish
  <2>2. Plain(p) => FInv'
    BY <1>1, <1>3, PlainOrder
  <2>3. ASSUME Put(p) \/ Take(p) \/ MarkUnsafe(p) \/ Advance(p) \/ CheckHead(p)
        PROVE  FInv'
    <3>1. CASE Unmoved(p) /\ ~CheckHead(p)
      BY <1>1, <2>3, <3>1, PutOrder, TakeOrder, MarkOrder
    <3>2. CASE ~Unmoved(p) \/ CheckHead(p)
      <4>1. UNCHANGED ring
        BY <2>3, <3>2 DEF Put, Take, MarkUnsafe, Advance, CheckHead
      <4> QED BY <2>2, <2>3, <3>2, <4>1, PlainFailures
    <3> QED BY <3>1, <3>2
  <2>4. CASE Enqueue(p)
    BY <1>1, <2>1, <2>2, <2>3, <2>4, BeginEnqueueOrder, ReadTailOrder, NextOrder, SwingOrder,
       TakeTicketOrder, PlainReads, PlainFull, ClosePlain, LinkOrder DEF Enqueue
  <2>5. CASE Dequeue(p)
    BY <1>1, <2>2, <2>3, <2>5, BeginDequeueOrder, ReadHeadOrder, DrawStep, DrawOrder, PlainReads,
       CheckEmptyOrder, FixOrder, ReturnEmptyPlain, NextOrder, SwingOrder DEF Dequeue
  <2> QED BY <2>4, <2>5
<1> QED BY <1>2, <1>3

LEMMA NextFInv == IInv /\ IInv' /\ TInv /\ EInv /\ FInv /\ [Next]_vars => FInv'
<1> SUFFICES ASSUME IInv, IInv', TInv, EInv, FInv, [Next]_vars PROVE FInv'
  OBVIOUS
<1>1. CASE UNCHANGED vars
  BY <1>1, StutterFInv
<1>2. CASE Terminated
  BY <1>2, StutterFInv DEF Terminated
<1> QED BY <1>1, <1>2, ThreadOrder DEF Next

LEMMA OrderHolds == Spec => [](IInv /\ TInv /\ EInv /\ FInv)
<1>1. Init => IInv /\ TInv /\ EInv /\ FInv
  BY InitIInv, InitTInv, InitEInv, InitFInv
<1>2. (IInv /\ TInv /\ EInv /\ FInv) /\ [Next]_vars => (IInv /\ TInv /\ EInv /\ FInv)'
  BY NextIInv, NextTInv, NextEInv, NextFInv
<1> QED BY <1>1, <1>2, PTL DEF Spec

LEMMA AtTake ==
  ASSUME NEW p \in Thread, th[p].pc = "take", Enqueue(p) \/ Dequeue(p)
  PROVE  Take(p)
<1>1. ~Enqueue(p)
  BY DEF Enqueue, BeginEnqueue, ReadTailPtr, ReadNext, SwingTail, TakeTicket, ReadIdx, Judge,
         CheckHead, Put, CheckFull, Close, Link, Publish
<1> QED BY <1>1 DEF Dequeue, BeginDequeue, ReadHeadPtr, DrawTicket, ReadIdx, Examine, MarkUnsafe,
                    Wait, Advance, CheckEmpty, FixRead, FixHead, FixCheck, FixTail, ReturnEmpty,
                    ReadNextRing, SwingHead

(* The cell that p is about to take from holds no item that was enqueued   *)
(* before one that was taken when p began.                                 *)
LEMMA TakesInOrder ==
  ASSUME IInv, TInv, EInv, FInv, NEW p \in Thread, th[p].pc = "take", Unmoved(p),
         NEW b \in th[p].older
  PROVE  <<th[p].val, b>> \notin prec
<1>1. PICK k : k = th[p].rq
  OBVIOUS
<1>2. PICK s : s = Slot(p)
  OBVIOUS
<1>3. k \in Live /\ s \in Cells /\ th[p].n \in Nat
  BY <1>1, <1>2, Here DEF NoRing
<1>4. Cell(p).val = th[p].val /\ Cell(p).idx = th[p].idx
  BY UnmovedFields
<1>5. th[p].val # Empty /\ th[p].idx = th[p].n
  BY Zenon DEF TInv, Sounds, Sound
<1>6. ring[k].array[s].val = th[p].val /\ ring[k].array[s].idx = th[p].n
  BY <1>1, <1>2, <1>4, <1>5 DEF Cell
<1>7. <<th[p].val, b>> \in prec => ring[k].array[s].idx < th[p].n
  BY <1>1, <1>3, <1>5, <1>6 DEF FInv, Later, NoRing, Enq, Hunting
<1> QED BY <1>3, <1>6, <1>7

(* First in, first out across threads and rings: the value a dequeue       *)
(* returns (line 338) was not enqueued before a value that was dequeued    *)
(* before this dequeue began, for any number of threads, rings and cells.  *)
THEOREM FirstInFirstOut == Spec => Fifo
<1>1. ASSUME IInv, IInv', TInv, EInv, [Next]_vars, NEW p \in Thread,
             th[p].pc = "take", th'[p].pc = "idle"
      PROVE  Unmoved(p)
  <2>1. PICK o \in Thread : Enqueue(o) \/ Dequeue(o)
    BY <1>1 DEF Next, Terminated, vars
  <2>2. o = p
    BY <1>1, <2>1, ThreadFit DEF Steady, Alone
  <2>3. Take(p)
    BY <1>1, <2>1, <2>2, AtTake
  <2>4. Unmoved(p) \/ Go(p, "didx", th[p])
    BY <2>3 DEF Take
  <2>5. Go(p, "didx", th[p]) => th'[p].pc = "didx"
    BY <1>1, StayFields DEF Pcs
  <2> QED BY <1>1, <2>4, <2>5
<1>2. (IInv /\ TInv /\ EInv /\ FInv) /\ (IInv /\ TInv /\ EInv /\ FInv)' /\ [Next]_vars =>
        [\A p \in Thread :
           th[p].pc = "take" /\ th'[p].pc = "idle"
             => \A b \in th[p].older : <<th[p].val, b>> \notin prec]_vars
  BY <1>1, TakesInOrder
<1> QED BY <1>2, OrderHolds, PTL DEF Spec, Fifo
===============================================================================
